---------------------------- MODULE MsgSignalProofs -----------------------------
(***************************************************************************)
(* Proofs about ProtoSignal, for any links, any depth of emissions within  *)
(* emissions and any number of calls of size() and empty().                *)
(***************************************************************************)
EXTENDS MsgSignal, FiniteSetTheorems, SequenceTheorems, TLAPS

-----------------------------------------------------------------------------
(* The inductive invariant *)

\* What is allocated is what is referenced; the head is while an emission goes on; a
\* link that is not allocated yet is nowhere.
AllocInv ==
    state = "live" =>
        /\ alive = {n \in Nodes : ref[n] > 0}
        /\ stack # <<>> => Ring \in alive
        /\ \A n \in unused : ref[n] = 0 /\ leaked[n] = 0 /\ n \notin fn

\* The references that the ring itself holds of a link.
Held(n) == IF n \in fn THEN 1 ELSE IF n = Ring /\ n \in alive THEN 2 ELSE 0

RefInv == TypeOK /\ AllocInv /\ RefsExact

\* The ring in both directions.
Linked ==
    \A n \in fn \union {Ring} :
        /\ next[n] \in fn \union {Ring} /\ prev[n] \in fn \union {Ring}
        /\ prev[next[n]] = n /\ next[prev[n]] = n

\* pos is an order of the links by the time of their connect, all before end.
Places(pos, end) ==
    /\ \A n \in Links : pos[n] \in Nat
    /\ \A n \in Links \ unused : pos[n] < end
    /\ \A m, n \in Links \ unused : pos[m] = pos[n] => m = n

\* After n comes m: none of the callbacks G lies between them, and none of F after n when
\* m is the head.
NextPlace(pos, n, m, F, G) ==
    IF m = Ring THEN \A k \in F : pos[k] <= pos[n]
    ELSE pos[n] < pos[m] /\ \A k \in G : pos[k] <= pos[n] \/ pos[m] <= pos[k]

\* A walk of the ring goes through the callbacks in this order.
Sorted(pos) ==
    /\ \A n \in fn : NextPlace(pos, n, next[n], fn, fn)
    /\ IF next[Ring] = Ring THEN fn = {} ELSE \A k \in fn : pos[next[Ring]] <= pos[k]

\* Emission f has called each link at most once, none from its place on, and all that
\* it is to call before it; a link that was removed under it still leads on.
Walks(pos, f) ==
    /\ f.at # Ring => f.at \notin unused
    /\ f.at = Ring => f.called = <<>>
    /\ f.start \intersect unused = {}
    /\ next[f.at] \in fn \union {Ring}
    /\ f.at \notin fn \union {Ring} =>
          NextPlace(pos, f.at, next[f.at], f.start \intersect fn, fn)
    /\ \A i \in DOMAIN f.called :
          /\ f.called[i] \notin unused
          /\ pos[f.called[i]] <= pos[f.at]
          /\ f.phase = "visit" => f.called[i] # f.at
    /\ \A i, j \in DOMAIN f.called : f.called[i] = f.called[j] => i = j
    /\ \A n \in f.start \intersect fn :
          /\ f.at # Ring
          /\ pos[n] < pos[f.at] \/ (n = f.at /\ f.phase # "visit")
          => \E i \in DOMAIN f.called : f.called[i] = n

\* The ring, for callbacks that disconnect any link.
RingInv ==
    state = "live" =>
        Linked /\ \E pos \in [Links -> Nat], end \in Nat : Places(pos, end) /\ Sorted(pos)

\* The ring and the emissions on it, for callbacks that disconnect only themselves.
EmitInv ==
    /\ state # "undefined"
    /\ state # "live" => stack = <<>>
    /\ state = "live" =>
          /\ Linked
          /\ \E pos \in [Links -> Nat], end \in Nat :
                /\ Places(pos, end) /\ Sorted(pos)
                /\ \A k \in DOMAIN stack : Walks(pos, stack[k])

-----------------------------------------------------------------------------
(* The stack of emissions *)

WatchSet(s, n) == {i \in DOMAIN s : s[i].at = n}

\* The innermost emission replaced or removed, or one more: what the stack is then.
LEMMA StackShape ==
  ASSUME NEW s \in Seq(Frame), NEW f \in Frame
  PROVE  /\ Len(s) \in Nat /\ DOMAIN s = 1 .. Len(s)
         /\ Append(s, f) \in Seq(Frame) /\ DOMAIN Append(s, f) = 1 .. Len(s) + 1
         /\ \A i \in 1 .. Len(s) : Append(s, f)[i] = s[i]
         /\ Append(s, f)[Len(s) + 1] = f
         /\ s # <<>> =>
              /\ Len(s) >= 1 /\ s[Len(s)] \in Frame
              /\ [s EXCEPT ![Len(s)] = f] \in Seq(Frame)
              /\ DOMAIN [s EXCEPT ![Len(s)] = f] = 1 .. Len(s)
              /\ \A i \in 1 .. Len(s) :
                    [s EXCEPT ![Len(s)] = f][i] = IF i = Len(s) THEN f ELSE s[i]
              /\ SubSeq(s, 1, Len(s) - 1) \in Seq(Frame)
              /\ DOMAIN SubSeq(s, 1, Len(s) - 1) = 1 .. Len(s) - 1
              /\ \A i \in 1 .. Len(s) - 1 : SubSeq(s, 1, Len(s) - 1)[i] = s[i]
<1>1. Len(s) \in Nat /\ DOMAIN s = 1 .. Len(s) /\ \A i \in 1 .. Len(s) : s[i] \in Frame
  BY ElementOfSeq, LenProperties
<1>2. /\ Append(s, f) \in Seq(Frame) /\ DOMAIN Append(s, f) = 1 .. Len(s) + 1
      /\ \A i \in 1 .. Len(s) : Append(s, f)[i] = s[i]
      /\ Append(s, f)[Len(s) + 1] = f
  BY AppendProperties, <1>1
<1>3. ASSUME s # <<>>
      PROVE /\ Len(s) >= 1 /\ s[Len(s)] \in Frame
            /\ [s EXCEPT ![Len(s)] = f] \in Seq(Frame)
            /\ DOMAIN [s EXCEPT ![Len(s)] = f] = 1 .. Len(s)
            /\ \A i \in 1 .. Len(s) :
                  [s EXCEPT ![Len(s)] = f][i] = IF i = Len(s) THEN f ELSE s[i]
  <2>1. Len(s) # 0
    BY <1>3, EmptySeq
  <2>2. Len(s) >= 1 /\ Len(s) \in 1 .. Len(s)
    BY <1>1, <2>1
  <2> QED BY <1>1, <2>2, ExceptSeq
<1>4. ASSUME s # <<>>
      PROVE /\ SubSeq(s, 1, Len(s) - 1) \in Seq(Frame)
            /\ DOMAIN SubSeq(s, 1, Len(s) - 1) = 1 .. Len(s) - 1
            /\ \A i \in 1 .. Len(s) - 1 : SubSeq(s, 1, Len(s) - 1)[i] = s[i]
  <2> DEFINE n == Len(s) - 1
             t == SubSeq(s, 1, n)
  <2>1. n \in Nat /\ \A i \in 1 .. n : s[i] \in Frame
    BY <1>1, <1>3, <1>4
  <2> HIDE DEF n
  <2>2. /\ t \in Seq(Frame) /\ Len(t) = (IF 1 <= n THEN n - 1 + 1 ELSE 0)
        /\ \A i \in 1 .. n - 1 + 1 : t[i] = s[1 + i - 1]
    BY <2>1, SubSeqProperties
  <2>3. t \in Seq(Frame) /\ Len(t) = n /\ \A i \in 1 .. n : t[i] = s[i]
    BY <2>1, <2>2
  <2>4. DOMAIN t = 1 .. n
    BY <2>3, LenProperties
  <2> QED BY <2>3, <2>4 DEF n
<1> QED BY <1>1, <1>2, <1>3, <1>4

\* The emissions at a link are finitely many.
LEMMA WatchNat ==
  ASSUME NEW s \in Seq(Frame), NEW n
  PROVE  IsFiniteSet(WatchSet(s, n)) /\ Cardinality(WatchSet(s, n)) \in Nat
<1>1. IsFiniteSet(1 .. Len(s)) /\ DOMAIN s = 1 .. Len(s)
  BY LenProperties, FS_Interval
<1>2. WatchSet(s, n) \in SUBSET (1 .. Len(s))
  BY <1>1 DEF WatchSet
<1> QED BY <1>1, <1>2, FS_Subset, FS_CardinalityType

\* A new emission is at its link and at no other.
LEMMA WatchPush ==
  ASSUME NEW s \in Seq(Frame), NEW f \in Frame, NEW n
  PROVE  Cardinality(WatchSet(Append(s, f), n))
           = Cardinality(WatchSet(s, n)) + IF f.at = n THEN 1 ELSE 0
<1>1. /\ Len(s) \in Nat /\ DOMAIN s = 1 .. Len(s) /\ DOMAIN Append(s, f) = 1 .. Len(s) + 1
      /\ \A i \in 1 .. Len(s) : Append(s, f)[i] = s[i]
      /\ Append(s, f)[Len(s) + 1] = f
  BY StackShape
<1>2. 1 .. Len(s) + 1 = (1 .. Len(s)) \union {Len(s) + 1} /\ Len(s) + 1 \notin 1 .. Len(s)
  BY <1>1
<1>3. CASE f.at = n
  <2>1. WatchSet(Append(s, f), n) = WatchSet(s, n) \union {Len(s) + 1}
    BY <1>1, <1>2, <1>3 DEF WatchSet
  <2>2. Len(s) + 1 \notin WatchSet(s, n)
    BY <1>1, <1>2 DEF WatchSet
  <2> QED BY <1>3, <2>1, <2>2, WatchNat, FS_AddElement
<1>4. CASE f.at # n
  <2>1. WatchSet(Append(s, f), n) = WatchSet(s, n)
    BY <1>1, <1>2, <1>4 DEF WatchSet
  <2> QED BY <1>4, <2>1, WatchNat
<1> QED BY <1>3, <1>4

\* An emission that ends is no longer at its link.
LEMMA WatchPop ==
  ASSUME NEW s \in Seq(Frame), s # <<>>, NEW n
  PROVE  Cardinality(WatchSet(s, n)) = Cardinality(WatchSet(SubSeq(s, 1, Len(s) - 1), n))
                                         + IF s[Len(s)].at = n THEN 1 ELSE 0
<1> DEFINE t == SubSeq(s, 1, Len(s) - 1)
           f == s[Len(s)]
<1>0. f \in Frame
  <2>1. Len(s) \in Nat /\ Len(s) # 0
    BY EmptySeq, LenProperties
  <2>2. Len(s) \in 1 .. Len(s)
    BY <2>1
  <2> QED BY <2>2, ElementOfSeq
<1>1. /\ Len(s) \in Nat /\ DOMAIN s = 1 .. Len(s) /\ t \in Seq(Frame) /\ Len(s) >= 1
      /\ DOMAIN t = 1 .. Len(s) - 1 /\ \A i \in 1 .. Len(s) - 1 : t[i] = s[i]
  BY <1>0, StackShape
<1>2. 1 .. Len(s) = (1 .. Len(s) - 1) \union {Len(s)} /\ Len(s) \notin 1 .. Len(s) - 1
  BY <1>1
<1> HIDE DEF t
<1>3. CASE f.at = n
  <2>1. WatchSet(s, n) = WatchSet(t, n) \union {Len(s)}
    BY <1>1, <1>2, <1>3 DEF WatchSet
  <2>2. Len(s) \notin WatchSet(t, n)
    BY <1>1, <1>2 DEF WatchSet
  <2>3. IsFiniteSet(WatchSet(t, n))
    BY <1>1, WatchNat
  <2>4. Cardinality(WatchSet(s, n)) = Cardinality(WatchSet(t, n)) + 1
    BY <2>1, <2>2, <2>3, FS_AddElement
  <2> QED BY <1>3, <2>4 DEF t
<1>4. CASE f.at # n
  <2>1. WatchSet(s, n) = WatchSet(t, n)
    BY <1>1, <1>2, <1>4 DEF WatchSet
  <2> QED BY <1>1, <1>4, <2>1, WatchNat DEF t
<1> QED BY <1>3, <1>4

\* An emission that goes on leaves its link for another one.
LEMMA WatchMove ==
  ASSUME NEW s \in Seq(Frame), s # <<>>, NEW f \in Frame, NEW n
  PROVE  Cardinality(WatchSet([s EXCEPT ![Len(s)] = f], n))
           = Cardinality(WatchSet(SubSeq(s, 1, Len(s) - 1), n)) + IF f.at = n THEN 1 ELSE 0
<1> DEFINE t == SubSeq(s, 1, Len(s) - 1)
           u == [s EXCEPT ![Len(s)] = f]
<1>1. /\ Len(s) \in Nat /\ Len(s) >= 1 /\ t \in Seq(Frame) /\ u \in Seq(Frame)
      /\ DOMAIN t = 1 .. Len(s) - 1 /\ \A i \in 1 .. Len(s) - 1 : t[i] = s[i]
      /\ DOMAIN u = 1 .. Len(s)
      /\ \A i \in 1 .. Len(s) : u[i] = IF i = Len(s) THEN f ELSE s[i]
  BY StackShape
<1> HIDE DEF t, u
<1>2. Len(u) = Len(s) /\ u # <<>>
  <2>1. Len(u) \in Nat /\ DOMAIN u = 1 .. Len(u)
    BY <1>1, LenProperties
  <2>2. Len(u) = Len(s)
    BY <1>1, <2>1
  <2>3. \A k \in Nat : k >= 1 => k # 0 /\ k \in 1 .. k
    OBVIOUS
  <2>4. Len(u) # 0
    BY <1>1, <2>2, <2>3
  <2> QED BY <1>1, <2>2, <2>4, EmptySeq
<1>3. u[Len(u)] = f
  <2>1. \A k \in Nat : k >= 1 => k \in 1 .. k
    OBVIOUS
  <2>2. Len(s) \in 1 .. Len(s)
    BY <1>1, <2>1
  <2> QED BY <1>1, <1>2, <2>2
<1>4. SubSeq(u, 1, Len(u) - 1) = t
  <2>1. \A i \in 1 .. Len(s) - 1 : u[i] = t[i]
    BY <1>1
  <2>2. /\ SubSeq(u, 1, Len(u) - 1) \in Seq(Frame)
        /\ DOMAIN SubSeq(u, 1, Len(u) - 1) = 1 .. Len(u) - 1
        /\ \A i \in 1 .. Len(u) - 1 : SubSeq(u, 1, Len(u) - 1)[i] = u[i]
    BY <1>1, <1>2, StackShape
  <2> DEFINE v == SubSeq(u, 1, Len(u) - 1)
  <2>3. v \in Seq(Frame) /\ DOMAIN v = 1 .. Len(s) - 1 /\ \A i \in 1 .. Len(s) - 1 : v[i] = t[i]
    BY <1>2, <2>1, <2>2
  <2> HIDE DEF v
  <2>4. Len(v) \in Nat /\ DOMAIN v = 1 .. Len(v) /\ Len(t) \in Nat /\ DOMAIN t = 1 .. Len(t)
    BY <1>1, <2>3, LenProperties
  <2>5. Len(v) = Len(s) - 1 /\ Len(t) = Len(s) - 1
    BY <1>1, <2>3, <2>4
  <2>6. v = t
    BY <1>1, <2>3, <2>5, SeqEqual
  <2> QED BY <2>6 DEF v
<1>5. Cardinality(WatchSet(u, n)) = Cardinality(WatchSet(t, n)) + IF f.at = n THEN 1 ELSE 0
  BY <1>1, <1>2, <1>3, <1>4, WatchPop
<1> QED BY <1>5 DEF t, u

-----------------------------------------------------------------------------
(* References and allocation *)

Exact == \A n \in Nodes : ref[n] = leaked[n] + Cardinality(WatchSet(stack, n)) + Held(n)

\* What a live signal looks like.
LEMMA RefFacts ==
  ASSUME RefInv, state = "live"
  PROVE  /\ Exact
         /\ Ring \in Nodes /\ Ring \notin Links /\ Links \subseteq Nodes /\ fn \subseteq Links
         /\ alive \subseteq Nodes /\ unused \subseteq Links
         /\ ref \in [Nodes -> Nat] /\ leaked \in [Nodes -> Nat]
         /\ stack \in Seq(Frame)
         /\ \A n \in Nodes : Cardinality(WatchSet(stack, n)) \in Nat
         /\ \A n \in Nodes : n \in alive <=> ref[n] > 0
         /\ stack # <<>> => Ring \in alive
         /\ \A n \in unused : ref[n] = 0 /\ leaked[n] = 0 /\ n \notin fn
<1>1. Exact
  BY DEF RefInv, RefsExact, Exact, Watchers, WatchSet, Held
<1>2. /\ Ring \in Nodes /\ Ring \notin Links /\ Links \subseteq Nodes /\ fn \subseteq Links
      /\ alive \subseteq Nodes /\ unused \subseteq Links
      /\ ref \in [Nodes -> Nat] /\ leaked \in [Nodes -> Nat]
      /\ stack \in Seq(Frame)
  BY SignalAssumption DEF RefInv, TypeOK, Nodes
<1>3. \A n \in Nodes : Cardinality(WatchSet(stack, n)) \in Nat
  BY <1>2, WatchNat
<1> QED BY <1>1, <1>2, <1>3 DEF RefInv, AllocInv

\* The innermost emission holds a reference of its link.
LEMMA TopHeld ==
  ASSUME RefInv, state = "live", stack # <<>>
  PROVE  /\ Top \in Frame /\ Top.at \in Nodes
         /\ Cardinality(WatchSet(stack, Top.at)) >= 1
         /\ ref[Top.at] >= 1 /\ Ring \in alive
         /\ Top.at = Ring => ref[Ring] >= 3
         /\ \A n \in Nodes : Cardinality(WatchSet(Popped, n)) \in Nat
         /\ \A n \in Nodes : Cardinality(WatchSet(stack, n))
                = Cardinality(WatchSet(Popped, n)) + IF Top.at = n THEN 1 ELSE 0
<1>0. stack \in Seq(Frame)
  BY RefFacts
<1>1. Top \in Frame /\ Popped \in Seq(Frame)
  <2>1. Len(stack) \in Nat /\ Len(stack) # 0
    BY <1>0, EmptySeq, LenProperties
  <2>2. Len(stack) \in 1 .. Len(stack)
    BY <2>1
  <2>3. Top \in Frame
    BY <1>0, <2>2, ElementOfSeq DEF Top
  <2> QED BY <1>0, <2>3, StackShape DEF Popped
<1>2. Top.at \in Nodes
  BY <1>1 DEF Frame
<1>3. \A n \in Nodes : Cardinality(WatchSet(Popped, n)) \in Nat
  BY <1>1, WatchNat
<1>4. \A n \in Nodes : Cardinality(WatchSet(stack, n))
                = Cardinality(WatchSet(Popped, n)) + IF Top.at = n THEN 1 ELSE 0
  BY <1>0, WatchPop DEF Top, Popped
<1>5. Cardinality(WatchSet(stack, Top.at)) >= 1
  BY <1>2, <1>3, <1>4
<1>6. /\ Ring \in alive /\ Exact
      /\ ref \in [Nodes -> Nat] /\ leaked \in [Nodes -> Nat] /\ Ring \in Nodes
      /\ Ring \notin fn
      /\ \A n \in Nodes : Cardinality(WatchSet(stack, n)) \in Nat
  BY RefFacts
<1>7. Held(Top.at) \in Nat /\ Held(Ring) = 2
  BY <1>6 DEF Held
<1>8. ref[Top.at] = leaked[Top.at] + Cardinality(WatchSet(stack, Top.at)) + Held(Top.at)
  BY <1>2, <1>6 DEF Exact
<1>9. ref[Top.at] >= 1
  BY <1>2, <1>5, <1>6, <1>7, <1>8
<1>10. Top.at = Ring => ref[Ring] >= 3
  BY <1>2, <1>5, <1>6, <1>7, <1>8
<1> QED BY <1>1, <1>2, <1>3, <1>4, <1>5, <1>6, <1>9, <1>10

\* A new signal has no link and no emission.
LEMMA InitRefs == Init => RefInv
<1> SUFFICES ASSUME Init PROVE RefInv
  OBVIOUS
<1>1. TypeOK
  <2>1. stack \in Seq(Frame)
    BY EmptySeq DEF Init
  <2> QED BY <2>1 DEF Init, TypeOK, Nodes
<1>2. AllocInv
  BY DEF Init, AllocInv, Nodes
<1>3. \A n \in Nodes : Watchers(n) = 0
  <2>1. \A n \in Nodes : {i \in DOMAIN stack : stack[i].at = n} = {}
    BY DEF Init
  <2> QED BY <2>1, FS_EmptySet DEF Watchers
<1>4. RefsExact
  BY <1>3 DEF Init, RefsExact
<1> QED BY <1>1, <1>2, <1>4 DEF RefInv

\* Whatever a step does with the ring and the emissions, it keeps the invariant if the
\* counts it leaves are exact and it frees what is no longer counted.
LEMMA RefFollows ==
  ASSUME TypeOK', state' = "live", Exact',
         \A n \in Nodes : n \in alive' <=> ref'[n] > 0,
         stack' # <<>> => Ring \in alive',
         \A n \in unused' : ref'[n] = 0 /\ leaked'[n] = 0 /\ n \notin fn'
  PROVE  RefInv'
<1>1. alive' \subseteq Nodes
  BY DEF TypeOK
<1>2. AllocInv'
  BY <1>1 DEF AllocInv
<1>3. RefsExact'
  BY DEF Exact, RefsExact, Held, Watchers, WatchSet
<1> QED BY <1>2, <1>3 DEF RefInv

\* Every step keeps the counts exact, whatever callbacks disconnect.
LEMMA RefStep == RefInv /\ RingInv /\ [Next]_vars => RefInv'
<1> SUFFICES ASSUME RefInv, RingInv, [Next]_vars PROVE RefInv'
  OBVIOUS
<1> DEFINE W(n) == Cardinality(WatchSet(stack, n))
           V(n) == Cardinality(WatchSet(Popped, n))
<1>1. CASE UNCHANGED vars
  BY <1>1 DEF vars, RefInv, TypeOK, AllocInv, RefsExact, Watchers
<1>2. TypeOK
  BY DEF RefInv
<1>3. ASSUME state = "live"
      PROVE /\ \A n \in Nodes : ref[n] = leaked[n] + W(n) + Held(n)
            /\ Ring \in Nodes /\ Ring \notin Links /\ Links \subseteq Nodes
            /\ fn \subseteq Links /\ Ring \notin fn
            /\ alive \subseteq Nodes /\ unused \subseteq Links
            /\ ref \in [Nodes -> Nat] /\ leaked \in [Nodes -> Nat]
            /\ stack \in Seq(Frame)
            /\ \A n \in Nodes : W(n) \in Nat
            /\ \A n \in Nodes : n \in alive <=> ref[n] > 0
            /\ stack # <<>> => Ring \in alive
            /\ \A n \in unused : ref[n] = 0 /\ leaked[n] = 0 /\ n \notin fn
  BY <1>3, RefFacts DEF Exact
<1>4. ASSUME state = "live", stack # <<>>
      PROVE /\ Top \in Frame /\ Top.at \in Nodes /\ ref[Top.at] >= 1
            /\ Top.at = Ring => ref[Ring] >= 3
            /\ \A n \in Nodes : V(n) \in Nat
            /\ \A n \in Nodes : W(n) = V(n) + IF Top.at = n THEN 1 ELSE 0
  BY <1>4, TopHeld
<1> HIDE DEF W, V
<1>5. ASSUME NEW n \in Links, Connect(n) PROVE RefInv'
  <2>1. /\ state = "live" /\ state' = "live" /\ n \in unused /\ unused' = unused \ {n}
        /\ alive' = alive \union {Ring, n} /\ fn' = fn \union {n}
        /\ stack' = stack /\ leaked' = leaked
    BY <1>5 DEF Connect, UserCode
  <2>2. n \in Nodes /\ n # Ring /\ n \notin fn /\ ref[n] = 0 /\ leaked[n] = 0 /\ W(n) = 0
    <3>1. n \in Nodes /\ n # Ring /\ n \notin fn /\ ref[n] = 0 /\ leaked[n] = 0
      BY <1>3, <2>1
    <3>2. Held(n) = 0 /\ W(n) \in Nat /\ ref[n] = leaked[n] + W(n) + Held(n)
      BY <1>3, <2>1, <3>1 DEF Held
    <3> QED BY <3>1, <3>2
  <2>3. Ring \notin alive => ref[Ring] = 0 /\ leaked[Ring] = 0 /\ W(Ring) = 0
    <3> SUFFICES ASSUME Ring \notin alive PROVE ref[Ring] = 0 /\ leaked[Ring] = 0 /\ W(Ring) = 0
      OBVIOUS
    <3>1. ref[Ring] \in Nat /\ ~(ref[Ring] > 0) /\ leaked[Ring] \in Nat /\ W(Ring) \in Nat
      BY <1>3, <2>1
    <3>2. Held(Ring) = 0 /\ ref[Ring] = leaked[Ring] + W(Ring) + Held(Ring)
      BY <1>3, <2>1 DEF Held
    <3> QED BY <3>1, <3>2
  <2>4. /\ ref' \in [Nodes -> Nat]
        /\ ref'[n] = 1 /\ ref'[Ring] = IF Ring \in alive THEN ref[Ring] ELSE 2
        /\ \A k \in Nodes \ {n, Ring} : ref'[k] = ref[k]
    BY <1>3, <1>5, <2>1, <2>2 DEF Connect
  <2>5. TypeOK'
    <3>1. next' \in [Nodes -> Nodes] /\ prev' \in [Nodes -> Nodes]
      BY <1>2, <1>3, <1>5, <2>1, <2>2 DEF Connect, TypeOK
    <3> QED BY <1>2, <1>3, <2>1, <2>2, <2>4, <3>1 DEF TypeOK
  <2>6. Exact'
    <3> SUFFICES ASSUME NEW k \in Nodes PROVE ref'[k] = leaked[k] + W(k) + Held(k)'
      BY <2>1 DEF Exact, W
    <3>1. CASE k = n
      BY <2>1, <2>2, <2>4, <3>1 DEF Held
    <3>2. CASE k = Ring
      <4>1. Held(Ring)' = 2
        BY <1>3, <2>1, <2>2 DEF Held
      <4>2. CASE Ring \in alive
        <5>1. Held(Ring) = 2
          BY <1>3, <2>1, <4>2 DEF Held
        <5> QED BY <1>3, <2>1, <2>4, <3>2, <4>1, <4>2, <5>1
      <4>3. CASE Ring \notin alive
        BY <2>3, <2>4, <3>2, <4>1, <4>3
      <4> QED BY <4>2, <4>3
    <3>3. CASE k \notin {n, Ring}
      <4>1. Held(k)' = Held(k)
        BY <2>1, <3>3 DEF Held
      <4> QED BY <1>3, <2>1, <2>4, <3>3, <4>1
    <3> QED BY <3>1, <3>2, <3>3
  <2>7. \A k \in Nodes : k \in alive' <=> ref'[k] > 0
    <3> SUFFICES ASSUME NEW k \in Nodes PROVE k \in alive' <=> ref'[k] > 0
      OBVIOUS
    <3>1. CASE k \notin {n, Ring}
      BY <1>3, <2>1, <2>4, <3>1
    <3>2. CASE k = n
      BY <2>1, <2>4, <3>2
    <3>3. CASE k = Ring
      <4>1. ref'[Ring] > 0
        BY <1>3, <2>1, <2>4
      <4> QED BY <2>1, <3>3, <4>1
    <3> QED BY <3>1, <3>2, <3>3
  <2>8. \A k \in unused' : ref'[k] = 0 /\ leaked'[k] = 0 /\ k \notin fn'
    BY <1>3, <2>1, <2>4
  <2> QED BY <2>1, <2>5, <2>6, <2>7, <2>8, RefFollows
<1>6. ASSUME NEW n \in Links, Disconnect(n) PROVE RefInv'
  <2>1. /\ state = "live" /\ state' = "live" /\ n \in fn /\ unused' = unused
        /\ alive' = {k \in alive : ref'[k] > 0} /\ fn' = fn \ {n}
        /\ stack' = stack /\ leaked' = leaked
    BY <1>6 DEF Disconnect, UserCode, Unlink, Counted
  <2>2. n \in Nodes /\ n # Ring /\ Held(n) = 1 /\ ref[n] >= 1
    <3>1. n \in Nodes /\ n # Ring /\ Held(n) = 1
      BY <1>3, <2>1 DEF Held
    <3> QED BY <1>3, <2>1, <3>1
  <2>3. /\ ref' \in [Nodes -> Nat] /\ ref'[n] = ref[n] - 1
        /\ \A k \in Nodes \ {n} : ref'[k] = ref[k]
    <3>1. ref[n] - 1 \in Nat
      BY <1>3, <2>1, <2>2
    <3>2. ref' = [ref EXCEPT ![n] = ref[n] - 1]
      BY <1>6 DEF Disconnect, Unlink
    <3> QED BY <1>3, <2>1, <2>2, <3>1, <3>2
  <2>4. TypeOK'
    <3>1. next' \in [Nodes -> Nodes] /\ prev' \in [Nodes -> Nodes]
      BY <1>2, <1>3, <1>6, <2>1, <2>2 DEF Disconnect, Unlink, TypeOK
    <3> QED BY <1>2, <1>3, <2>1, <2>3, <3>1 DEF TypeOK
  <2>5. Ring \in alive' <=> Ring \in alive
    BY <1>3, <2>1, <2>2, <2>3
  <2>6. Exact'
    <3> SUFFICES ASSUME NEW k \in Nodes PROVE ref'[k] = leaked[k] + W(k) + Held(k)'
      BY <2>1 DEF Exact, W
    <3>1. CASE k = n
      <4>1. Held(n)' = 0
        BY <2>1, <2>2 DEF Held
      <4> QED BY <1>3, <2>1, <2>2, <2>3, <3>1, <4>1
    <3>2. CASE k # n
      <4>1. Held(k)' = Held(k)
        BY <2>1, <2>5, <3>2 DEF Held
      <4> QED BY <1>3, <2>1, <2>3, <3>2, <4>1
    <3> QED BY <3>1, <3>2
  <2>7. \A k \in Nodes : k \in alive' <=> ref'[k] > 0
    <3> SUFFICES ASSUME NEW k \in Nodes, ref'[k] > 0 PROVE k \in alive
      BY <2>1
    <3>1. ref[k] \in Nat /\ (ref[k] > 0 => k \in alive)
      BY <1>3, <2>1
    <3>2. ref'[k] = ref[k] \/ ref[k] >= 1
      BY <2>2, <2>3
    <3> QED BY <3>1, <3>2
  <2>8. \A k \in unused' : ref'[k] = 0 /\ leaked'[k] = 0 /\ k \notin fn'
    BY <1>3, <2>1, <2>3
  <2>9. stack' # <<>> => Ring \in alive'
    BY <1>3, <2>1, <2>5
  <2> QED BY <2>1, <2>4, <2>6, <2>7, <2>8, <2>9, RefFollows
<1>7. CASE QueryNull
  <2>1. /\ state' = "null" /\ UNCHANGED <<alive, unused, next, prev, ref, fn, stack, leaked>>
    BY <1>7 DEF QueryNull
  <2> QED BY <1>2, <2>1 DEF RefInv, TypeOK, AllocInv, RefsExact
<1>8. ASSUME NEW n \in Nodes, n \in alive, Query(n) PROVE RefInv'
  <2>1. /\ state = "live" /\ state' = "live" /\ unused' = unused /\ alive' = alive
        /\ fn' = fn /\ stack' = stack /\ next' = next /\ prev' = prev
    BY <1>8 DEF Query, UserCode
  <2>2. /\ ref' \in [Nodes -> Nat] /\ ref'[n] = ref[n] + 1
        /\ leaked' \in [Nodes -> Nat] /\ leaked'[n] = leaked[n] + 1
        /\ \A k \in Nodes \ {n} : ref'[k] = ref[k] /\ leaked'[k] = leaked[k]
    BY <1>3, <1>8, <2>1 DEF Query
  <2>3. TypeOK'
    BY <1>2, <2>1, <2>2 DEF TypeOK
  <2>4. Exact'
    <3> SUFFICES ASSUME NEW k \in Nodes PROVE ref'[k] = leaked'[k] + W(k) + Held(k)
      BY <2>1 DEF Exact, W, Held
    <3>1. Held(k) \in Nat
      BY DEF Held
    <3>2. /\ ref[k] = leaked[k] + W(k) + Held(k)
          /\ ref[k] \in Nat /\ leaked[k] \in Nat /\ W(k) \in Nat
      BY <1>3, <2>1
    <3>3. CASE k = n
      BY <2>2, <3>1, <3>2, <3>3
    <3>4. CASE k # n
      BY <2>2, <3>2, <3>4
    <3> QED BY <3>3, <3>4
  <2>5. \A k \in Nodes : k \in alive' <=> ref'[k] > 0
    <3> SUFFICES ASSUME NEW k \in Nodes PROVE k \in alive <=> ref'[k] > 0
      BY <2>1
    <3>1. ref[k] \in Nat /\ (k \in alive <=> ref[k] > 0)
      BY <1>3, <2>1
    <3>2. CASE k = n
      BY <1>8, <2>2, <3>1, <3>2
    <3>3. CASE k # n
      BY <2>2, <3>1, <3>3
    <3> QED BY <3>2, <3>3
  <2>6. \A k \in unused' : ref'[k] = 0 /\ leaked'[k] = 0 /\ k \notin fn'
    <3> SUFFICES ASSUME NEW k \in unused PROVE ref'[k] = 0 /\ leaked'[k] = 0 /\ k \notin fn
      BY <2>1
    <3>1. k \in Nodes /\ ref[k] = 0 /\ leaked[k] = 0 /\ k \notin fn /\ ref[n] > 0
      BY <1>3, <1>8, <2>1
    <3>2. k # n
      BY <3>1
    <3> QED BY <2>2, <3>1, <3>2
  <2>7. stack' # <<>> => Ring \in alive'
    BY <1>3, <2>1
  <2> QED BY <2>1, <2>3, <2>4, <2>5, <2>6, <2>7, RefFollows
<1>9. CASE Destroy
  <2>1. /\ state = "live" /\ state' = "destroyed" /\ stack' = stack /\ leaked' = leaked
        /\ fn' = {} /\ alive' \subseteq alive
        /\ UNCHANGED <<unused, next, prev>>
    BY <1>9 DEF Destroy, Counted
  <2>2. ref' \in [Nodes -> Nat]
    <3>1. \A n \in Nodes : Held(n) \in Nat /\ ref[n] - Held(n) \in Nat
      <4> SUFFICES ASSUME NEW n \in Nodes PROVE Held(n) \in Nat /\ ref[n] - Held(n) \in Nat
        OBVIOUS
      <4>1. Held(n) \in Nat
        BY DEF Held
      <4> QED BY <1>3, <2>1, <4>1
    <3>2. ref' = [n \in Nodes |-> ref[n] - Held(n)]
      BY <1>3, <1>9, <2>1 DEF Destroy, Held
    <3> QED BY <3>1, <3>2
  <2>3. TypeOK'
    BY <1>2, <2>1, <2>2 DEF TypeOK
  <2> QED BY <2>1, <2>3 DEF RefInv, AllocInv, RefsExact
<1>10. CASE EmitStart
  <2> DEFINE f == [at |-> Ring, phase |-> "visit", start |-> fn, called |-> <<>>]
  <2>1. /\ state = "live" /\ state' = "live" /\ Ring \in alive /\ stack' = Append(stack, f)
        /\ ref' = [ref EXCEPT ![Ring] = ref[Ring] + 1]
        /\ UNCHANGED <<alive, unused, next, prev, fn, leaked>>
    BY <1>10 DEF EmitStart, UserCode
  <2>2. f \in Frame /\ f.at = Ring
    <3>1. <<>> \in Seq(Links)
      BY EmptySeq
    <3> QED BY <1>3, <2>1, <3>1 DEF Frame
  <2> HIDE DEF f
  <2>3. stack' \in Seq(Frame)
    BY <1>3, <2>1, <2>2, AppendProperties
  <2>4. /\ ref' \in [Nodes -> Nat] /\ ref'[Ring] = ref[Ring] + 1
        /\ \A k \in Nodes \ {Ring} : ref'[k] = ref[k]
    BY <1>3, <2>1
  <2>5. TypeOK'
    BY <1>2, <2>1, <2>3, <2>4 DEF TypeOK
  <2>6. Exact'
    <3> SUFFICES ASSUME NEW k \in Nodes
                 PROVE  ref'[k] = leaked[k] + Cardinality(WatchSet(stack', k)) + Held(k)
      BY <2>1 DEF Exact, Held
    <3>1. /\ ref[k] = leaked[k] + W(k) + Held(k)
          /\ ref[k] \in Nat /\ leaked[k] \in Nat /\ W(k) \in Nat
      BY <1>3, <2>1
    <3>2. Held(k) \in Nat
      BY DEF Held
    <3>3. Cardinality(WatchSet(stack', k)) = W(k) + IF Ring = k THEN 1 ELSE 0
      BY <1>3, <2>1, <2>2, WatchPush DEF W
    <3>4. CASE k = Ring
      BY <2>4, <3>1, <3>2, <3>3, <3>4
    <3>5. CASE k # Ring
      BY <2>4, <3>1, <3>2, <3>3, <3>5
    <3> QED BY <3>4, <3>5
  <2>7. \A k \in Nodes : k \in alive' <=> ref'[k] > 0
    <3> SUFFICES ASSUME NEW k \in Nodes PROVE k \in alive <=> ref'[k] > 0
      BY <2>1
    <3>1. ref[k] \in Nat /\ (k \in alive <=> ref[k] > 0)
      BY <1>3, <2>1
    <3>2. CASE k = Ring
      BY <2>1, <2>4, <3>1, <3>2
    <3>3. CASE k # Ring
      BY <2>4, <3>1, <3>3
    <3> QED BY <3>2, <3>3
  <2>8. \A k \in unused' : ref'[k] = 0 /\ leaked'[k] = 0 /\ k \notin fn'
    BY <1>3, <2>1, <2>4
  <2> QED BY <2>1, <2>5, <2>6, <2>7, <2>8, RefFollows
<1>11. ASSUME NEW f \in Frame, state = "live", stack # <<>>, f.at = Top.at,
              stack' = SetTop(f), UNCHANGED <<state, alive, unused, next, prev, ref, fn, leaked>>
       PROVE RefInv'
  <2>1. stack \in Seq(Frame) /\ stack' \in Seq(Frame)
    BY <1>3, <1>11, StackShape DEF SetTop
  <2>2. TypeOK'
    BY <1>2, <1>11, <2>1 DEF TypeOK
  <2>3. Exact'
    <3> SUFFICES ASSUME NEW k \in Nodes PROVE Cardinality(WatchSet(stack', k)) = W(k)
      BY <1>3, <1>11 DEF Exact, Held
    <3>1. Cardinality(WatchSet(stack', k)) = V(k) + IF f.at = k THEN 1 ELSE 0
      BY <1>11, <2>1, WatchMove DEF V, SetTop, Popped
    <3> QED BY <1>4, <1>11, <3>1
  <2> QED BY <1>3, <1>11, <2>2, <2>3, RefFollows
<1>12. CASE EmitVisit
  <2>1. /\ state = "live" /\ stack # <<>>
        /\ UNCHANGED <<state, alive, unused, next, prev, ref, fn, leaked>>
    BY <1>12 DEF EmitVisit
  <2>2. Top \in Frame /\ fn \subseteq Links
    BY <1>3, <1>4, <2>1
  <2>3. CASE Top.at \in fn
    <3> DEFINE f == [Top EXCEPT !.phase = "calling", !.called = Append(Top.called, Top.at)]
    <3>1. Top.called \in Seq(Links) /\ Top.at \in Links
      BY <2>2, <2>3 DEF Frame
    <3>2. Append(Top.called, Top.at) \in Seq(Links)
      BY <3>1, AppendProperties
    <3>3. f \in Frame /\ f.at = Top.at
      BY <2>2, <3>2 DEF Frame
    <3>4. stack' = SetTop(f)
      BY <1>12, <2>3 DEF EmitVisit
    <3> HIDE DEF f
    <3> QED BY <1>11, <2>1, <3>3, <3>4
  <2>4. CASE Top.at \notin fn
    <3>1. [Top EXCEPT !.phase = "advance"] \in Frame
      BY <2>2 DEF Frame
    <3> QED BY <1>11, <1>12, <2>1, <2>2, <2>4, <3>1 DEF EmitVisit, Frame
  <2> QED BY <2>3, <2>4
<1>13. CASE EmitReturn
  <2>1. state = "live" /\ stack # <<>> /\ Top \in Frame
    BY <1>4, <1>13 DEF EmitReturn
  <2>2. [Top EXCEPT !.phase = "advance"] \in Frame /\ [Top EXCEPT !.phase = "advance"].at = Top.at
    BY <2>1 DEF Frame
  <2> QED BY <1>11, <1>13, <2>1, <2>2 DEF EmitReturn
<1>14. ASSUME state = "live", stack # <<>>, state' = "live", stack' = Popped,
              ref' = Released(Top.at), alive' = Counted(ref'),
              UNCHANGED <<unused, next, prev, fn, leaked>>
       PROVE  RefInv'
  <2>1. /\ stack \in Seq(Frame) /\ Top.at \in Nodes /\ ref[Top.at] \in Nat /\ ref[Top.at] >= 1
        /\ Ring \in alive /\ Ring \in Nodes /\ Top \in Frame
    BY <1>3, <1>4, <1>14
  <2>2. stack' \in Seq(Frame)
    BY <1>14, <2>1, StackShape DEF Popped
  <2>3. /\ ref' \in [Nodes -> Nat] /\ ref'[Top.at] = ref[Top.at] - 1
        /\ \A k \in Nodes \ {Top.at} : ref'[k] = ref[k]
    <3>1. ref[Top.at] - 1 \in Nat
      BY <2>1
    <3> QED BY <1>3, <1>14, <2>1, <3>1 DEF Released
  <2>4. alive' = {k \in alive : ref'[k] > 0}
    BY <1>14 DEF Counted
  <2>5. Ring \in alive'
    <3>1. CASE Top.at = Ring
      <4>1. ref[Ring] >= 3 /\ ref'[Ring] = ref[Ring] - 1 /\ ref[Ring] \in Nat
        BY <1>4, <1>14, <2>1, <2>3, <3>1
      <4>2. ref'[Ring] > 0
        BY <4>1
      <4> QED BY <2>1, <2>4, <4>2
    <3>2. CASE Top.at # Ring
      BY <1>3, <1>14, <2>1, <2>3, <2>4, <3>2
    <3> QED BY <3>1, <3>2
  <2>6. TypeOK'
    BY <1>2, <1>14, <2>2, <2>3, <2>4 DEF TypeOK
  <2>7. Exact'
    <3> SUFFICES ASSUME NEW k \in Nodes PROVE ref'[k] = leaked[k] + V(k) + Held(k)
      BY <1>14, <2>1, <2>5 DEF Exact, Held, V
    <3>1. /\ ref[k] = leaked[k] + W(k) + Held(k)
          /\ ref[k] \in Nat /\ leaked[k] \in Nat /\ W(k) \in Nat
      BY <1>3, <1>14
    <3>2. Held(k) \in Nat
      BY DEF Held
    <3>3. V(k) \in Nat /\ W(k) = V(k) + IF Top.at = k THEN 1 ELSE 0
      BY <1>4, <1>14
    <3>4. CASE k = Top.at
      BY <2>3, <3>1, <3>2, <3>3, <3>4
    <3>5. CASE k # Top.at
      BY <2>3, <3>1, <3>2, <3>3, <3>5
    <3> QED BY <3>4, <3>5
  <2>8. \A k \in Nodes : k \in alive' <=> ref'[k] > 0
    <3> SUFFICES ASSUME NEW k \in Nodes, ref'[k] > 0 PROVE k \in alive
      BY <2>4
    <3>1. ref[k] \in Nat /\ (ref[k] > 0 => k \in alive)
      BY <1>3, <1>14
    <3>2. ref'[k] = ref[k] \/ ref[k] >= 1
      BY <2>1, <2>3
    <3> QED BY <3>1, <3>2
  <2>9. \A k \in unused' : ref'[k] = 0 /\ leaked'[k] = 0 /\ k \notin fn'
    <3> SUFFICES ASSUME NEW k \in unused PROVE ref'[k] = 0 /\ leaked[k] = 0 /\ k \notin fn
      BY <1>14
    <3>1. k \in Nodes /\ ref[k] = 0 /\ leaked[k] = 0 /\ k \notin fn
      BY <1>3, <1>14
    <3>2. k # Top.at
      BY <2>1, <3>1
    <3> QED BY <2>3, <3>1, <3>2
  <2> QED BY <1>14, <2>5, <2>6, <2>7, <2>8, <2>9, RefFollows
<1>15. CASE EmitBreak
  BY <1>14, <1>15 DEF EmitBreak, Released
<1>16. CASE EmitAdvance
  <2> DEFINE old == Top.at
             new == next[Top.at]
             f == [Top EXCEPT !.at = new, !.phase = "visit"]
  <2>1. /\ state = "live" /\ stack # <<>>
        /\ UNCHANGED <<unused, next, prev, fn, leaked>>
    BY <1>16 DEF EmitAdvance
  <2>2. /\ stack \in Seq(Frame) /\ old \in Nodes /\ ref[old] \in Nat /\ ref[old] >= 1
        /\ Ring \in alive /\ Ring \in Nodes /\ Top \in Frame /\ new \in Nodes
        /\ ref \in [Nodes -> Nat]
    BY <1>2, <1>3, <1>4, <2>1 DEF TypeOK
  <2>3. CASE new \notin alive
    <3>1. state' = "undefined" /\ UNCHANGED <<alive, ref, stack>>
      BY <1>16, <2>3 DEF EmitAdvance, NextOf
    <3>2. TypeOK'
      BY <1>2, <2>1, <3>1 DEF TypeOK
    <3> QED BY <3>1, <3>2 DEF RefInv, AllocInv, RefsExact
  <2>4. CASE new \in alive /\ new = Ring
    BY <1>14, <1>16, <2>1, <2>2, <2>4 DEF EmitAdvance, NextOf
  <2>5. CASE new \in alive /\ new # Ring
    <3>1. /\ state' = "live" /\ stack' = SetTop(f)
          /\ ref' = [Released(old) EXCEPT ![new] = Released(old)[new] + 1]
          /\ alive' = Counted(ref')
      BY <1>16, <2>1, <2>5 DEF EmitAdvance, NextOf
    <3>2. f \in Frame /\ f.at = new
      BY <2>2 DEF Frame
    <3>3. stack' \in Seq(Frame)
      BY <2>1, <2>2, <3>1, <3>2, StackShape DEF SetTop
    <3>4. /\ Released(old) \in [Nodes -> Nat] /\ Released(old)[old] = ref[old] - 1
          /\ \A k \in Nodes \ {old} : Released(old)[k] = ref[k]
      <4>1. ref[old] - 1 \in Nat
        BY <2>2
      <4> QED BY <2>2, <4>1 DEF Released
    <3> DEFINE R == Released(old)
    <3> HIDE DEF old, new, f, R
    <3>5. /\ ref' \in [Nodes -> Nat] /\ ref'[new] = R[new] + 1
          /\ \A k \in Nodes \ {new} : ref'[k] = R[k]
      BY <2>2, <3>1, <3>4 DEF R
    <3>6. \A k \in Nodes : ref'[k] = ref[k] - (IF k = old THEN 1 ELSE 0) + IF k = new THEN 1 ELSE 0
      <4> SUFFICES ASSUME NEW k \in Nodes
                   PROVE  ref'[k] = ref[k] - (IF k = old THEN 1 ELSE 0) + IF k = new THEN 1 ELSE 0
        OBVIOUS
      <4>1. ref[k] \in Nat /\ R[k] \in Nat /\ ref'[k] \in Nat
        BY <2>2, <3>4, <3>5 DEF R
      <4>2. R[k] = ref[k] - IF k = old THEN 1 ELSE 0
        BY <3>4, <4>1 DEF R
      <4>3. ref'[k] = R[k] + IF k = new THEN 1 ELSE 0
        BY <3>5, <4>1
      <4> QED BY <4>1, <4>2, <4>3
    <3>7. alive' = {k \in alive : ref'[k] > 0}
      BY <3>1 DEF Counted
    <3>8. Ring \in alive'
      <4>1. CASE old = Ring
        <5>1. ref[Ring] >= 3 /\ ref'[Ring] = ref[Ring] - 1 + 0 /\ ref[Ring] \in Nat
          BY <1>4, <2>1, <2>2, <2>5, <3>6, <4>1 DEF old
        <5>2. ref'[Ring] > 0
          BY <5>1
        <5> QED BY <2>2, <3>7, <5>2
      <4>2. CASE old # Ring
        <5>1. ref'[Ring] = ref[Ring] - 0 + 0 /\ ref[Ring] \in Nat /\ ref[Ring] > 0
          BY <1>3, <2>1, <2>2, <2>5, <3>6, <4>2
        <5>2. ref'[Ring] > 0
          BY <5>1
        <5> QED BY <2>2, <3>7, <5>2
      <4> QED BY <4>1, <4>2
    <3>9. TypeOK'
      BY <1>2, <2>1, <3>1, <3>3, <3>5, <3>7 DEF TypeOK
    <3>10. Exact'
      <4> SUFFICES ASSUME NEW k \in Nodes
                   PROVE  ref'[k] = leaked[k] + Cardinality(WatchSet(stack', k)) + Held(k)
        BY <2>1, <2>2, <3>8 DEF Exact, Held
      <4>1. /\ ref[k] = leaked[k] + W(k) + Held(k)
            /\ ref[k] \in Nat /\ leaked[k] \in Nat /\ W(k) \in Nat
        BY <1>3, <2>1
      <4>2. Held(k) \in Nat
        BY DEF Held
      <4>3. V(k) \in Nat /\ W(k) = V(k) + IF old = k THEN 1 ELSE 0
        BY <1>4, <2>1 DEF old
      <4>4. Cardinality(WatchSet(stack', k)) = V(k) + IF new = k THEN 1 ELSE 0
        BY <2>1, <2>2, <3>1, <3>2, WatchMove DEF V, SetTop, Popped
      <4>5. ref'[k] = ref[k] - (IF k = old THEN 1 ELSE 0) + IF k = new THEN 1 ELSE 0
        BY <3>6
      <4> QED BY <4>1, <4>2, <4>3, <4>4, <4>5
    <3>11. \A k \in Nodes : k \in alive' <=> ref'[k] > 0
      <4> SUFFICES ASSUME NEW k \in Nodes, ref'[k] > 0 PROVE k \in alive
        BY <3>7
      <4>1. CASE k = new
        BY <2>5, <4>1
      <4>2. CASE k # new
        <5>1. ref'[k] = ref[k] - (IF k = old THEN 1 ELSE 0) + 0 /\ ref[k] \in Nat
          BY <2>2, <3>6, <4>2
        <5>2. ref[k] > 0
          BY <5>1
        <5> QED BY <1>3, <2>1, <5>2
      <4> QED BY <4>1, <4>2
    <3>12. \A k \in unused' : ref'[k] = 0 /\ leaked'[k] = 0 /\ k \notin fn'
      <4> SUFFICES ASSUME NEW k \in unused PROVE ref'[k] = 0 /\ leaked[k] = 0 /\ k \notin fn
        BY <2>1
      <4>1. k \in Nodes /\ ref[k] = 0 /\ leaked[k] = 0 /\ k \notin fn
        BY <1>3, <2>1
      <4>2. k # old /\ k # new
        BY <1>3, <2>1, <2>2, <2>5, <4>1
      <4>3. ref'[k] = 0 - 0 + 0
        BY <3>6, <4>1, <4>2
      <4> QED BY <4>1, <4>3
    <3> QED BY <2>1, <3>1, <3>8, <3>9, <3>10, <3>11, <3>12, RefFollows
  <2> QED BY <2>3, <2>4, <2>5
<1>17. CASE Size \/ Empty
  <2>1. PICK n \in {Ring, next[Ring]} : Query(n) /\ (n = Ring \/ (n = next[Ring] /\ fn # {}))
    BY <1>17 DEF Size, Empty
  <2>2. state = "live" /\ Ring \in alive
    BY <2>1 DEF Query, UserCode
  <2>3. n \in fn \union {Ring}
    BY <2>1, <2>2 DEF RingInv, Linked
  <2>4. CASE n \in fn
    <3>1. n \in Nodes /\ Held(n) = 1
      BY <1>3, <2>2, <2>4 DEF Held
    <3>2. ref[n] = leaked[n] + W(n) + 1 /\ leaked[n] \in Nat /\ W(n) \in Nat
      BY <1>3, <2>2, <3>1
    <3>3. ref[n] > 0
      BY <3>2
    <3> QED BY <1>3, <1>8, <2>1, <2>2, <3>1, <3>3
  <2>5. CASE n = Ring
    BY <1>3, <1>8, <2>1, <2>2, <2>5
  <2> QED BY <2>3, <2>4, <2>5
<1> QED
  BY <1>1, <1>5, <1>6, <1>7, <1>9, <1>10, <1>12, <1>13, <1>15, <1>16, <1>17 DEF Next

-----------------------------------------------------------------------------
(* The ring *)

\* A new signal has an empty ring.
LEMMA InitRing == Init => RingInv
<1> SUFFICES ASSUME Init PROVE RingInv
  OBVIOUS
<1>1. Linked
  BY DEF Init, Linked, Nodes
<1>2. Places([n \in Links |-> 0], 0) /\ Sorted([n \in Links |-> 0])
  BY DEF Init, Places, Sorted, Nodes
<1>3. [n \in Links |-> 0] \in [Links -> Nat]
  OBVIOUS
<1> QED BY <1>1, <1>2, <1>3 DEF RingInv

\* connect puts a link at the end of the ring.
LEMMA ConnectRing ==
  ASSUME RefInv, Linked, NEW n \in Links, Connect(n)
  PROVE  /\ Linked'
         /\ n \in unused /\ n \notin fn /\ n # Ring /\ unused' = unused \ {n}
         /\ fn' = fn \union {n}
         /\ prev[Ring] \in fn \union {Ring} /\ next[prev[Ring]] = Ring
         /\ next'[prev[Ring]] = n /\ next'[n] = Ring
         /\ \A k \in Nodes \ {n, prev[Ring]} : next'[k] = next[k]
<1>1. /\ state = "live" /\ n \in unused /\ unused' = unused \ {n} /\ fn' = fn \union {n}
      /\ next' = [next EXCEPT ![n] = Ring, ![prev[Ring]] = n]
      /\ prev' = [prev EXCEPT ![n] = prev[Ring], ![Ring] = n]
  BY DEF Connect, UserCode
<1>2. /\ n \notin fn /\ n # Ring /\ n \in Nodes /\ Ring \in Nodes /\ fn \subseteq Nodes
      /\ Ring \notin fn /\ next \in [Nodes -> Nodes] /\ prev \in [Nodes -> Nodes]
  BY <1>1, RefFacts DEF RefInv, TypeOK
<1> DEFINE p == prev[Ring]
<1>3. p \in fn \union {Ring} /\ next[p] = Ring /\ p \in Nodes /\ p # n
  BY <1>2 DEF Linked
<1> HIDE DEF p
<1>4. /\ next'[p] = n /\ next'[n] = Ring /\ \A k \in Nodes \ {n, p} : next'[k] = next[k]
  BY <1>1, <1>2, <1>3 DEF p
<1>5. /\ prev'[n] = p /\ prev'[Ring] = n /\ \A k \in Nodes \ {n, Ring} : prev'[k] = prev[k]
  BY <1>1, <1>2 DEF p
<1>6. Linked'
  <2>0. fn' \union {Ring} = fn \union {n, Ring}
    BY <1>1
  <2> SUFFICES ASSUME NEW k \in fn \union {n, Ring}
               PROVE  /\ next'[k] \in fn \union {n, Ring} /\ prev'[k] \in fn \union {n, Ring}
                      /\ prev'[next'[k]] = k /\ next'[prev'[k]] = k
    BY <2>0 DEF Linked
  <2>1. CASE k = n
    BY <1>3, <1>4, <1>5, <2>1
  <2>2. CASE k # n
    <3>1. k \in fn \union {Ring} /\ k \in Nodes
      BY <1>2, <2>2
    <3>2. /\ next[k] \in fn \union {Ring} /\ prev[k] \in fn \union {Ring}
          /\ prev[next[k]] = k /\ next[prev[k]] = k
      BY <3>1 DEF Linked
    <3>3. next'[k] \in fn \union {n, Ring} /\ prev'[next'[k]] = k
      <4>1. CASE k = p
        BY <1>4, <1>5, <4>1
      <4>2. CASE k # p
        <5>1. next'[k] = next[k] /\ next[k] # Ring
          BY <1>4, <2>2, <3>1, <3>2, <4>2 DEF p
        <5>2. next[k] \in Nodes \ {n, Ring}
          BY <1>2, <3>2, <5>1
        <5> QED BY <1>5, <3>2, <5>1, <5>2
      <4> QED BY <4>1, <4>2
    <3>4. prev'[k] \in fn \union {n, Ring} /\ next'[prev'[k]] = k
      <4>1. CASE k = Ring
        BY <1>4, <1>5, <4>1
      <4>2. CASE k # Ring
        <5>1. prev'[k] = prev[k]
          BY <1>5, <2>2, <3>1, <4>2
        <5>2. prev[k] # p /\ prev[k] \in Nodes \ {n, p}
          BY <1>2, <1>3, <3>2, <4>2
        <5> QED BY <1>4, <3>2, <5>1, <5>2
      <4> QED BY <4>1, <4>2
    <3> QED BY <3>3, <3>4
  <2> QED BY <2>1, <2>2
<1> QED BY <1>1, <1>2, <1>3, <1>4, <1>6 DEF p

\* unlink takes a link out of the ring, and leaves its own fields as they are.
LEMMA UnlinkRing ==
  ASSUME RefInv, Linked, NEW n \in Links, Disconnect(n), next[n] # n
  PROVE  /\ Linked'
         /\ n \in fn /\ n # Ring /\ fn' = fn \ {n} /\ unused' = unused
         /\ prev[n] \in fn \union {Ring} /\ next[prev[n]] = n /\ prev[n] # n
         /\ next'[prev[n]] = next[n]
         /\ \A k \in Nodes \ {prev[n]} : next'[k] = next[k]
<1>1. /\ state = "live" /\ n \in fn /\ unused' = unused /\ fn' = fn \ {n}
      /\ next' = [next EXCEPT ![prev[n]] = next[n]]
      /\ prev' = [prev EXCEPT ![next[n]] = prev[n]]
  BY DEF Disconnect, UserCode, Unlink
<1>2. /\ n # Ring /\ n \in Nodes /\ Ring \in Nodes /\ fn \subseteq Nodes
      /\ Ring \notin fn /\ next \in [Nodes -> Nodes] /\ prev \in [Nodes -> Nodes]
  BY <1>1, RefFacts DEF RefInv, TypeOK
<1> DEFINE p == prev[n]
           q == next[n]
<1>3. /\ p \in fn \union {Ring} /\ next[p] = n /\ p \in Nodes
      /\ q \in fn \union {Ring} /\ prev[q] = n /\ q \in Nodes
  BY <1>1, <1>2 DEF Linked
<1>4. p # n /\ q # n
  BY <1>3
<1>5. /\ next'[p] = q /\ \A k \in Nodes \ {p} : next'[k] = next[k]
      /\ prev'[q] = p /\ \A k \in Nodes \ {q} : prev'[k] = prev[k]
  BY <1>1, <1>2, <1>3
<1> HIDE DEF p, q
<1>6. Linked'
  <2>0. fn' \union {Ring} = (fn \ {n}) \union {Ring}
    BY <1>1
  <2> SUFFICES ASSUME NEW k \in (fn \ {n}) \union {Ring}
               PROVE  /\ next'[k] \in (fn \ {n}) \union {Ring}
                      /\ prev'[k] \in (fn \ {n}) \union {Ring}
                      /\ prev'[next'[k]] = k /\ next'[prev'[k]] = k
    BY <2>0 DEF Linked
  <2>1. k \in fn \union {Ring} /\ k \in Nodes /\ k # n
    BY <1>2
  <2>2. /\ next[k] \in fn \union {Ring} /\ prev[k] \in fn \union {Ring}
        /\ prev[next[k]] = k /\ next[prev[k]] = k
    BY <2>1 DEF Linked
  <2>3. next'[k] \in (fn \ {n}) \union {Ring} /\ prev'[next'[k]] = k
    <3>1. CASE k = p
      BY <1>3, <1>4, <1>5, <3>1
    <3>2. CASE k # p
      <4>1. next'[k] = next[k] /\ next[k] # n /\ next[k] # q
        BY <1>3, <1>5, <2>1, <2>2, <3>2 DEF p
      <4> QED BY <1>2, <1>5, <2>2, <4>1
    <3> QED BY <3>1, <3>2
  <2>4. prev'[k] \in (fn \ {n}) \union {Ring} /\ next'[prev'[k]] = k
    <3>1. CASE k = q
      BY <1>3, <1>4, <1>5, <3>1
    <3>2. CASE k # q
      <4>1. prev'[k] = prev[k] /\ prev[k] # n /\ prev[k] # p
        BY <1>3, <1>5, <2>1, <2>2, <3>2 DEF q
      <4> QED BY <1>2, <1>5, <2>2, <4>1
    <3> QED BY <3>1, <3>2
  <2> QED BY <2>3, <2>4
<1> QED BY <1>1, <1>2, <1>3, <1>4, <1>5, <1>6 DEF p, q

\* A callback is not its own successor.
LEMMA NotItself ==
  ASSUME RefInv, state = "live", Linked, NEW pos \in [Links -> Nat], Sorted(pos), NEW n \in fn
  PROVE  next[n] # n
<1>1. n \in Links /\ n # Ring /\ pos[n] \in Nat
  BY RefFacts
<1> SUFFICES ASSUME next[n] = n PROVE FALSE
  OBVIOUS
<1>2. pos[n] < pos[n]
  BY <1>1 DEF Sorted, NextPlace
<1> QED BY <1>1, <1>2

\* A link that is connected comes last in the order.
LEMMA ConnectOrder ==
  ASSUME RefInv, Linked, NEW pos \in [Links -> Nat], NEW end \in Nat, Places(pos, end),
         Sorted(pos), NEW n \in Links, Connect(n), NEW new, new = [pos EXCEPT ![n] = end]
  PROVE  /\ new \in [Links -> Nat]
         /\ Places(new, end + 1)'
         /\ Sorted(new)'
<1>1. /\ n \in unused /\ n \notin fn /\ n # Ring /\ unused' = unused \ {n}
      /\ fn' = fn \union {n}
      /\ prev[Ring] \in fn \union {Ring} /\ next[prev[Ring]] = Ring
      /\ next'[prev[Ring]] = n /\ next'[n] = Ring
      /\ \A k \in Nodes \ {n, prev[Ring]} : next'[k] = next[k]
  BY ConnectRing
<1>2. state = "live"
  BY DEF Connect, UserCode
<1>3. /\ Ring \in Nodes /\ Ring \notin Links /\ Links \subseteq Nodes /\ fn \subseteq Links
      /\ \A k \in unused : k \notin fn
  BY <1>2, RefFacts
<1>4. /\ new \in [Links -> Nat] /\ new[n] = end
      /\ \A k \in Links \ {n} : new[k] = pos[k] /\ pos[k] \in Nat
  OBVIOUS
<1>5. \A k \in fn : k \in Links /\ new[k] = pos[k] /\ pos[k] \in Nat /\ pos[k] < end
  BY <1>1, <1>3, <1>4 DEF Places
<1>6. Places(new, end + 1)'
  <2>1. \A k \in Links \ unused' : k = n \/ k \in Links \ unused
    BY <1>1
  <2>2. \A k \in Links \ unused : new[k] = pos[k] /\ pos[k] \in Nat /\ pos[k] < end
    BY <1>1, <1>4 DEF Places
  <2>3. \A k \in Links \ unused' : new[k] < end + 1
    BY <1>4, <2>1, <2>2
  <2>4. ASSUME NEW k \in Links \ unused', NEW m \in Links \ unused', new[k] = new[m]
        PROVE  k = m
    <3>1. CASE k = n /\ m # n
      BY <1>4, <2>1, <2>2, <2>4, <3>1
    <3>2. CASE k # n /\ m = n
      BY <1>4, <2>1, <2>2, <2>4, <3>2
    <3>3. CASE k # n /\ m # n
      <4>1. k \in Links \ unused /\ m \in Links \ unused /\ pos[k] = pos[m]
        BY <2>1, <2>2, <2>4, <3>3
      <4> QED BY <4>1 DEF Places
    <3> QED BY <3>1, <3>2, <3>3
  <2>5. \A k \in Links : new[k] \in Nat
    BY <1>4
  <2> QED BY <2>3, <2>4, <2>5 DEF Places
<1>7. ASSUME NEW m \in fn' PROVE NextPlace(new, m, next'[m], fn', fn')
  <2>1. CASE m = n
    <3>1. \A k \in fn' : new[k] <= end
      BY <1>1, <1>4, <1>5
    <3> QED BY <1>1, <1>4, <2>1, <3>1 DEF NextPlace
  <2>2. CASE m # n /\ m = prev[Ring]
    <3>1. m \in fn /\ next[m] = Ring /\ next'[m] = n
      BY <1>1, <1>7, <2>2
    <3>2. \A k \in fn : pos[k] <= pos[m]
      BY <3>1 DEF Sorted, NextPlace
    <3>3. new[m] < new[n] /\ \A k \in fn' : new[k] <= new[m] \/ new[n] <= new[k]
      BY <1>1, <1>4, <1>5, <3>1, <3>2
    <3> QED BY <1>1, <3>1, <3>3 DEF NextPlace
  <2>3. CASE m # n /\ m # prev[Ring]
    <3>1. m \in fn /\ next'[m] = next[m]
      BY <1>1, <1>3, <1>7, <2>3
    <3>2. next[m] \in fn \union {Ring} /\ next[m] # Ring
      BY <2>3, <3>1 DEF Linked
    <3>3. pos[m] < pos[next[m]] /\ \A k \in fn : pos[k] <= pos[m] \/ pos[next[m]] <= pos[k]
      BY <3>1, <3>2 DEF Sorted, NextPlace
    <3>4. /\ new[m] < new[next[m]]
          /\ \A k \in fn' : new[k] <= new[m] \/ new[next[m]] <= new[k]
      <4>1. next[m] \in fn /\ pos[next[m]] < end
        BY <1>5, <3>2
      <4>2. ASSUME NEW k \in fn' PROVE new[k] <= new[m] \/ new[next[m]] <= new[k]
        <5>1. CASE k = n
          BY <1>4, <1>5, <4>1, <5>1
        <5>2. CASE k \in fn
          BY <1>5, <3>1, <3>3, <4>1, <5>2
        <5> QED BY <1>1, <4>2, <5>1, <5>2
      <4> QED BY <1>5, <3>1, <3>3, <4>1, <4>2
    <3> QED BY <3>1, <3>2, <3>4 DEF NextPlace
  <2> QED BY <2>1, <2>2, <2>3
<1>8. IF next'[Ring] = Ring THEN fn' = {} ELSE \A k \in fn' : new[next'[Ring]] <= new[k]
  <2>1. CASE prev[Ring] = Ring
    <3>1. next'[Ring] = n /\ fn' = {n}
      BY <1>1, <2>1 DEF Sorted
    <3> QED BY <1>1, <1>4, <3>1
  <2>2. CASE prev[Ring] # Ring
    <3>1. next'[Ring] = next[Ring] /\ next[Ring] \in fn
      BY <1>1, <1>3, <2>2 DEF Linked
    <3>2. \A k \in fn : pos[next[Ring]] <= pos[k]
      BY <1>3, <3>1 DEF Sorted
    <3>3. ASSUME NEW k \in fn' PROVE new[next[Ring]] <= new[k]
      <4>1. CASE k = n
        BY <1>4, <1>5, <3>1, <4>1
      <4>2. CASE k \in fn
        BY <1>5, <3>1, <3>2, <4>2
      <4> QED BY <1>1, <3>3, <4>1, <4>2
    <3> QED BY <1>3, <3>1, <3>3
  <2> QED BY <2>1, <2>2
<1>9. Sorted(new)'
  BY <1>7, <1>8 DEF Sorted
<1> QED BY <1>4, <1>6, <1>9

\* The order of the links that are left is what it was.
LEMMA UnlinkOrder ==
  ASSUME RefInv, Linked, NEW pos \in [Links -> Nat], NEW end \in Nat, Places(pos, end),
         Sorted(pos), NEW n \in Links, Disconnect(n)
  PROVE  Places(pos, end)' /\ Sorted(pos)'
<1>1. state = "live" /\ n \in fn
  BY DEF Disconnect, UserCode
<1>2. next[n] # n
  BY <1>1, NotItself
<1>3. /\ n # Ring /\ fn' = fn \ {n} /\ unused' = unused
      /\ prev[n] \in fn \union {Ring} /\ next[prev[n]] = n /\ prev[n] # n
      /\ next'[prev[n]] = next[n]
      /\ \A k \in Nodes \ {prev[n]} : next'[k] = next[k]
  BY <1>2, UnlinkRing
<1>4. /\ Ring \in Nodes /\ Ring \notin fn /\ Links \subseteq Nodes /\ fn \subseteq Links
      /\ \A k \in fn : pos[k] \in Nat
  BY <1>1, RefFacts
<1>5. Places(pos, end)'
  BY <1>3 DEF Places
<1>6. /\ next[n] # Ring => /\ next[n] \in fn /\ pos[n] < pos[next[n]]
                           /\ \A k \in fn : pos[k] <= pos[n] \/ pos[next[n]] <= pos[k]
      /\ next[n] = Ring => \A k \in fn : pos[k] <= pos[n]
  BY <1>1 DEF Sorted, NextPlace, Linked
<1>7. ASSUME NEW k \in fn, pos[k] = pos[n] PROVE k = n
  <2>1. k \in Links \ unused /\ n \in Links \ unused
    BY <1>1, <1>4, RefFacts
  <2> QED BY <1>7, <2>1 DEF Places
<1>8. ASSUME NEW m \in fn' PROVE NextPlace(pos, m, next'[m], fn', fn')
  <2>1. m \in fn /\ m # n /\ m \in Nodes /\ m \in Links /\ pos[m] \in Nat
    BY <1>3, <1>4, <1>8
  <2>2. CASE m = prev[n]
    <3>1. next[m] = n /\ next'[m] = next[n]
      BY <1>3, <2>2
    <3>2. pos[m] < pos[n] /\ \A k \in fn : pos[k] <= pos[m] \/ pos[n] <= pos[k]
      BY <1>3, <2>1, <3>1 DEF Sorted, NextPlace
    <3>3. ASSUME NEW k \in fn' PROVE pos[k] <= pos[m] \/ pos[n] < pos[k]
      <4>1. k \in fn /\ k # n /\ pos[k] \in Nat /\ pos[n] \in Nat
        BY <1>1, <1>3, <1>4, <3>3
      <4>2. pos[k] # pos[n]
        BY <1>7, <4>1
      <4> QED BY <2>1, <3>2, <4>1, <4>2
    <3>4. CASE next[n] = Ring
      <4>1. \A k \in fn' : pos[k] <= pos[m]
        BY <1>3, <1>4, <1>6, <3>3, <3>4
      <4> QED BY <3>1, <3>4, <4>1 DEF NextPlace
    <3>5. CASE next[n] # Ring
      <4>1. pos[m] < pos[next[n]]
        BY <1>1, <1>4, <1>6, <2>1, <3>2, <3>5
      <4>2. \A k \in fn' : pos[k] <= pos[m] \/ pos[next[n]] <= pos[k]
        BY <1>1, <1>3, <1>4, <1>6, <3>3, <3>5
      <4> QED BY <3>1, <3>5, <4>1, <4>2 DEF NextPlace
    <3> QED BY <3>4, <3>5
  <2>3. CASE m # prev[n]
    <3>1. next'[m] = next[m]
      BY <1>3, <2>1, <2>3
    <3>2. NextPlace(pos, m, next[m], fn, fn)
      BY <2>1 DEF Sorted
    <3> QED BY <1>3, <3>1, <3>2 DEF NextPlace
  <2> QED BY <2>2, <2>3
<1>9. IF next'[Ring] = Ring THEN fn' = {} ELSE \A k \in fn' : pos[next'[Ring]] <= pos[k]
  <2>1. CASE prev[n] = Ring
    <3>1. next[Ring] = n /\ next'[Ring] = next[n] /\ \A k \in fn : pos[n] <= pos[k]
      BY <1>3, <2>1 DEF Sorted
    <3>2. CASE next[n] = Ring
      <4>1. \A k \in fn : pos[k] = pos[n]
        BY <1>1, <1>4, <1>6, <3>1, <3>2
      <4> QED BY <1>3, <1>7, <3>1, <3>2, <4>1
    <3>3. CASE next[n] # Ring
      <4> SUFFICES ASSUME NEW k \in fn' PROVE pos[next[n]] <= pos[k]
        BY <3>1, <3>3
      <4>1. k \in fn /\ k # n
        BY <1>3
      <4>2. pos[k] # pos[n]
        BY <1>7, <4>1
      <4> QED BY <1>1, <1>4, <1>6, <3>1, <3>3, <4>1, <4>2
    <3> QED BY <3>2, <3>3
  <2>2. CASE prev[n] # Ring
    <3>1. next'[Ring] = next[Ring]
      BY <1>3, <1>4, <2>2
    <3> QED BY <1>3, <3>1 DEF Sorted
  <2> QED BY <2>1, <2>2
<1>10. Sorted(pos)'
  BY <1>8, <1>9 DEF Sorted
<1> QED BY <1>5, <1>10

\* Every step keeps the ring, whatever callbacks disconnect.
LEMMA RingStep == RefInv /\ RingInv /\ [Next]_vars => RingInv'
<1> SUFFICES ASSUME RefInv, RingInv, [Next]_vars PROVE RingInv'
  OBVIOUS
<1>1. ASSUME UNCHANGED <<unused, next, prev, fn>>, state' = "live" => state = "live"
      PROVE  RingInv'
  BY <1>1 DEF RingInv, Linked, Places, Sorted
<1>2. CASE UNCHANGED vars
  BY <1>1, <1>2 DEF vars
<1>3. ASSUME NEW n \in Links, Connect(n) PROVE RingInv'
  <2>1. state = "live"
    BY <1>3 DEF Connect, UserCode
  <2>2. Linked /\ \E pos \in [Links -> Nat], end \in Nat : Places(pos, end) /\ Sorted(pos)
    BY <2>1 DEF RingInv
  <2>3. PICK pos \in [Links -> Nat], end \in Nat : Places(pos, end) /\ Sorted(pos)
    BY <2>2
  <2> DEFINE new == [pos EXCEPT ![n] = end]
  <2>4. new \in [Links -> Nat] /\ Places(new, end + 1)' /\ Sorted(new)'
    BY <1>3, <2>2, <2>3, ConnectOrder
  <2>5. Linked'
    BY <1>3, <2>2, ConnectRing
  <2> HIDE DEF new
  <2>6. end + 1 \in Nat
    OBVIOUS
  <2> QED BY <2>4, <2>5, <2>6 DEF RingInv
<1>4. ASSUME NEW n \in Links, Disconnect(n) PROVE RingInv'
  <2>1. state = "live" /\ n \in fn
    BY <1>4 DEF Disconnect, UserCode
  <2>2. Linked /\ \E pos \in [Links -> Nat], end \in Nat : Places(pos, end) /\ Sorted(pos)
    BY <2>1 DEF RingInv
  <2>3. PICK pos \in [Links -> Nat], end \in Nat : Places(pos, end) /\ Sorted(pos)
    BY <2>2
  <2>4. Places(pos, end)' /\ Sorted(pos)'
    BY <1>4, <2>2, <2>3, UnlinkOrder
  <2>5. Linked'
    BY <1>4, <2>1, <2>2, <2>3, UnlinkRing, NotItself
  <2> QED BY <2>4, <2>5 DEF RingInv
<1>5. CASE QueryNull \/ Destroy
  BY <1>5 DEF QueryNull, Destroy, RingInv
<1>6. CASE Size \/ Empty
  BY <1>1, <1>6 DEF Size, Empty, Query
<1>7. CASE EmitStart \/ EmitVisit \/ EmitReturn \/ EmitBreak \/ EmitAdvance
  BY <1>1, <1>7 DEF EmitStart, EmitVisit, EmitReturn, EmitBreak, EmitAdvance
<1> QED BY <1>2, <1>3, <1>4, <1>5, <1>6, <1>7 DEF Next

-----------------------------------------------------------------------------
(* What holds whatever callbacks disconnect *)

\* The inductive invariant of the links: counts, allocation and the ring.
THEOREM LinksInvariant == Spec => [](RefInv /\ RingInv)
<1>1. Init => RefInv /\ RingInv
  BY InitRefs, InitRing
<1>2. RefInv /\ RingInv /\ [Next]_vars => RefInv' /\ RingInv'
  BY RefStep, RingStep
<1> QED BY <1>1, <1>2, PTL DEF Spec

\* incref and decref are balanced: whatever is connected, removed and emitted within
\* emissions, a link is referenced by the ring, by the emissions at it and by the calls
\* of size() and empty() that left it referenced, and by nothing else.
THEOREM RefsExactHolds == Spec => []RefsExact
<1>1. RefInv => RefsExact
  BY DEF RefInv
<1> QED BY <1>1, LinksInvariant, PTL

\* add_before and unlink keep next and prev inverse to each other, with links removed from
\* under any number of emissions.
THEOREM RingSoundHolds == Spec => []RingSound
<1>1. RefInv /\ RingInv => RingSound
  <2> SUFFICES ASSUME RefInv, RingInv, state = "live", NEW n \in fn \union {Ring}
               PROVE  /\ next[n] \in fn \union {Ring} /\ prev[next[n]] = n
                      /\ fn # {} => next[n] # n
    BY DEF RingSound
  <2>1. Linked
    BY DEF RingInv
  <2>2. PICK pos \in [Links -> Nat], end \in Nat : Places(pos, end) /\ Sorted(pos)
    BY DEF RingInv
  <2>3. fn # {} => next[n] # n
    BY <2>1, <2>2, NotItself DEF Sorted
  <2> QED BY <2>1, <2>3 DEF Linked
<1> QED BY <1>1, LinksInvariant, PTL

-----------------------------------------------------------------------------
(* Emissions whose callbacks disconnect only themselves *)

\* Before the first connect there is no emission.
LEMMA InitEmit == Init => EmitInv
<1> SUFFICES ASSUME Init PROVE EmitInv
  OBVIOUS
<1>1. state = "live" /\ stack = <<>> /\ RingInv
  BY InitRing DEF Init
<1> QED BY <1>1 DEF EmitInv, RingInv

\* What a live signal with its emissions looks like.
LEMMA EmitFacts ==
  ASSUME RefInv, state = "live", Linked,
         NEW pos \in [Links -> Nat], NEW end \in Nat, Places(pos, end), Sorted(pos),
         NEW f \in Frame, Walks(pos, f)
  PROVE  /\ fn \subseteq Links /\ Ring \notin fn /\ Ring \notin Links
         /\ f.called \in Seq(Links) /\ f.start \subseteq Links
         /\ f.at \in Links \union {Ring}
         /\ \A i \in DOMAIN f.called : f.called[i] \in Links
         /\ \A n \in Links : pos[n] \in Nat
         /\ \A m, n \in fn : pos[m] = pos[n] => m = n
         /\ f.at # Ring => \A n \in fn : pos[n] = pos[f.at] => n = f.at
         /\ f.at # Ring => \A i \in DOMAIN f.called :
                               pos[f.called[i]] = pos[f.at] => f.called[i] = f.at
<1>1. /\ fn \subseteq Links /\ Ring \notin fn /\ Ring \notin Links
      /\ \A n \in unused : n \notin fn
  BY RefFacts
<1>2. /\ f.called \in Seq(Links) /\ f.start \subseteq Links
      /\ f.at \in Links \union {Ring}
  BY DEF Frame, Nodes
<1>3. \A i \in DOMAIN f.called : f.called[i] \in Links
  BY <1>2, ElementOfSeq, LenProperties
<1>4. \A m, n \in fn : pos[m] = pos[n] => m = n
  BY <1>1 DEF Places
<1>5. f.at # Ring => \A n \in fn : pos[n] = pos[f.at] => n = f.at
  BY <1>1, <1>2 DEF Places, Walks
<1>6. f.at # Ring => \A i \in DOMAIN f.called : pos[f.called[i]] = pos[f.at] => f.called[i] = f.at
  BY <1>2, <1>3 DEF Places, Walks
<1> QED BY <1>1, <1>2, <1>3, <1>4, <1>5, <1>6

\* The collector calls a link that it has not called yet.
LEMMA WalkVisits ==
  ASSUME RefInv, state = "live", Linked,
         NEW pos \in [Links -> Nat], NEW end \in Nat, Places(pos, end), Sorted(pos),
         NEW f \in Frame, Walks(pos, f), f.phase = "visit", f.at \in fn
  PROVE  Walks(pos, [f EXCEPT !.phase = "calling", !.called = Append(f.called, f.at)])
<1> DEFINE c == Append(f.called, f.at)
           g == [f EXCEPT !.phase = "calling", !.called = c]
<1>1. /\ fn \subseteq Links /\ Ring \notin fn /\ f.called \in Seq(Links) /\ f.at \in Links
      /\ \A i \in DOMAIN f.called : f.called[i] \in Links
      /\ \A n \in Links : pos[n] \in Nat
      /\ \A n \in fn : pos[n] = pos[f.at] => n = f.at
      /\ f.at # Ring
  BY EmitFacts
<1>2. /\ g.at = f.at /\ g.phase = "calling" /\ g.start = f.start /\ g.called = c
  BY DEF Frame
<1>3. /\ Len(f.called) \in Nat /\ DOMAIN f.called = 1 .. Len(f.called)
      /\ DOMAIN c = 1 .. Len(f.called) + 1
      /\ \A i \in 1 .. Len(f.called) : c[i] = f.called[i]
      /\ c[Len(f.called) + 1] = f.at
  BY <1>1, AppendProperties, LenProperties
<1> HIDE DEF c
<1>4. DOMAIN c = DOMAIN f.called \union {Len(f.called) + 1} /\ Len(f.called) + 1 \notin DOMAIN f.called
  BY <1>3
<1>5. \A i \in DOMAIN f.called : f.called[i] # f.at
  BY DEF Walks
<1> HIDE DEF g
<1>6. \A i, j \in DOMAIN c : c[i] = c[j] => i = j
  BY <1>3, <1>4, <1>5 DEF Walks
<1>7. \A i \in DOMAIN c : c[i] \notin unused /\ pos[c[i]] <= pos[f.at]
  BY <1>1, <1>3, <1>4 DEF Walks
<1>8. ASSUME NEW n \in f.start \intersect fn, pos[n] < pos[f.at] \/ n = f.at
      PROVE  \E i \in DOMAIN c : c[i] = n
  <2>1. CASE n = f.at
    BY <1>3, <1>4, <2>1
  <2>2. CASE pos[n] < pos[f.at]
    <3>1. PICK i \in DOMAIN f.called : f.called[i] = n
      BY <1>1, <2>2 DEF Walks
    <3> QED BY <1>3, <1>4, <3>1
  <2> QED BY <1>8, <2>1, <2>2
<1>9. Walks(pos, g)
  BY <1>1, <1>2, <1>6, <1>7, <1>8 DEF Walks
<1> QED BY <1>9 DEF g, c

\* A collector that has not called a link skips it; one that has goes on.
LEMMA WalkPasses ==
  ASSUME NEW pos, NEW f \in Frame, Walks(pos, f), f.phase # "visit" \/ f.at \notin fn
  PROVE  Walks(pos, [f EXCEPT !.phase = "advance"])
<1> DEFINE g == [f EXCEPT !.phase = "advance"]
<1>1. g.at = f.at /\ g.phase = "advance" /\ g.start = f.start /\ g.called = f.called
  BY DEF Frame
<1> HIDE DEF g
<1>2. Walks(pos, g)
  BY <1>1 DEF Walks
<1> QED BY <1>2 DEF g

\* The walk goes to the next link in the order.
LEMMA WalkAdvances ==
  ASSUME RefInv, state = "live", Linked,
         NEW pos \in [Links -> Nat], NEW end \in Nat, Places(pos, end), Sorted(pos),
         NEW f \in Frame, Walks(pos, f), f.phase = "advance", next[f.at] # Ring
  PROVE  Walks(pos, [f EXCEPT !.at = next[f.at], !.phase = "visit"])
<1> DEFINE m == next[f.at]
           g == [f EXCEPT !.at = m, !.phase = "visit"]
<1>1. /\ fn \subseteq Links /\ Ring \notin fn
      /\ f.at \in Links \union {Ring}
      /\ \A i \in DOMAIN f.called : f.called[i] \in Links
      /\ \A n \in Links : pos[n] \in Nat
      /\ \A k, n \in fn : pos[k] = pos[n] => k = n
      /\ f.at # Ring => \A n \in fn : pos[n] = pos[f.at] => n = f.at
  BY EmitFacts
<1>2. g.at = m /\ g.phase = "visit" /\ g.start = f.start /\ g.called = f.called
  BY DEF Frame
<1>3. m \in fn /\ m # Ring /\ m \in Links /\ m \notin unused
  BY <1>1, RefFacts DEF Walks
<1>4. next[m] \in fn \union {Ring}
  BY <1>3 DEF Linked
<1>5. f.at # Ring => pos[f.at] < pos[m] /\ \A k \in fn : pos[k] <= pos[f.at] \/ pos[m] <= pos[k]
  BY <1>3 DEF Sorted, Walks, NextPlace
<1>6. f.at = Ring => f.called = <<>> /\ \A k \in fn : pos[m] <= pos[k]
  BY <1>3 DEF Sorted, Walks
<1> HIDE DEF m, g
<1>7. ASSUME NEW i \in DOMAIN f.called
      PROVE  f.called[i] \notin unused /\ pos[f.called[i]] <= pos[m] /\ f.called[i] # m
  <2>1. f.at # Ring /\ f.at \in Links
    BY <1>1, <1>6, <1>7
  <2>2. f.called[i] \notin unused /\ pos[f.called[i]] <= pos[f.at] /\ pos[f.at] < pos[m]
    BY <1>5, <2>1 DEF Walks
  <2>3. pos[f.called[i]] \in Nat /\ pos[f.at] \in Nat /\ pos[m] \in Nat
    BY <1>1, <1>3, <2>1
  <2>4. pos[f.called[i]] < pos[m]
    BY <2>2, <2>3
  <2> QED BY <2>2, <2>3, <2>4
<1>8. ASSUME NEW n \in f.start \intersect fn, pos[n] < pos[m]
      PROVE  \E i \in DOMAIN f.called : f.called[i] = n
  <2>1. pos[n] \in Nat /\ pos[m] \in Nat
    BY <1>1, <1>3
  <2>2. f.at # Ring /\ f.at \in Links
    BY <1>1, <1>6, <1>8, <2>1
  <2>3. pos[f.at] \in Nat /\ pos[n] <= pos[f.at]
    BY <1>1, <1>5, <1>8, <2>1, <2>2
  <2>4. pos[n] < pos[f.at] \/ n = f.at
    BY <1>1, <2>1, <2>2, <2>3
  <2> QED BY <2>2, <2>4 DEF Walks
<1>9. Walks(pos, g)
  BY <1>2, <1>3, <1>4, <1>7, <1>8 DEF Walks
<1> QED BY <1>9 DEF m, g

\* A link that is connected in a callback is behind every emission.
LEMMA WalkConnects ==
  ASSUME RefInv, Linked, NEW pos \in [Links -> Nat], NEW end \in Nat, Places(pos, end),
         Sorted(pos), NEW n \in Links, Connect(n), NEW new, new = [pos EXCEPT ![n] = end],
         NEW f \in Frame, Walks(pos, f)
  PROVE  Walks(new, f)'
<1>1. state = "live"
  BY DEF Connect, UserCode
<1>2. /\ n \in unused /\ n \notin fn /\ n # Ring /\ unused' = unused \ {n}
      /\ fn' = fn \union {n}
      /\ prev[Ring] \in fn \union {Ring} /\ next[prev[Ring]] = Ring
      /\ next'[prev[Ring]] = n /\ next'[n] = Ring
      /\ \A k \in Nodes \ {n, prev[Ring]} : next'[k] = next[k]
  BY ConnectRing
<1>3. /\ fn \subseteq Links /\ Ring \notin fn /\ Ring \notin Links
      /\ f.start \subseteq Links /\ f.at \in Links \union {Ring} /\ f.at \in Nodes
      /\ \A i \in DOMAIN f.called : f.called[i] \in Links
      /\ \A k \in Links : pos[k] \in Nat
  BY <1>1, EmitFacts DEF Nodes
<1>4. /\ new[n] = end
      /\ \A k \in Links \ {n} : new[k] = pos[k] /\ pos[k] \in Nat
  OBVIOUS
<1>5. f.at # n /\ n \notin f.start /\ \A i \in DOMAIN f.called : f.called[i] # n
  BY <1>2 DEF Walks
<1>6. f.start \intersect fn' = f.start \intersect fn
  BY <1>2, <1>5
<1>7. f.at # Ring => new[f.at] = pos[f.at]
  BY <1>3, <1>4, <1>5
<1>8. \A i \in DOMAIN f.called : new[f.called[i]] = pos[f.called[i]]
  BY <1>3, <1>4, <1>5
<1>9. \A k \in fn : new[k] = pos[k] /\ k \in Links
  BY <1>2, <1>3, <1>4
<1>10. next'[f.at] \in fn' \union {Ring}
  <2>1. CASE f.at = prev[Ring]
    BY <1>2, <2>1
  <2>2. CASE f.at # prev[Ring]
    BY <1>2, <1>3, <1>5, <2>2 DEF Walks
  <2> QED BY <2>1, <2>2
<1>11. ASSUME f.at \notin fn' \union {Ring}
       PROVE  NextPlace(new, f.at, next'[f.at], f.start \intersect fn', fn')
  <2>1. f.at \notin fn \union {Ring} /\ next'[f.at] = next[f.at] /\ f.at \in Links
    BY <1>2, <1>3, <1>5, <1>11
  <2>2. NextPlace(pos, f.at, next[f.at], f.start \intersect fn, fn)
    BY <2>1 DEF Walks
  <2>3. CASE next[f.at] = Ring
    BY <1>6, <1>7, <1>9, <2>1, <2>2, <2>3 DEF NextPlace
  <2>4. CASE next[f.at] # Ring
    <3>1. /\ next[f.at] \in fn /\ pos[f.at] < pos[next[f.at]]
          /\ \A k \in fn : pos[k] <= pos[f.at] \/ pos[next[f.at]] <= pos[k]
      BY <2>1, <2>2, <2>4 DEF Walks, NextPlace
    <3>2. pos[next[f.at]] \in Nat /\ pos[next[f.at]] < end /\ new[next[f.at]] = pos[next[f.at]]
      BY <1>1, <1>9, <3>1, RefFacts DEF Places
    <3>3. new[next[f.at]] <= new[n]
      BY <1>4, <3>2
    <3>4. \A k \in fn' : new[k] <= new[f.at] \/ new[next[f.at]] <= new[k]
      BY <1>2, <1>7, <1>9, <2>1, <3>1, <3>2, <3>3
    <3>5. new[f.at] < new[next[f.at]]
      BY <1>7, <2>1, <3>1, <3>2
    <3> QED BY <2>1, <2>4, <3>4, <3>5 DEF NextPlace
  <2> QED BY <2>3, <2>4
<1>12. ASSUME NEW i \in DOMAIN f.called
       PROVE  f.called[i] \notin unused' /\ new[f.called[i]] <= new[f.at]
  <2>1. f.at # Ring
    BY <1>12 DEF Walks
  <2> QED BY <1>2, <1>7, <1>8, <2>1 DEF Walks
<1>13. ASSUME NEW k \in f.start \intersect fn', f.at # Ring,
              new[k] < new[f.at] \/ (k = f.at /\ f.phase # "visit")
       PROVE  \E i \in DOMAIN f.called : f.called[i] = k
  BY <1>6, <1>7, <1>9, <1>13 DEF Walks
<1>14. /\ f.at # Ring => f.at \notin unused'
       /\ f.at = Ring => f.called = <<>>
       /\ f.start \intersect unused' = {}
       /\ \A i \in DOMAIN f.called : f.phase = "visit" => f.called[i] # f.at
       /\ \A i, j \in DOMAIN f.called : f.called[i] = f.called[j] => i = j
  BY <1>2 DEF Walks
<1> QED BY <1>10, <1>11, <1>12, <1>13, <1>14 DEF Walks

\* A callback that disconnects itself leaves its emission a way on.
LEMMA WalkUnlinks ==
  ASSUME RefInv, Linked, NEW pos \in [Links -> Nat], NEW end \in Nat, Places(pos, end),
         Sorted(pos), NEW n \in Links, Disconnect(n),
         NEW f \in Frame, Walks(pos, f), f.at = n
  PROVE  Walks(pos, f)'
<1>1. state = "live" /\ n \in fn
  BY DEF Disconnect, UserCode
<1>2. next[n] # n
  BY <1>1, NotItself
<1>3. /\ n # Ring /\ fn' = fn \ {n} /\ unused' = unused
      /\ prev[n] # n
      /\ \A k \in Nodes \ {prev[n]} : next'[k] = next[k]
  BY <1>2, UnlinkRing
<1>4. n \in Nodes /\ next'[n] = next[n]
  BY <1>3 DEF Nodes
<1>5. next[n] \in fn' \union {Ring}
  BY <1>1, <1>2, <1>3 DEF Linked
<1>6. NextPlace(pos, n, next[n], fn, fn)
  BY <1>1 DEF Sorted
<1>7. NextPlace(pos, n, next'[n], f.start \intersect fn', fn')
  BY <1>3, <1>4, <1>6 DEF NextPlace
<1> QED BY <1>3, <1>4, <1>5, <1>7 DEF Walks

\* A step of the innermost emission leaves the others alone.
LEMMA TopStep ==
  ASSUME stack \in Seq(Frame), stack # <<>>, NEW pos, NEW g \in Frame,
         \A k \in DOMAIN stack : Walks(pos, stack[k]),
         UNCHANGED <<unused, next, fn>>,
         stack' = Popped \/ (stack' = SetTop(g) /\ Walks(pos, g))
  PROVE  \A k \in DOMAIN stack' : Walks(pos, stack[k])'
<1>1. /\ Len(stack) \in Nat /\ DOMAIN stack = 1 .. Len(stack) /\ Len(stack) >= 1
      /\ DOMAIN SetTop(g) = 1 .. Len(stack)
      /\ \A i \in 1 .. Len(stack) : SetTop(g)[i] = IF i = Len(stack) THEN g ELSE stack[i]
      /\ DOMAIN Popped = 1 .. Len(stack) - 1
      /\ \A i \in 1 .. Len(stack) - 1 : Popped[i] = stack[i]
  BY StackShape DEF SetTop, Popped
<1> SUFFICES ASSUME NEW k \in DOMAIN stack' PROVE Walks(pos, stack'[k])
  BY DEF Walks
<1>2. CASE stack' = Popped
  <2>1. \A n \in Nat : 1 .. n - 1 \subseteq 1 .. n
    OBVIOUS
  <2>2. 1 .. Len(stack) - 1 \subseteq 1 .. Len(stack)
    BY <1>1, <2>1
  <2>3. k \in 1 .. Len(stack) - 1 /\ k \in DOMAIN stack
    BY <1>1, <1>2, <2>2
  <2>4. stack'[k] = stack[k]
    BY <1>1, <1>2, <2>3
  <2> QED BY <2>3, <2>4
<1>3. CASE stack' = SetTop(g) /\ Walks(pos, g)
  BY <1>1, <1>3
<1> QED BY <1>2, <1>3

\* Every step keeps the emissions on their way if callbacks disconnect only themselves.
LEMMA EmitStep ==
  ASSUME Removal = "self", RefInv, EmitInv, [Next]_vars
  PROVE  EmitInv'
<1>1. ASSUME state = "live"
      PROVE  /\ Linked
             /\ \E pos \in [Links -> Nat], end \in Nat :
                   /\ Places(pos, end) /\ Sorted(pos)
                   /\ \A k \in DOMAIN stack : Walks(pos, stack[k])
             /\ stack \in Seq(Frame) /\ Len(stack) \in Nat /\ DOMAIN stack = 1 .. Len(stack)
             /\ \A k \in DOMAIN stack : stack[k] \in Frame
             /\ stack # <<>> => Top \in Frame /\ Len(stack) \in DOMAIN stack
  <2>1. stack \in Seq(Frame)
    BY <1>1, RefFacts
  <2>2. /\ Len(stack) \in Nat /\ DOMAIN stack = 1 .. Len(stack)
        /\ \A k \in DOMAIN stack : stack[k] \in Frame
        /\ stack # <<>> => Len(stack) # 0
    BY <2>1, LenProperties, ElementOfSeq, EmptySeq
  <2>3. stack # <<>> => Len(stack) \in DOMAIN stack
    BY <2>2
  <2> QED BY <1>1, <2>1, <2>2, <2>3 DEF EmitInv, Top
<1>2. ASSUME NEW n \in Links, Connect(n) PROVE EmitInv'
  <2>1. state = "live" /\ state' = "live" /\ stack' = stack
    BY <1>2 DEF Connect, UserCode
  <2>2. Linked
    BY <1>1, <2>1
  <2>3. PICK pos \in [Links -> Nat], end \in Nat :
           /\ Places(pos, end) /\ Sorted(pos)
           /\ \A k \in DOMAIN stack : Walks(pos, stack[k])
    BY <1>1, <2>1
  <2> DEFINE new == [pos EXCEPT ![n] = end]
  <2>4. new \in [Links -> Nat] /\ Places(new, end + 1)' /\ Sorted(new)'
    BY <1>2, <2>2, <2>3, ConnectOrder
  <2>5. Linked'
    BY <1>2, <2>2, ConnectRing
  <2>6. ASSUME NEW f \in Frame, Walks(pos, f) PROVE Walks(new, f)'
    BY <1>2, <2>2, <2>3, <2>6, WalkConnects
  <2> HIDE DEF new
  <2>7. \A k \in DOMAIN stack' : Walks(new, stack[k])'
    <3> SUFFICES ASSUME NEW k \in DOMAIN stack PROVE Walks(new, stack[k])'
      BY <2>1
    <3>1. PICK f \in Frame : f = stack[k]
      BY <1>1, <2>1
    <3>2. Walks(new, f)'
      BY <2>3, <2>6, <3>1
    <3> QED BY <2>1, <3>1, <3>2 DEF Walks
  <2>8. end + 1 \in Nat
    OBVIOUS
  <2> QED BY <2>1, <2>4, <2>5, <2>7, <2>8 DEF EmitInv
<1>3. ASSUME NEW n \in Links, Disconnect(n) PROVE EmitInv'
  <2>1. state = "live" /\ state' = "live" /\ stack' = stack /\ n \in fn /\ MayRemove(n)
    BY <1>3 DEF Disconnect, UserCode
  <2>2. Linked
    BY <1>1, <2>1
  <2>3. PICK pos \in [Links -> Nat], end \in Nat :
           /\ Places(pos, end) /\ Sorted(pos)
           /\ \A k \in DOMAIN stack : Walks(pos, stack[k])
    BY <1>1, <2>1
  <2>4. Places(pos, end)' /\ Sorted(pos)'
    BY <1>3, <2>2, <2>3, UnlinkOrder
  <2>5. Linked'
    BY <1>3, <2>1, <2>2, <2>3, UnlinkRing, NotItself
  <2>6. ASSUME NEW f \in Frame, Walks(pos, f), f.at = n PROVE Walks(pos, f)'
    BY <1>3, <2>2, <2>3, <2>6, WalkUnlinks
  <2>7. \A k \in DOMAIN stack' : Walks(pos, stack[k])'
    <3> SUFFICES ASSUME NEW k \in DOMAIN stack PROVE Walks(pos, stack[k])'
      BY <2>1
    <3>1. stack # <<>>
      OBVIOUS
    <3>2. Len(stack) = 1 /\ Top.at = n
      BY <2>1, <3>1 DEF MayRemove
    <3>3. k = 1 /\ stack[k] = Top
      BY <1>1, <2>1, <3>2 DEF Top
    <3>4. PICK f \in Frame : f = stack[k] /\ f.at = n
      BY <1>1, <2>1, <3>2, <3>3
    <3>5. Walks(pos, f)'
      BY <2>3, <2>6, <3>4
    <3> QED BY <2>1, <3>4, <3>5 DEF Walks
  <2> QED BY <2>1, <2>4, <2>5, <2>7 DEF EmitInv
<1>4. CASE QueryNull
  <2>1. state = "live" /\ Ring \notin alive /\ state' = "null" /\ stack' = stack
    BY <1>4 DEF QueryNull, UserCode
  <2>2. stack = <<>>
    BY <2>1, RefFacts
  <2> QED BY <2>1, <2>2 DEF EmitInv
<1>5. CASE Destroy
  BY <1>5 DEF Destroy, EmitInv
<1>6. ASSUME state = "live", state' = "live", UNCHANGED <<unused, next, prev, fn>>,
             NEW pos \in [Links -> Nat], NEW end \in Nat, Places(pos, end), Sorted(pos),
             \A k \in DOMAIN stack' : Walks(pos, stack[k])'
      PROVE  EmitInv'
  <2>1. Linked' /\ Places(pos, end)' /\ Sorted(pos)'
    BY <1>1, <1>6 DEF Linked, Places, Sorted
  <2> QED BY <1>6, <2>1 DEF EmitInv
<1>7. ASSUME UNCHANGED <<state, unused, next, prev, fn, stack>> PROVE EmitInv'
  <2>1. CASE state = "live"
    <3>1. PICK pos \in [Links -> Nat], end \in Nat :
             /\ Places(pos, end) /\ Sorted(pos)
             /\ \A k \in DOMAIN stack : Walks(pos, stack[k])
      BY <1>1, <2>1
    <3>2. \A k \in DOMAIN stack' : Walks(pos, stack[k])'
      <4>1. UNCHANGED <<unused, next, fn>>
        BY <1>7
      <4> SUFFICES ASSUME NEW k \in DOMAIN stack' PROVE Walks(pos, stack'[k])
        BY <4>1 DEF Walks
      <4> QED BY <1>7, <3>1
    <3> QED BY <1>6, <1>7, <2>1, <3>1, <3>2
  <2>2. CASE state # "live"
    BY <1>7, <2>2 DEF EmitInv
  <2> QED BY <2>1, <2>2
<1>8. CASE EmitStart
  <2> DEFINE f == [at |-> Ring, phase |-> "visit", start |-> fn, called |-> <<>>]
  <2>1. /\ state = "live" /\ state' = "live" /\ stack' = Append(stack, f)
        /\ UNCHANGED <<unused, next, prev, fn>>
    BY <1>8 DEF EmitStart, UserCode
  <2>2. PICK pos \in [Links -> Nat], end \in Nat :
           /\ Places(pos, end) /\ Sorted(pos)
           /\ \A k \in DOMAIN stack : Walks(pos, stack[k])
    BY <1>1, <2>1
  <2>3. f \in Frame
    <3>1. <<>> \in Seq(Links) /\ fn \subseteq Links /\ Ring \in Nodes
      BY <2>1, EmptySeq, RefFacts
    <3> QED BY <3>1 DEF Frame
  <2>4. Walks(pos, f)
    <3>1. next[Ring] \in fn \union {Ring} /\ fn \intersect unused = {}
      BY <1>1, <2>1, RefFacts DEF Linked
    <3> QED BY <3>1 DEF Walks
  <2> HIDE DEF f
  <2>5. \A k \in DOMAIN stack' : Walks(pos, stack[k])'
    <3>0. UNCHANGED <<unused, next, fn>>
      BY <2>1
    <3> SUFFICES ASSUME NEW k \in DOMAIN stack' PROVE Walks(pos, stack'[k])
      BY <3>0 DEF Walks
    <3>1. /\ Len(stack) \in Nat /\ DOMAIN stack' = 1 .. Len(stack) + 1
          /\ DOMAIN stack = 1 .. Len(stack)
          /\ \A i \in 1 .. Len(stack) : stack'[i] = stack[i]
          /\ stack'[Len(stack) + 1] = f
      BY <1>1, <2>1, <2>3, StackShape
    <3>2. k \in DOMAIN stack \/ k = Len(stack) + 1
      BY <3>1
    <3> QED BY <2>2, <2>4, <3>1, <3>2
  <2> QED BY <1>6, <2>1, <2>2, <2>5
<1>9. CASE EmitVisit
  <2>1. /\ state = "live" /\ state' = "live" /\ stack # <<>> /\ Top.phase = "visit"
        /\ UNCHANGED <<unused, next, prev, fn>>
    BY <1>9 DEF EmitVisit
  <2>2. PICK pos \in [Links -> Nat], end \in Nat :
           /\ Places(pos, end) /\ Sorted(pos)
           /\ \A k \in DOMAIN stack : Walks(pos, stack[k])
    BY <1>1, <2>1
  <2>3. Top \in Frame /\ Walks(pos, Top) /\ stack \in Seq(Frame) /\ fn \subseteq Links /\ Linked
    BY <1>1, <2>1, <2>2, RefFacts DEF Top
  <2>4. CASE Top.at \in fn
    <3> DEFINE g == [Top EXCEPT !.phase = "calling", !.called = Append(Top.called, Top.at)]
    <3>1. Walks(pos, g)
      BY <2>1, <2>2, <2>3, <2>4, WalkVisits
    <3>2. g \in Frame
      <4>1. Append(Top.called, Top.at) \in Seq(Links)
        BY <2>3, <2>4, AppendProperties DEF Frame
      <4> QED BY <2>3, <4>1 DEF Frame
    <3>3. stack' = SetTop(g)
      BY <1>9, <2>4 DEF EmitVisit
    <3> HIDE DEF g
    <3>4. \A k \in DOMAIN stack' : Walks(pos, stack[k])'
      BY <2>1, <2>2, <2>3, <3>1, <3>2, <3>3, TopStep
    <3> QED BY <1>6, <2>1, <2>2, <3>4
  <2>5. CASE Top.at \notin fn
    <3> DEFINE g == [Top EXCEPT !.phase = "advance"]
    <3>1. Walks(pos, g)
      BY <2>3, <2>5, WalkPasses
    <3>2. g \in Frame
      BY <2>3 DEF Frame
    <3>3. stack' = SetTop(g)
      BY <1>9, <2>5 DEF EmitVisit
    <3> HIDE DEF g
    <3>4. \A k \in DOMAIN stack' : Walks(pos, stack[k])'
      BY <2>1, <2>2, <2>3, <3>1, <3>2, <3>3, TopStep
    <3> QED BY <1>6, <2>1, <2>2, <3>4
  <2> QED BY <2>4, <2>5
<1>10. CASE EmitReturn
  <2>1. /\ state = "live" /\ state' = "live" /\ stack # <<>> /\ Top.phase = "calling"
        /\ UNCHANGED <<unused, next, prev, fn>>
    BY <1>10 DEF EmitReturn
  <2>2. PICK pos \in [Links -> Nat], end \in Nat :
           /\ Places(pos, end) /\ Sorted(pos)
           /\ \A k \in DOMAIN stack : Walks(pos, stack[k])
    BY <1>1, <2>1
  <2>3. Top \in Frame /\ Walks(pos, Top) /\ stack \in Seq(Frame)
    BY <1>1, <2>1, <2>2 DEF Top
  <2> DEFINE g == [Top EXCEPT !.phase = "advance"]
  <2>4. Walks(pos, g)
    BY <2>1, <2>3, WalkPasses
  <2>5. g \in Frame
    BY <2>3 DEF Frame
  <2>6. stack' = SetTop(g)
    BY <1>10 DEF EmitReturn
  <2> HIDE DEF g
  <2>7. \A k \in DOMAIN stack' : Walks(pos, stack[k])'
    BY <2>1, <2>2, <2>3, <2>4, <2>5, <2>6, TopStep
  <2> QED BY <1>6, <2>1, <2>2, <2>7
<1>11. CASE EmitBreak
  <2>1. /\ state = "live" /\ state' = "live" /\ stack # <<>> /\ stack' = Popped
        /\ UNCHANGED <<unused, next, prev, fn>>
    BY <1>11 DEF EmitBreak
  <2>2. PICK pos \in [Links -> Nat], end \in Nat :
           /\ Places(pos, end) /\ Sorted(pos)
           /\ \A k \in DOMAIN stack : Walks(pos, stack[k])
    BY <1>1, <2>1
  <2>3. Top \in Frame /\ stack \in Seq(Frame)
    BY <1>1, <2>1
  <2>4. \A k \in DOMAIN stack' : Walks(pos, stack[k])'
    BY <2>1, <2>2, <2>3, TopStep
  <2> QED BY <1>6, <2>1, <2>2, <2>4
<1>12. CASE EmitAdvance
  <2>1. /\ state = "live" /\ stack # <<>> /\ Top.phase = "advance"
        /\ UNCHANGED <<unused, next, prev, fn>>
    BY <1>12 DEF EmitAdvance
  <2>2. PICK pos \in [Links -> Nat], end \in Nat :
           /\ Places(pos, end) /\ Sorted(pos)
           /\ \A k \in DOMAIN stack : Walks(pos, stack[k])
    BY <1>1, <2>1
  <2>3. Top \in Frame /\ Walks(pos, Top) /\ stack \in Seq(Frame) /\ Linked
    BY <1>1, <2>1, <2>2 DEF Top
  <2>4. next[Top.at] \in fn \union {Ring}
    BY <2>3 DEF Walks
  <2>5. next[Top.at] \in alive
    <3>1. /\ Exact /\ Ring \in alive /\ fn \subseteq Nodes /\ leaked \in [Nodes -> Nat]
          /\ \A n \in Nodes : Cardinality(WatchSet(stack, n)) \in Nat
          /\ \A n \in Nodes : n \in alive <=> ref[n] > 0
      BY <2>1, RefFacts
    <3>2. ASSUME NEW n \in fn PROVE n \in alive
      <4>1. Held(n) = 1 /\ n \in Nodes
        BY <3>1 DEF Held
      <4>2. /\ ref[n] = leaked[n] + Cardinality(WatchSet(stack, n)) + 1
            /\ leaked[n] \in Nat /\ Cardinality(WatchSet(stack, n)) \in Nat
        BY <3>1, <4>1 DEF Exact
      <4>3. ref[n] > 0
        BY <4>2
      <4> QED BY <3>1, <4>1, <4>3
    <3> QED BY <2>4, <3>1, <3>2
  <2>6. state' = "live"
    BY <1>12, <2>1, <2>5 DEF EmitAdvance, NextOf
  <2>7. CASE next[Top.at] = Ring
    <3>1. stack' = Popped
      BY <1>12, <2>5, <2>7 DEF EmitAdvance, NextOf
    <3>2. \A k \in DOMAIN stack' : Walks(pos, stack[k])'
      BY <2>1, <2>2, <2>3, <3>1, TopStep
    <3> QED BY <1>6, <2>1, <2>2, <2>6, <3>2
  <2>8. CASE next[Top.at] # Ring
    <3> DEFINE g == [Top EXCEPT !.at = next[Top.at], !.phase = "visit"]
    <3>1. Walks(pos, g)
      BY <2>1, <2>2, <2>3, <2>8, WalkAdvances
    <3>2. g \in Frame
      <4>1. next[Top.at] \in Nodes
        BY <2>1, <2>4, RefFacts
      <4> QED BY <2>3, <4>1 DEF Frame
    <3>3. stack' = SetTop(g)
      BY <1>12, <2>5, <2>8 DEF EmitAdvance, NextOf
    <3> HIDE DEF g
    <3>4. \A k \in DOMAIN stack' : Walks(pos, stack[k])'
      BY <2>1, <2>2, <2>3, <3>1, <3>2, <3>3, TopStep
    <3> QED BY <1>6, <2>1, <2>2, <2>6, <3>4
  <2> QED BY <2>7, <2>8
<1>13. CASE Size \/ Empty \/ UNCHANGED vars
  BY <1>7, <1>13 DEF Size, Empty, Query, vars
<1> QED
  BY <1>2, <1>3, <1>4, <1>5, <1>8, <1>9, <1>10, <1>11, <1>12, <1>13 DEF Next

\* The inductive invariant of the emissions.
THEOREM EmitInvariant ==
  ASSUME Removal = "self"
  PROVE  Spec => [](RefInv /\ EmitInv)
<1>1. Init => RefInv /\ EmitInv
  BY InitRefs, InitEmit
<1>2. RefInv /\ EmitInv /\ [Next]_vars => EmitInv'
  BY EmitStep
<1> QED BY <1>1, <1>2, LinksInvariant, PTL DEF Spec

\* As long as callbacks disconnect only themselves, an emission never steps to a link
\* that has been freed, however many emissions are nested and callbacks added.
THEOREM SafeEmissions ==
  ASSUME Removal = "self"
  PROVE  Spec => []SafeAgainstRecursion
<1>1. EmitInv => SafeAgainstRecursion
  BY DEF EmitInv, SafeAgainstRecursion
<1> QED BY <1>1, EmitInvariant, PTL

\* As long as callbacks disconnect only themselves, an emission calls no callback twice,
\* and when it is about to end it has called all that were connected all the while.
THEOREM CompleteEmissions ==
  ASSUME Removal = "self"
  PROVE  Spec => []EmissionComplete
<1>1. RefInv /\ EmitInv => EmissionComplete
  <2> SUFFICES ASSUME RefInv, EmitInv, NEW k \in DOMAIN stack
               PROVE  LET f == stack[k] IN
                      /\ \A i, j \in DOMAIN f.called : f.called[i] = f.called[j] => i = j
                      /\ f.phase = "advance" /\ next[f.at] = Ring =>
                            \A n \in f.start \intersect fn :
                                \E i \in DOMAIN f.called : f.called[i] = n
    BY DEF EmissionComplete
  <2> DEFINE f == stack[k]
  <2>1. state = "live" /\ Linked
    BY DEF EmitInv
  <2>2. PICK pos \in [Links -> Nat], end \in Nat :
           /\ Places(pos, end) /\ Sorted(pos)
           /\ \A i \in DOMAIN stack : Walks(pos, stack[i])
    BY <2>1 DEF EmitInv
  <2>3. f \in Frame /\ Walks(pos, f)
    BY <2>1, <2>2, RefFacts, ElementOfSeq, LenProperties
  <2> HIDE DEF f
  <2>4. /\ fn \subseteq Links /\ f.at \in Links \union {Ring}
        /\ \A n \in Links : pos[n] \in Nat
        /\ f.at # Ring => \A n \in fn : pos[n] = pos[f.at] => n = f.at
    BY <2>1, <2>2, <2>3, EmitFacts
  <2>5. ASSUME f.phase = "advance", next[f.at] = Ring, NEW n \in f.start \intersect fn
        PROVE  \E i \in DOMAIN f.called : f.called[i] = n
    <3>1. f.at # Ring
      BY <2>2, <2>5 DEF Sorted
    <3>2. pos[n] <= pos[f.at]
      <4>1. CASE f.at \in fn
        BY <2>2, <2>5, <4>1 DEF Sorted, NextPlace
      <4>2. CASE f.at \notin fn
        BY <2>3, <2>5, <3>1, <4>2 DEF Walks, NextPlace
      <4> QED BY <4>1, <4>2
    <3>3. pos[n] < pos[f.at] \/ n = f.at
      BY <2>4, <3>1, <3>2
    <3> QED BY <2>3, <2>5, <3>1, <3>3 DEF Walks
  <2>6. \A i, j \in DOMAIN f.called : f.called[i] = f.called[j] => i = j
    BY <2>3 DEF Walks
  <2> QED BY <2>5, <2>6 DEF f
<1> QED BY <1>1, EmitInvariant, PTL

=============================================================================
