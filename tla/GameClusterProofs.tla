--------------------------- MODULE GameClusterProofs ----------------------------
(***************************************************************************)
(* Proofs about the center and the servers that register with it, for any  *)
(* number of servers, links, faults and late attempts.                     *)
(***************************************************************************)
EXTENDS GameCluster, SequenceTheorems, FiniteSetTheorems, FunctionTheorems, TLAPS

-----------------------------------------------------------------------------
(* Entries of the table *)

\* The places of l in the entries q of a unique_id.
Entries(q, l) == {i \in DOMAIN q : q[i] = l}

\* There are finitely many, and none if l is not in q.
LEMMA EntriesNat ==
  ASSUME NEW S, NEW q \in Seq(S), NEW l
  PROVE  /\ IsFiniteSet(Entries(q, l)) /\ Cardinality(Entries(q, l)) \in Nat
         /\ l \in Range(q) <=> Cardinality(Entries(q, l)) # 0
<1>1. DOMAIN q = 1 .. Len(q) /\ Len(q) \in Nat /\ IsFiniteSet(1 .. Len(q))
  BY LenProperties, FS_Interval
<1>2. Entries(q, l) \in SUBSET (1 .. Len(q))
  BY <1>1 DEF Entries
<1>3. IsFiniteSet(Entries(q, l)) /\ Cardinality(Entries(q, l)) \in Nat
  BY <1>1, <1>2, FS_Subset, FS_CardinalityType
<1>4. l \in Range(q) <=> Entries(q, l) # {}
  BY DEF Range, Entries
<1> QED BY <1>3, <1>4, FS_EmptySet

\* A link is entered.
LEMMA EntryAdded ==
  ASSUME NEW S, NEW q \in Seq(S), NEW l \in S
  PROVE  /\ Append(q, l) \in Seq(S) /\ Range(Append(q, l)) = Range(q) \union {l}
         /\ Cardinality(Entries(Append(q, l), l)) = Cardinality(Entries(q, l)) + 1
         /\ \A k : k # l => Entries(Append(q, l), k) = Entries(q, k)
<1> DEFINE r == Append(q, l)
<1>1. DOMAIN q = 1 .. Len(q) /\ Len(q) \in Nat
  BY LenProperties
<1>2. /\ r \in Seq(S) /\ Len(r) = Len(q) + 1 /\ r[Len(q) + 1] = l
      /\ \A i \in 1 .. Len(q) : r[i] = q[i]
  BY AppendProperties
<1>3. DOMAIN r = 1 .. Len(q) + 1
  BY <1>2, LenProperties
<1> HIDE DEF r
<1>4. DOMAIN r = DOMAIN q \union {Len(q) + 1} /\ Len(q) + 1 \notin DOMAIN q
  BY <1>1, <1>3
<1>5. Range(r) = Range(q) \union {l}
  BY <1>1, <1>2, <1>4 DEF Range
<1>6. Entries(r, l) = Entries(q, l) \union {Len(q) + 1} /\ Len(q) + 1 \notin Entries(q, l)
  BY <1>1, <1>2, <1>4 DEF Entries
<1>7. Cardinality(Entries(r, l)) = Cardinality(Entries(q, l)) + 1
  BY <1>6, EntriesNat, FS_AddElement
<1>8. \A k : k # l => Entries(r, k) = Entries(q, k)
  BY <1>1, <1>2, <1>4 DEF Entries
<1> QED BY <1>2, <1>5, <1>7, <1>8 DEF r

\* The element at a place is removed.
LEMMA RemovedAt ==
  ASSUME NEW S, NEW q \in Seq(S), NEW p \in 1 .. Len(q)
  PROVE  /\ RemoveAt(q, p) \in Seq(S) /\ Len(RemoveAt(q, p)) = Len(q) - 1
         /\ \A i \in 1 .. Len(q) - 1 : RemoveAt(q, p)[i] = IF i < p THEN q[i] ELSE q[i + 1]
<1> DEFINE a == SubSeq(q, 1, p - 1)
           b == SubSeq(q, p + 1, Len(q))
<1>1. /\ Len(q) \in Nat /\ p \in Nat /\ p >= 1 /\ p <= Len(q) /\ p - 1 \in Int /\ p + 1 \in Int
      /\ \A j \in 1 .. Len(q) : q[j] \in S
  BY LenProperties, ElementOfSeq
<1>2. a \in Seq(S) /\ Len(a) = p - 1 /\ \A i \in 1 .. p - 1 : a[i] = q[i]
  <2>1. \A j \in 1 .. p - 1 : q[j] \in S
    BY <1>1
  <2>2. Len(a) = IF 1 <= p - 1 THEN p - 1 - 1 + 1 ELSE 0
    BY <1>1, <2>1, SubSeqProperties
  <2>3. Len(a) = p - 1
    BY <1>1, <2>2
  <2>4. a \in Seq(S) /\ \A i \in 1 .. (p - 1) - 1 + 1 : a[i] = q[1 + i - 1]
    BY <1>1, <2>1, SubSeqProperties
  <2> QED BY <1>1, <2>3, <2>4
<1>3. b \in Seq(S) /\ Len(b) = Len(q) - p /\ \A i \in 1 .. Len(q) - p : b[i] = q[p + i]
  <2>1. \A j \in p + 1 .. Len(q) : q[j] \in S
    BY <1>1
  <2>2. Len(b) = IF p + 1 <= Len(q) THEN Len(q) - (p + 1) + 1 ELSE 0
    BY <1>1, <2>1, SubSeqProperties
  <2>3. Len(b) = Len(q) - p
    BY <1>1, <2>2
  <2>4. b \in Seq(S) /\ \A i \in 1 .. Len(q) - (p + 1) + 1 : b[i] = q[(p + 1) + i - 1]
    BY <1>1, <2>1, SubSeqProperties
  <2> QED BY <1>1, <2>3, <2>4
<1> HIDE DEF a, b
<1>4. /\ a \o b \in Seq(S) /\ Len(a \o b) = Len(a) + Len(b)
      /\ \A i \in 1 .. Len(a) + Len(b) : (a \o b)[i] = IF i <= Len(a) THEN a[i] ELSE b[i - Len(a)]
  BY <1>2, <1>3, ConcatProperties
<1>5. RemoveAt(q, p) = a \o b
  BY DEF RemoveAt, a, b
<1>6. ASSUME NEW i \in 1 .. Len(q) - 1
      PROVE  (a \o b)[i] = IF i < p THEN q[i] ELSE q[i + 1]
  <2>1. i \in 1 .. Len(a) + Len(b) /\ i \in Nat
    BY <1>1, <1>2, <1>3
  <2>2. CASE i < p
    BY <1>1, <1>2, <1>4, <2>1, <2>2
  <2>3. CASE ~(i < p)
    <3>1. i - (p - 1) \in 1 .. Len(q) - p /\ ~(i <= p - 1) /\ p + (i - (p - 1)) = i + 1
      BY <1>1, <2>1, <2>3
    <3>2. b[i - (p - 1)] = q[i + 1]
      BY <1>3, <3>1
    <3> QED BY <1>2, <1>4, <2>1, <2>3, <3>1, <3>2
  <2> QED BY <2>2, <2>3
<1>7. Len(a) + Len(b) = Len(q) - 1
  BY <1>1, <1>2, <1>3
<1> QED BY <1>4, <1>5, <1>6, <1>7

\* A set of naturals has a least one.
LEMMA LeastOf ==
  ASSUME NEW T \in SUBSET Nat, T # {}
  PROVE  Min(T) \in T
<1>1. IsWellFoundedOn(OpToRel(<, Nat), Nat)
  BY NatLessThanWellFounded
<1>2. PICK x \in T : \A y \in T : ~(<<y, x>> \in OpToRel(<, Nat))
  BY <1>1, WFMin, Zenon
<1>3. ASSUME NEW y \in T PROVE ~(y < x)
  <2>1. y < x => <<y, x>> \in OpToRel(<, Nat)
    BY Zenon DEF OpToRel
  <2> QED BY <1>2, <2>1
<1>4. \A y \in T : x <= y
  BY <1>3
<1> QED BY <1>4 DEF Min

\* The first of the entries of a link is erased.
LEMMA EntryErased ==
  ASSUME NEW S, NEW q \in Seq(S), NEW l
  PROVE  /\ Erased(q, l) \in Seq(S) /\ Range(Erased(q, l)) \subseteq Range(q)
         /\ l \in Range(q) =>
               Cardinality(Entries(Erased(q, l), l)) = Cardinality(Entries(q, l)) - 1
         /\ \A k : k # l => Cardinality(Entries(Erased(q, l), k)) = Cardinality(Entries(q, k))
<1>1. CASE l \notin Range(q)
  BY <1>1 DEF Erased
<1>2. CASE l \in Range(q)
  <2>1. DOMAIN q = 1 .. Len(q) /\ Len(q) \in Nat
    BY LenProperties
  <2>2. PICK p \in 1 .. Len(q) : q[p] = l /\ Erased(q, l) = RemoveAt(q, p)
    <3> DEFINE I == {i \in 1 .. Len(q) : q[i] = l}
    <3>1. I \in SUBSET Nat /\ I # {}
      BY <1>2, <2>1 DEF Range
    <3> HIDE DEF I
    <3>2. Min(I) \in I
      BY <3>1, LeastOf
    <3>3. SelectInSeq(q, LAMBDA v : v = l) = Min(I)
      BY <3>1 DEF SelectInSeq, I
    <3>4. \E i \in 1 .. Len(q) : q[i] = l
      BY <3>1 DEF I
    <3>5. Erased(q, l) = RemoveAt(q, Min(I))
      BY <1>2, <3>3, <3>4 DEF Erased, RemoveFirst
    <3> QED BY <3>2, <3>5 DEF I
  <2> DEFINE r == RemoveAt(q, p)
  <2>3. /\ r \in Seq(S) /\ Len(r) = Len(q) - 1
        /\ \A i \in 1 .. Len(q) - 1 : r[i] = IF i < p THEN q[i] ELSE q[i + 1]
    BY RemovedAt
  <2>4. DOMAIN r = 1 .. Len(q) - 1
    BY <2>3, LenProperties
  <2> HIDE DEF r
  <2>5. Range(r) \subseteq Range(q)
    <3> SUFFICES ASSUME NEW i \in DOMAIN r PROVE r[i] \in Range(q)
      BY DEF Range
    <3>1. (i \in DOMAIN q /\ r[i] = q[i]) \/ (i + 1 \in DOMAIN q /\ r[i] = q[i + 1])
      BY <2>1, <2>3, <2>4
    <3> QED BY <3>1 DEF Range
  <2>6. ASSUME NEW k
        PROVE  Cardinality(Entries(r, k)) = Cardinality(Entries(q, k) \ {p})
    <3> DEFINE f == [i \in Entries(r, k) |-> IF i < p THEN i ELSE i + 1]
               D == Entries(q, k) \ {p}
    <3>1. p \in Nat /\ \A i \in Entries(r, k) : i \in Nat /\ i \in 1 .. Len(q) - 1 /\ r[i] = k
      BY <2>1, <2>4 DEF Entries
    <3>2. f \in [Entries(r, k) -> D]
      <4> SUFFICES ASSUME NEW i \in Entries(r, k)
                   PROVE  (IF i < p THEN i ELSE i + 1) \in D
        OBVIOUS
      <4>1. CASE i < p
        BY <2>1, <2>3, <3>1, <4>1 DEF Entries
      <4>2. CASE ~(i < p)
        BY <2>1, <2>3, <3>1, <4>2 DEF Entries
      <4> QED BY <4>1, <4>2
    <3>3. \A i, j \in Entries(r, k) : f[i] = f[j] => i = j
      BY <3>1
    <3>4. ASSUME NEW j \in D PROVE \E i \in Entries(r, k) : f[i] = j
      <4>1. j \in 1 .. Len(q) /\ j # p /\ q[j] = k
        BY <2>1 DEF Entries
      <4>2. CASE j < p
        <5>1. j \in Entries(r, k)
          BY <2>1, <2>3, <2>4, <4>1, <4>2 DEF Entries
        <5> QED BY <4>2, <5>1
      <4>3. CASE ~(j < p)
        <5>1. j - 1 \in 1 .. Len(q) - 1 /\ ~(j - 1 < p) /\ j - 1 + 1 = j
          BY <2>1, <3>1, <4>1, <4>3
        <5>2. j - 1 \in Entries(r, k)
          BY <2>3, <2>4, <4>1, <5>1 DEF Entries
        <5> QED BY <5>1, <5>2
      <4> QED BY <4>2, <4>3
    <3>5. f \in Bijection(Entries(r, k), D)
      <4> HIDE DEF f, D
      <4> QED BY <3>2, <3>3, <3>4, Fun_IsBij
    <3>6. ExistsBijection(Entries(r, k), D)
      BY <3>5 DEF ExistsBijection
    <3> QED BY <2>3, <3>6, EntriesNat, FS_Bijection
  <2>7. \A k : /\ k = l => p \in Entries(q, k)
               /\ k # l => Entries(q, k) \ {p} = Entries(q, k)
    BY <2>1, <2>2 DEF Entries
  <2>8. Cardinality(Entries(q, l) \ {p}) = Cardinality(Entries(q, l)) - 1
    BY <2>7, EntriesNat, FS_RemoveElement
  <2> QED BY <2>2, <2>3, <2>5, <2>6, <2>7, <2>8 DEF r
<1> QED BY <1>1, <1>2

-----------------------------------------------------------------------------
(* Links *)

LinkSet == Link \union {NoLink}

\* A link is known by its peer.
LEMMA LinkKinds ==
  ASSUME NEW k \in LinkSet
  PROVE  /\ k = NoLink <=> k \notin Link
         /\ k.peer = Center => k \in Link
<1>1. k \in Link => k.peer # None
  BY ClusterAssumption DEF Link, Servers
<1>2. NoLink.peer = None /\ Center # None
  BY ClusterAssumption DEF NoLink
<1> QED BY <1>1, <1>2 DEF LinkSet

\* j is the link k later: its ends are the same, and a broken link stays broken.
SameEnds(k, j) ==
    k \in Link /\ j \in Link /\ j.conn = k.conn /\ j.peer = k.peer /\ (j.ok => k.ok)

\* The same, and the center has not done anything about it.
Keeps(k, j) == SameEnds(k, j) /\ j.accepted = k.accepted /\ j.regs = k.regs

\* A registration is on its way to the center, or its confirmation back.
Pending(k) == "register" \in Range(k.up) \/ Reply("registered", None) \in Range(k.down)

\* The links L are those of the state, none of them new or forgotten.
Follows(L) ==
    /\ L \in [Links -> LinkSet]
    /\ \A l \in Links : (link[l] = NoLink /\ L[l] = NoLink) \/ Keeps(link[l], L[l])

\* A field of a link is changed.
LEMMA BrokenLink ==
  ASSUME NEW k \in Link
  PROVE  LET j == [k EXCEPT !.ok = FALSE]
         IN  Keeps(k, j) /\ ~j.ok /\ j.up = k.up /\ j.down = k.down
  BY DEF Link, Keeps, SameEnds

\* The same for the requests on their way.
LEMMA UpChanged ==
  ASSUME NEW k \in Link, NEW q \in Seq(Requests)
  PROVE  LET j == [k EXCEPT !.up = q]
         IN  Keeps(k, j) /\ j.ok = k.ok /\ j.up = q /\ j.down = k.down
  BY DEF Link, Keeps, SameEnds

\* The same for the messages back.
LEMMA DownChanged ==
  ASSUME NEW k \in Link, NEW q \in Seq(Replies)
  PROVE  LET j == [k EXCEPT !.down = q]
         IN  Keeps(k, j) /\ j.ok = k.ok /\ j.up = k.up /\ j.down = q
  BY DEF Link, Keeps, SameEnds

\* The fields of a link.
LEMMA LinkFields ==
  ASSUME NEW k \in Link
  PROVE  /\ k.conn \in Conns /\ k.ok \in BOOLEAN /\ k.accepted \in BOOLEAN /\ k.regs \in Nat
         /\ k.up \in Seq(Requests) /\ k.down \in Seq(Replies)
  BY DEF Link

\* One link is replaced.
LEMMA FollowsExcept ==
  ASSUME NEW L, Follows(L), NEW l \in Links, L[l] \in Link, NEW j, Keeps(L[l], j)
  PROVE  /\ Follows([L EXCEPT ![l] = j]) /\ [L EXCEPT ![l] = j][l] = j
         /\ \A k \in Links : k # l => [L EXCEPT ![l] = j][k] = L[k]
<1> DEFINE M == [L EXCEPT ![l] = j]
<1>1. L \in [Links -> LinkSet] /\ j \in LinkSet
  BY DEF Follows, Keeps, SameEnds, LinkSet
<1>2. M \in [Links -> LinkSet] /\ M[l] = j /\ \A k \in Links : k # l => M[k] = L[k]
  BY <1>1
<1> HIDE DEF M
<1>3. L[l] # NoLink /\ Keeps(link[l], L[l])
  BY <1>1, LinkKinds DEF Follows
<1>4. Keeps(link[l], j)
  BY <1>3 DEF Keeps, SameEnds
<1>5. \A k \in Links : (link[k] = NoLink /\ M[k] = NoLink) \/ Keeps(link[k], M[k])
  BY <1>2, <1>4 DEF Follows
<1>6. Follows(M)
  BY <1>2, <1>5 DEF Follows
<1> QED BY <1>2, <1>6 DEF M

\* The links of the state.
LEMMA FollowsSelf ==
  ASSUME link \in [Links -> LinkSet]
  PROVE  Follows(link)
<1>1. \A l \in Links : link[l] = NoLink \/ link[l] \in Link
  BY LinkKinds
<1> QED BY <1>1 DEF Follows, Keeps, SameEnds

\* A socket is closed.
LEMMA FollowsBroken ==
  ASSUME NEW L, Follows(L), NEW l \in 0 .. MaxLinks, l # 0 => L[l] \in Link
  PROVE  /\ Follows(Broken(L, l))
         /\ l # 0 => ~Broken(L, l)[l].ok
         /\ \A k \in Links : k # l => Broken(L, l)[k] = L[k]
<1>1. CASE l = 0
  BY <1>1 DEF Broken
<1>2. CASE l # 0
  <2>1. l \in Links /\ L \in [Links -> LinkSet]
    BY <1>2 DEF Links, Follows
  <2> DEFINE j == [L[l] EXCEPT !.ok = FALSE]
  <2>2. Keeps(L[l], j) /\ ~j.ok
    BY <1>2, BrokenLink
  <2>3. Broken(L, l) = [L EXCEPT ![l] = j]
    BY <1>2, <2>1 DEF Broken
  <2> HIDE DEF j
  <2>4. /\ Follows([L EXCEPT ![l] = j]) /\ [L EXCEPT ![l] = j][l] = j
        /\ \A k \in Links : k # l => [L EXCEPT ![l] = j][k] = L[k]
    BY <1>2, <2>1, <2>2, FollowsExcept
  <2> QED BY <2>2, <2>3, <2>4
<1> QED BY <1>1, <1>2

\* A message is appended, or taken from the front.
LEMMA RangeAppend ==
  ASSUME NEW S, NEW q \in Seq(S), NEW m \in S
  PROVE  Append(q, m) \in Seq(S) /\ Range(Append(q, m)) = Range(q) \union {m}
  BY EntryAdded

\* The same when the first is taken.
LEMMA RangeTail ==
  ASSUME NEW S, NEW q \in Seq(S), q # <<>>
  PROVE  /\ Head(q) \in S /\ Tail(q) \in Seq(S)
         /\ Range(Tail(q)) \subseteq Range(q) /\ Range(q) \subseteq Range(Tail(q)) \union {Head(q)}
<1>1. /\ Head(q) \in S /\ Tail(q) \in Seq(S) /\ Len(Tail(q)) = Len(q) - 1
      /\ \A i \in 1 .. Len(Tail(q)) : Tail(q)[i] = q[i + 1]
  BY HeadTailProperties
<1>2. DOMAIN q = 1 .. Len(q) /\ Len(q) \in Nat /\ DOMAIN Tail(q) = 1 .. Len(Tail(q))
  BY <1>1, LenProperties
<1>3. Head(q) = q[1]
  OBVIOUS
<1>4. ASSUME NEW i \in DOMAIN q PROVE q[i] \in Range(Tail(q)) \union {Head(q)}
  <2>1. i = 1 \/ (i - 1 \in 1 .. Len(Tail(q)) /\ (i - 1) + 1 = i)
    BY <1>1, <1>2
  <2> QED BY <1>1, <1>2, <1>3, <2>1 DEF Range
<1>5. ASSUME NEW i \in DOMAIN Tail(q) PROVE Tail(q)[i] \in Range(q)
  <2>1. i + 1 \in DOMAIN q /\ Tail(q)[i] = q[i + 1]
    BY <1>1, <1>2
  <2> QED BY <2>1 DEF Range
<1> QED BY <1>1, <1>4, <1>5 DEF Range

\* A request is written.
LEMMA FollowsSentUp ==
  ASSUME NEW L, Follows(L), NEW l \in Links, L[l] \in Link, NEW m \in Requests
  PROVE  /\ Follows(SentUp(L, l, m))
         /\ SentUp(L, l, m)[l].ok = L[l].ok
         /\ L[l].ok => m \in Range(SentUp(L, l, m)[l].up)
         /\ Pending(L[l]) => Pending(SentUp(L, l, m)[l])
         /\ \A k \in Links : k # l => SentUp(L, l, m)[k] = L[k]
<1>1. CASE ~L[l].ok
  BY <1>1 DEF SentUp
<1>2. CASE L[l].ok
  <2> DEFINE q == Append(L[l].up, m)
             j == [L[l] EXCEPT !.up = q]
  <2>1. L[l].up \in Seq(Requests)
    BY LinkFields
  <2>2. q \in Seq(Requests) /\ Range(q) = Range(L[l].up) \union {m}
    BY <2>1, RangeAppend
  <2>3. SentUp(L, l, m) = [L EXCEPT ![l] = j]
    BY <1>2 DEF SentUp, Follows
  <2> HIDE DEF q
  <2>4. Keeps(L[l], j) /\ j.ok = L[l].ok /\ j.up = q /\ j.down = L[l].down
    BY <2>2, UpChanged
  <2> HIDE DEF j
  <2>5. Pending(L[l]) => Pending(j)
    BY <2>2, <2>4 DEF Pending
  <2>6. /\ Follows([L EXCEPT ![l] = j]) /\ [L EXCEPT ![l] = j][l] = j
        /\ \A k \in Links : k # l => [L EXCEPT ![l] = j][k] = L[k]
    BY <2>4, FollowsExcept
  <2> QED BY <2>2, <2>3, <2>4, <2>5, <2>6
<1> QED BY <1>1, <1>2

\* A server takes the first of its messages.
LEMMA FollowsReceived ==
  ASSUME link \in [Links -> LinkSet], NEW l \in Links, link[l] \in Link, link[l].down # <<>>
  PROVE  LET L == [link EXCEPT ![l].down = Tail(@)] IN
         /\ Follows(L) /\ Head(link[l].down) \in Replies
         /\ L[l] \in Link /\ L[l].ok = link[l].ok
         /\ Pending(link[l]) /\ Head(link[l].down) # Reply("registered", None) => Pending(L[l])
         /\ \A k \in Links : k # l => L[k] = link[k]
<1> DEFINE q == Tail(link[l].down)
           j == [link[l] EXCEPT !.down = q]
<1>1. link[l].down \in Seq(Replies)
  BY LinkFields
<1>2. /\ q \in Seq(Replies) /\ Head(link[l].down) \in Replies
      /\ Range(link[l].down) \subseteq Range(q) \union {Head(link[l].down)}
  BY <1>1, RangeTail
<1>3. [link EXCEPT ![l].down = Tail(@)] = [link EXCEPT ![l] = j]
  OBVIOUS
<1> HIDE DEF q
<1>4. Keeps(link[l], j) /\ j.ok = link[l].ok /\ j.up = link[l].up /\ j.down = q
  BY <1>2, DownChanged
<1> HIDE DEF j
<1>5. Pending(link[l]) /\ Head(link[l].down) # Reply("registered", None) => Pending(j)
  BY <1>2, <1>4 DEF Pending
<1>6. j \in Link
  BY <1>4 DEF Keeps, SameEnds
<1>7. Follows([link EXCEPT ![l] = j]) /\ [link EXCEPT ![l] = j][l] = j
      /\ \A k \in Links : k # l => [link EXCEPT ![l] = j][k] = link[k]
  BY <1>4, FollowsSelf, FollowsExcept
<1> QED BY <1>2, <1>3, <1>4, <1>5, <1>6, <1>7

\* What is left when the links that nobody knows of are forgotten.
LEMMA KeptLinks ==
  ASSUME NEW L \in [Links -> LinkSet]
  PROVE  /\ Kept(L) \in [Links -> LinkSet]
         /\ \A l \in Links :
               /\ Kept(L)[l] = NoLink \/ Keeps(L[l], Kept(L)[l])
               /\ L[l] \in Link /\ Kept(L)[l] = NoLink =>
                     /\ \A c \in Conns : sock'[c] # l
                     /\ \A u \in Uids : l \notin Range(servers'[u])
               /\ L[l] \in Link /\ L[l].accepted /\ (\E c \in Conns : sock'[c] = l) =>
                     Kept(L)[l] = L[l]
<1> DEFINE Used(l) == \E c \in Conns : sock'[c] = l
           Known(l) == L[l].accepted \/ Used(l) \/ \E u \in Uids : l \in Range(servers'[u])
           Up(l) == IF L[l].accepted THEN L[l].up ELSE <<>>
           Down(l) == IF Used(l) THEN L[l].down ELSE <<>>
           Rest(l) == [L[l] EXCEPT !.up = Up(l), !.down = Down(l)]
<1>1. Kept(L) = [l \in Links |-> IF L[l] # NoLink /\ Known(l) THEN Rest(l) ELSE NoLink]
  BY DEF Kept
<1>2. ASSUME NEW l \in Links, L[l] \in Link
      PROVE  Keeps(L[l], Rest(l)) /\ (L[l].accepted /\ Used(l) => Rest(l) = L[l])
  <2>1. Up(l) \in Seq(Requests) /\ Down(l) \in Seq(Replies)
    <3>1. <<>> \in Seq(Requests) /\ <<>> \in Seq(Replies)
      OBVIOUS
    <3>2. L[l].up \in Seq(Requests) /\ L[l].down \in Seq(Replies)
      BY <1>2, LinkFields
    <3> QED BY <3>1, <3>2
  <2>2. L[l].accepted /\ Used(l) => Up(l) = L[l].up /\ Down(l) = L[l].down
    OBVIOUS
  <2> HIDE DEF Up, Down, Used
  <2>3. Keeps(L[l], Rest(l))
    BY <1>2, <2>1 DEF Link, Keeps, SameEnds
  <2>4. Up(l) = L[l].up /\ Down(l) = L[l].down => Rest(l) = L[l]
    BY <1>2 DEF Link
  <2> QED BY <2>2, <2>3, <2>4
<1>3. \A l \in Links : L[l] # NoLink <=> L[l] \in Link
  BY LinkKinds
<1> HIDE DEF Rest, Known
<1>4. \A l \in Links : Kept(L)[l] = IF L[l] # NoLink /\ Known(l) THEN Rest(l) ELSE NoLink
  BY <1>1
<1>5. \A l \in Links : Kept(L)[l] = NoLink \/ Keeps(L[l], Kept(L)[l])
  BY <1>2, <1>3, <1>4
<1>6. Kept(L) \in [Links -> LinkSet]
  <2>1. \A l \in Links : Kept(L)[l] \in LinkSet
    BY <1>5 DEF Keeps, SameEnds, LinkSet
  <2>2. \A l \in Links : (IF L[l] # NoLink /\ Known(l) THEN Rest(l) ELSE NoLink) \in LinkSet
    BY <1>4, <2>1
  <2> QED BY <1>1, <2>2
<1>7. ASSUME NEW l \in Links, L[l] \in Link, Kept(L)[l] = NoLink PROVE ~Known(l)
  <2>1. Rest(l) # NoLink
    <3>1. Rest(l) \in Link
      BY <1>2, <1>7 DEF Keeps, SameEnds
    <3> QED BY <3>1, LinkKinds DEF LinkSet
  <2> QED BY <1>3, <1>4, <1>7, <2>1
<1>8. ASSUME NEW l \in Links, L[l] \in Link, L[l].accepted, Used(l) PROVE Kept(L)[l] = L[l]
  <2>1. Known(l)
    BY <1>8 DEF Known
  <2> QED BY <1>2, <1>3, <1>4, <1>8, <2>1
<1> QED BY <1>5, <1>6, <1>7, <1>8 DEF Known

-----------------------------------------------------------------------------
(* The inductive invariant *)

\* The link of a socket is that of its connection, and there is none during an attempt.  A
\* socket that is connected, when its connection does not run yet, has a success to handle.
ConnOK(c) ==
    /\ sock[c] # 0 => link[sock[c]] \in Link /\ link[sock[c]].conn = c
    /\ attempt[c] # None => sock[c] = 0
    /\ running[c] => sock[c] # 0
    /\ ~running[c] /\ sock[c] # 0 /\ link[sock[c]].ok => TRUE \in Range(done[c])
SockInv == \A c \in Conns : ConnOK(c)

\* The connection to the center is one with the center.
CenterOK(s) ==
    /\ attempt[ToCenter(s)] \in {Center, None}
    /\ sock[ToCenter(s)] # 0 => link[sock[ToCenter(s)]].peer = Center
CenterInv == \A s \in Servers : CenterOK(s)

\* The center gives up its end of a link only when the link is broken.
LinkInv == \A l \in Links : link[l].peer = Center => link[l].accepted \/ ~link[l].ok

\* The entries of a unique_id are links of a server with this unique_id.
EntryInv == \A u \in Uids : \A l \in Range(servers[u]) :
                link[l].peer = Center /\ Uid(link[l].conn[1]) = u

\* Retried, of one server.
RetriedCenter(s) == running[ToCenter(s)] \/ centerTimer[s] \/ failed[ToCenter(s)]
RetriedDb(g) == running[ToDb(g)] \/ infoTimer[g] \/ failed[ToDb(g)] \/ Registering(g)

ClusterInv == TypeOK /\ SockInv /\ CenterInv /\ LinkInv /\ EntryInv /\ TableExact /\ Retried

\* Retried is RetriedCenter and RetriedDb of all.
LEMMA RetriedParts ==
  Retried <=> (\A s \in Servers : RetriedCenter(s)) /\ (\A g \in GameServers : RetriedDb(g))
  BY DEF Retried, RetriedCenter, RetriedDb

-----------------------------------------------------------------------------
(* What a step of a server leaves alone *)

\* The center does nothing; a link that is forgotten has no entry.
Quiet ==
    /\ servers' = servers
    /\ \A l \in Links :
          \/ link'[l] = NoLink /\ \A u \in Uids : l \notin Range(servers[u])
          \/ Keeps(link[l], link'[l])

\* The table of the center is then what it was.
LEMMA TableFrame ==
  ASSUME TypeOK, LinkInv, EntryInv, TableExact, Quiet
  PROVE  LinkInv' /\ EntryInv' /\ TableExact'
<1>1. NoLink.peer # Center
  BY ClusterAssumption DEF NoLink
<1>2. LinkInv'
  <2> SUFFICES ASSUME NEW l \in Links, link'[l].peer = Center
               PROVE  link'[l].accepted \/ ~link'[l].ok
    BY DEF LinkInv
  <2>1. Keeps(link[l], link'[l])
    BY <1>1 DEF Quiet
  <2> QED BY <2>1 DEF Keeps, SameEnds, LinkInv
<1>3. EntryInv'
  <2> SUFFICES ASSUME NEW u \in Uids, NEW l \in Range(servers[u])
               PROVE  link'[l].peer = Center /\ Uid(link'[l].conn[1]) = u
    BY DEF EntryInv, Quiet
  <2>1. l \in Links
    <3>1. servers[u] \in Seq(Links)
      BY DEF TypeOK
    <3> QED BY <3>1, RangeOfSeq
  <2>2. Keeps(link[l], link'[l])
    BY <2>1 DEF Quiet
  <2> QED BY <2>2 DEF Keeps, SameEnds, EntryInv
<1>4. TableExact'
  <2> SUFFICES ASSUME NEW l \in Links, link'[l] # NoLink, link'[l].peer = Center
               PROVE  Cardinality({i \in DOMAIN servers'[Uid(link'[l].conn[1])] :
                                      servers'[Uid(link'[l].conn[1])][i] = l})
                        = IF link'[l].accepted \/ link'[l].regs = 0
                          THEN link'[l].regs ELSE link'[l].regs - 1
    BY DEF TableExact
  <2>1. Keeps(link[l], link'[l]) /\ servers' = servers
    BY DEF Quiet
  <2>2. link[l] # NoLink /\ link[l].peer = Center
    BY <2>1, LinkKinds DEF Keeps, SameEnds, LinkSet
  <2>3. /\ link'[l].conn = link[l].conn /\ link'[l].accepted = link[l].accepted
        /\ link'[l].regs = link[l].regs
    BY <2>1 DEF Keeps, SameEnds
  <2> QED BY <2>1, <2>2, <2>3 DEF TableExact
<1> QED BY <1>2, <1>3, <1>4

\* A socket that is not closed has a link.
LEMMA SocketLink ==
  ASSUME ClusterInv, NEW c \in Conns, sock[c] # 0
  PROVE  sock[c] \in Links /\ link[sock[c]] \in Link /\ link[sock[c]].conn = c
<1>1. sock[c] \in 0 .. MaxLinks
  BY DEF ClusterInv, TypeOK
<1>2. ConnOK(c)
  BY DEF ClusterInv, SockInv
<1>3. sock[c] \in Links
  BY <1>1 DEF Links
<1> QED BY <1>2, <1>3 DEF ConnOK

\* The links after a step of a server, whether or not it forgets some.
LEMMA CarriedLinks ==
  ASSUME ClusterInv, NEW K, Follows(K), link' = K \/ link' = Kept(K), servers' = servers,
         sock' \in [Conns -> 0 .. MaxLinks]
  PROVE  /\ link' \in [Links -> Link \union {NoLink}]
         /\ LinkInv' /\ EntryInv' /\ TableExact'
         /\ \A c \in Conns : sock[c] # 0 /\ sock'[c] = sock[c] =>
               /\ Keeps(link[sock[c]], link'[sock[c]])
               /\ link[sock[c]].peer = Center /\ link'[sock[c]].ok => link'[sock[c]] = K[sock[c]]
<1>1. K \in [Links -> LinkSet] /\ Kept(K) \in [Links -> LinkSet]
  BY KeptLinks DEF Follows
<1>2. link \in [Links -> LinkSet]
  BY DEF ClusterInv, TypeOK, LinkSet
<1>3. ASSUME NEW l \in Links
      PROVE  /\ \/ link'[l] = NoLink /\ \A u \in Uids : l \notin Range(servers[u])
                \/ Keeps(link[l], link'[l])
             /\ link[l] \in Link /\ (\E c \in Conns : sock'[c] = l) => Keeps(link[l], link'[l])
             /\ (link[l] \in Link /\ (\E c \in Conns : sock'[c] = l) /\ link[l].peer = Center
                   /\ link'[l].ok) => link'[l] = K[l]
  <2>1. CASE link[l] = NoLink
    <3>1. K[l] = NoLink /\ link[l] \notin Link
      BY <1>2, <2>1, LinkKinds DEF Follows, Keeps, SameEnds
    <3>2. link'[l] = NoLink
      <4>1. Kept(K)[l] = NoLink
        BY <1>1, <3>1, KeptLinks, LinkKinds DEF Keeps, SameEnds
      <4> QED BY <3>1, <4>1
    <3>3. ASSUME NEW u \in Uids PROVE l \notin Range(servers[u])
      <4>1. NoLink.peer # Center
        BY ClusterAssumption DEF NoLink
      <4> QED BY <2>1, <4>1 DEF ClusterInv, EntryInv
    <3> QED BY <3>1, <3>2, <3>3
  <2>2. CASE link[l] # NoLink
    <3>1. Keeps(link[l], K[l]) /\ K[l] \in Link
      BY <2>2 DEF Follows, Keeps, SameEnds
    <3>2. CASE link' = K
      BY <3>1, <3>2
    <3>3. CASE link' = Kept(K)
      <4>1. link'[l] = NoLink \/ Keeps(K[l], link'[l])
        BY <1>1, <3>3, KeptLinks
      <4>2. Keeps(K[l], link'[l]) => Keeps(link[l], link'[l])
        BY <3>1 DEF Keeps, SameEnds
      <4>3. link'[l] = NoLink =>
               (\A c \in Conns : sock'[c] # l) /\ \A u \in Uids : l \notin Range(servers[u])
        BY <1>1, <3>1, <3>3, KeptLinks
      <4>4. ASSUME NEW c \in Conns, sock'[c] = l, link[l].peer = Center, link'[l].ok
            PROVE  link'[l] = K[l]
        <5>1. Keeps(K[l], link'[l]) /\ link[l].ok
          BY <4>1, <4>2, <4>3, <4>4 DEF Keeps, SameEnds
        <5>2. link[l].accepted
          BY <4>4, <5>1 DEF ClusterInv, LinkInv
        <5>3. K[l].accepted
          BY <3>1, <5>2 DEF Keeps
        <5> QED BY <1>1, <3>1, <3>3, <4>4, <5>3, KeptLinks
      <4> QED BY <4>1, <4>2, <4>3, <4>4
    <3> QED BY <3>2, <3>3
  <2> QED BY <2>1, <2>2
<1>4. Quiet
  BY <1>3 DEF Quiet
<1>5. LinkInv' /\ EntryInv' /\ TableExact'
  BY <1>4, TableFrame DEF ClusterInv
<1>6. ASSUME NEW c \in Conns, sock[c] # 0, sock'[c] = sock[c]
      PROVE  /\ Keeps(link[sock[c]], link'[sock[c]])
             /\ link[sock[c]].peer = Center /\ link'[sock[c]].ok => link'[sock[c]] = K[sock[c]]
  <2>1. sock[c] \in Links /\ link[sock[c]] \in Link
    BY <1>6, SocketLink
  <2> QED BY <1>3, <1>6, <2>1
<1> QED BY <1>1, <1>5, <1>6 DEF LinkSet

\* A connection that the step does not touch.
LEMMA ConnFrame ==
  ASSUME NEW c \in Conns, ConnOK(c), sock'[c] = sock[c], attempt'[c] = attempt[c],
         running'[c] = running[c], done'[c] = done[c],
         sock[c] # 0 => SameEnds(link[sock[c]], link'[sock[c]])
  PROVE  ConnOK(c)'
  BY DEF ConnOK, SameEnds

\* The connection to the center stays with the center, or is closed.
LEMMA CenterFrame ==
  ASSUME NEW s \in Servers, CenterOK(s), sock'[ToCenter(s)] \in {sock[ToCenter(s)], 0},
         attempt'[ToCenter(s)] \in {attempt[ToCenter(s)], Center, None},
         sock'[ToCenter(s)] # 0 =>
            SameEnds(link[sock[ToCenter(s)]], link'[sock[ToCenter(s)]])
  PROVE  CenterOK(s)'
  BY DEF CenterOK, SameEnds

\* A server whose registration goes on.
LEMMA RegisteringFrame ==
  ASSUME NEW s \in Servers, Registering(s),
         sock'[ToCenter(s)] = sock[ToCenter(s)], running'[ToCenter(s)] = running[ToCenter(s)],
         done'[ToCenter(s)] = done[ToCenter(s)],
         running[ToCenter(s)] =>
            /\ SameEnds(link[sock[ToCenter(s)]], link'[sock[ToCenter(s)]])
            /\ Pending(link[sock[ToCenter(s)]]) /\ link'[sock[ToCenter(s)]].ok =>
                  Pending(link'[sock[ToCenter(s)]])
  PROVE  Registering(s)'
  BY DEF Registering, SameEnds, Pending

\* The links K of a step keep the registration of s pending, or break its link.
Undisturbed(K, s) ==
    running[ToCenter(s)] /\ Pending(link[sock[ToCenter(s)]]) /\ K[sock[ToCenter(s)]].ok =>
        Pending(K[sock[ToCenter(s)]])

\* The connections have their names.
LEMMA ConnNames ==
  /\ \A s \in Servers : ToCenter(s) \in Conns /\ ToCenter(s)[1] = s
  /\ \A g \in GameServers : ToDb(g) \in Conns /\ ToDb(g)[1] = g /\ g \in Servers
  /\ \A s, t \in Servers : ToCenter(s) = ToCenter(t) => s = t
  /\ \A g, h \in GameServers : ToDb(g) = ToDb(h) => g = h
  /\ \A s \in Servers, g \in GameServers : ToCenter(s) # ToDb(g)
  BY DEF ToCenter, ToDb, Conns, Servers

\* A connection is one to the center or one to the db server.
LEMMA ConnKinds ==
  ASSUME NEW c \in Conns
  PROVE  \/ c[1] \in Servers /\ c = ToCenter(c[1])
         \/ c[1] \in GameServers /\ c[1] \in Servers /\ c = ToDb(c[1]) /\ c # ToCenter(c[1])
<1>1. CASE \E s \in Servers : c = ToCenter(s)
  BY <1>1, ConnNames
<1>2. CASE \E g \in GameServers : c = ToDb(g)
  BY <1>2, ConnNames
<1> QED BY <1>1, <1>2 DEF Conns

\* A step of a server that touches only the connections T.
LEMMA ServerFrame ==
  ASSUME ClusterInv, NEW K, Follows(K), link' = K \/ link' = Kept(K), servers' = servers,
         sock' \in [Conns -> 0 .. MaxLinks], NEW T \in SUBSET Conns,
         \A c \in Conns \ T : /\ sock'[c] = sock[c] /\ attempt'[c] = attempt[c]
                              /\ running'[c] = running[c] /\ done'[c] = done[c]
  PROVE  /\ link' \in [Links -> Link \union {NoLink}]
         /\ LinkInv' /\ EntryInv' /\ TableExact'
         /\ \A c \in Conns : sock[c] # 0 /\ sock'[c] = sock[c] =>
               Keeps(link[sock[c]], link'[sock[c]])
         /\ \A c \in Conns \ T : ConnOK(c)'
         /\ \A s \in Servers : ToCenter(s) \notin T => CenterOK(s)'
         /\ \A s \in Servers : ToCenter(s) \notin T /\ Undisturbed(K, s) /\ Registering(s) =>
               Registering(s)'
<1>1. /\ link' \in [Links -> Link \union {NoLink}]
      /\ LinkInv' /\ EntryInv' /\ TableExact'
      /\ \A c \in Conns : sock[c] # 0 /\ sock'[c] = sock[c] =>
            /\ Keeps(link[sock[c]], link'[sock[c]])
            /\ link[sock[c]].peer = Center /\ link'[sock[c]].ok => link'[sock[c]] = K[sock[c]]
  BY CarriedLinks
<1>2. \A c \in Conns : sock[c] # 0 /\ sock'[c] = sock[c] => SameEnds(link[sock[c]], link'[sock[c]])
  BY <1>1 DEF Keeps
<1>3. ASSUME NEW c \in Conns \ T PROVE ConnOK(c)'
  BY <1>2, ConnFrame DEF ClusterInv, SockInv
<1>4. ASSUME NEW s \in Servers, ToCenter(s) \notin T PROVE CenterOK(s)'
  <2>1. ToCenter(s) \in Conns \ T /\ CenterOK(s)
    BY <1>4, ConnNames DEF ClusterInv, CenterInv
  <2> QED BY <1>2, <2>1, CenterFrame
<1>5. ASSUME NEW s \in Servers, ToCenter(s) \notin T, Undisturbed(K, s), Registering(s)
      PROVE  Registering(s)'
  <2>1. ToCenter(s) \in Conns \ T /\ CenterOK(s) /\ ConnOK(ToCenter(s))
    BY <1>5, ConnNames DEF ClusterInv, CenterInv, SockInv
  <2>2. ASSUME running[ToCenter(s)]
        PROVE  /\ SameEnds(link[sock[ToCenter(s)]], link'[sock[ToCenter(s)]])
               /\ Pending(link[sock[ToCenter(s)]]) /\ link'[sock[ToCenter(s)]].ok =>
                     Pending(link'[sock[ToCenter(s)]])
    <3>1. sock[ToCenter(s)] # 0 /\ link[sock[ToCenter(s)]].peer = Center
      BY <2>1, <2>2 DEF ConnOK, CenterOK
    <3>2. link'[sock[ToCenter(s)]].ok => link'[sock[ToCenter(s)]] = K[sock[ToCenter(s)]]
      BY <1>1, <2>1, <3>1
    <3> QED BY <1>2, <1>5, <2>1, <2>2, <3>1, <3>2 DEF Undisturbed
  <2> QED BY <1>5, <2>1, <2>2, RegisteringFrame
<1> QED BY <1>1, <1>3, <1>4, <1>5

\* async_connect, on whatever links the step has already changed.
LEMMA AsyncConnects ==
  ASSUME ClusterInv, NEW c \in Conns, NEW p \in DbServers \union {Center, None},
         c = ToCenter(c[1]) => p = Center, NEW L, Follows(L), AsyncConnect(c, p, L),
         servers' = servers, running' = running
  PROVE  /\ sock' \in [Conns -> 0 .. MaxLinks] /\ done' \in [Conns -> Seq(BOOLEAN)]
         /\ attempt' \in [Conns -> DbServers \union {Center, None}]
         /\ link' \in [Links -> Link \union {NoLink}]
         /\ SockInv' /\ CenterInv' /\ LinkInv' /\ EntryInv' /\ TableExact'
         /\ \A s \in Servers : Undisturbed(L, s) /\ Registering(s) => Registering(s)'
<1>1. /\ sock \in [Conns -> 0 .. MaxLinks] /\ done \in [Conns -> Seq(BOOLEAN)]
      /\ attempt \in [Conns -> DbServers \union {Center, None}]
      /\ running \in [Conns -> BOOLEAN]
  BY DEF ClusterInv, TypeOK
<1>2. CASE running[c]
  <2>1. UNCHANGED <<sock, attempt, done>> /\ link' = Kept(L)
    BY <1>2 DEF AsyncConnect
  <2>2. {} \in SUBSET Conns /\ \A d \in Conns \ {} :
           /\ sock'[d] = sock[d] /\ attempt'[d] = attempt[d]
           /\ running'[d] = running[d] /\ done'[d] = done[d]
    BY <2>1
  <2>3. /\ link' \in [Links -> Link \union {NoLink}]
        /\ LinkInv' /\ EntryInv' /\ TableExact'
        /\ \A d \in Conns \ {} : ConnOK(d)'
        /\ \A s \in Servers : ToCenter(s) \notin {} => CenterOK(s)'
        /\ \A s \in Servers : ToCenter(s) \notin {} /\ Undisturbed(L, s) /\ Registering(s) =>
              Registering(s)'
    BY <1>1, <2>1, <2>2, ServerFrame
  <2> QED BY <1>1, <2>1, <2>3 DEF SockInv, CenterInv
<1>3. CASE ~running[c]
  <2> DEFINE M == Broken(L, sock[c])
  <2>1. /\ done' = IF attempt[c] = None THEN done ELSE [done EXCEPT ![c] = Append(@, FALSE)]
        /\ attempt' = [attempt EXCEPT ![c] = p] /\ sock' = [sock EXCEPT ![c] = 0]
        /\ link' = Kept(M)
    BY <1>3 DEF AsyncConnect
  <2>2. sock[c] # 0 => sock[c] \in Links /\ L[sock[c]] \in Link
    <3>1. sock[c] # 0 => sock[c] \in Links /\ link[sock[c]] \in Link
      BY SocketLink
    <3> QED BY <3>1, LinkKinds DEF Follows, Keeps, SameEnds, LinkSet
  <2>3. /\ Follows(M) /\ (sock[c] # 0 => ~M[sock[c]].ok)
        /\ \A k \in Links : k # sock[c] => M[k] = L[k]
    BY <1>1, <2>2, FollowsBroken
  <2> HIDE DEF M
  <2>4. done' \in [Conns -> Seq(BOOLEAN)]
    <3>1. Append(done[c], FALSE) \in Seq(BOOLEAN)
      BY <1>1
    <3> QED BY <1>1, <2>1, <3>1
  <2>5. /\ sock' \in [Conns -> 0 .. MaxLinks] /\ sock'[c] = 0
        /\ attempt' \in [Conns -> DbServers \union {Center, None}] /\ attempt'[c] = p
    <3>1. 0 \in 0 .. MaxLinks
      BY ClusterAssumption
    <3> QED BY <1>1, <2>1, <3>1
  <2>6. {c} \in SUBSET Conns /\ \A d \in Conns \ {c} :
           /\ sock'[d] = sock[d] /\ attempt'[d] = attempt[d]
           /\ running'[d] = running[d] /\ done'[d] = done[d]
    BY <1>1, <2>1
  <2>7. /\ link' \in [Links -> Link \union {NoLink}]
        /\ LinkInv' /\ EntryInv' /\ TableExact'
        /\ \A d \in Conns \ {c} : ConnOK(d)'
        /\ \A s \in Servers : ToCenter(s) \notin {c} => CenterOK(s)'
        /\ \A s \in Servers : ToCenter(s) \notin {c} /\ Undisturbed(M, s) /\ Registering(s) =>
              Registering(s)'
    BY <2>1, <2>3, <2>5, <2>6, ServerFrame
  <2>8. ConnOK(c)'
    BY <1>3, <2>5 DEF ConnOK
  <2>9. SockInv'
    BY <2>7, <2>8 DEF SockInv
  <2>10. ASSUME NEW s \in Servers PROVE CenterOK(s)'
    <3>1. CASE ToCenter(s) = c
      <4>1. p = Center
        BY <3>1, ConnNames
      <4> QED BY <2>5, <3>1, <4>1 DEF CenterOK
    <3> QED BY <2>7, <3>1
  <2>11. ASSUME NEW s \in Servers, Undisturbed(L, s), Registering(s) PROVE Registering(s)'
    <3>1. CASE ToCenter(s) = c
      BY <1>3, <3>1 DEF Registering
    <3>2. CASE ToCenter(s) # c
      <4>1. ToCenter(s) \in Conns /\ ConnOK(ToCenter(s))
        BY ConnNames DEF ClusterInv, SockInv
      <4>2. running[ToCenter(s)] => sock[ToCenter(s)] # 0 /\ sock[ToCenter(s)] \in Links
        BY <4>1, SocketLink DEF ConnOK
      <4>3. Undisturbed(M, s)
        BY <2>3, <2>11, <4>2 DEF Undisturbed
      <4> QED BY <2>7, <2>11, <3>2, <4>3
    <3> QED BY <3>1, <3>2
  <2> QED BY <2>4, <2>5, <2>7, <2>9, <2>10, <2>11 DEF CenterInv
<1> QED BY <1>2, <1>3

-----------------------------------------------------------------------------
(* The steps of a server *)

\* The bounds of the counters.
LEMMA TimelyBound ==
  ASSUME late \in 0 .. MaxLate, NEW c, Timely(c)
  PROVE  late' \in 0 .. MaxLate
<1>1. MaxLate \in Nat
  BY ClusterAssumption
<1> QED BY <1>1 DEF Timely

\* Faults are counted.
LEMMA FaultBound ==
  ASSUME faults \in 0 .. MaxFaults, Fault
  PROVE  faults' \in 0 .. MaxFaults /\ late' = late
<1>1. MaxFaults \in Nat
  BY ClusterAssumption
<1> QED BY <1>1 DEF Fault

\* Timers that go on, and connections that run as before.
LEMMA RetriedFrame ==
  ASSUME ClusterInv, UNCHANGED <<running, failed, centerTimer>>,
         \A g \in GameServers : infoTimer[g] => infoTimer'[g],
         \A g \in GameServers : Registering(g) /\ ~infoTimer'[g] => Registering(g)'
  PROVE  Retried'
<1>1. \A s \in Servers : RetriedCenter(s)'
  BY RetriedParts DEF RetriedCenter, ClusterInv
<1>2. \A g \in GameServers : RetriedDb(g)'
  BY RetriedParts DEF RetriedDb, ClusterInv
<1> QED BY <1>1, <1>2 DEF Retried, RetriedCenter, RetriedDb

\* The links of the state disturb nobody.
LEMMA UndisturbedSelf == \A s \in Servers : Undisturbed(link, s)
  BY DEF Undisturbed

\* connect_center_timer_ fires: another attempt, to the center.
LEMMA CenterTimerHolds ==
  ASSUME ClusterInv, NEW s \in Servers, CenterTimerFires(s)
  PROVE  ClusterInv'
<1>1. /\ UNCHANGED <<running, failed, timerVars, servers, faults>>
      /\ Timely(ToCenter(s)) /\ AsyncConnect(ToCenter(s), Center, link)
  BY DEF CenterTimerFires
<1>2. TypeOK /\ ToCenter(s) \in Conns /\ Center \in DbServers \union {Center, None}
  BY ConnNames DEF ClusterInv
<1>3. Follows(link)
  BY <1>2, FollowsSelf DEF TypeOK, LinkSet
<1>4. /\ sock' \in [Conns -> 0 .. MaxLinks] /\ done' \in [Conns -> Seq(BOOLEAN)]
      /\ attempt' \in [Conns -> DbServers \union {Center, None}]
      /\ link' \in [Links -> Link \union {NoLink}]
      /\ SockInv' /\ CenterInv' /\ LinkInv' /\ EntryInv' /\ TableExact'
      /\ \A t \in Servers : Undisturbed(link, t) /\ Registering(t) => Registering(t)'
  BY <1>1, <1>2, <1>3, AsyncConnects
<1>5. late' \in 0 .. MaxLate
  BY <1>1, <1>2, TimelyBound DEF TypeOK
<1>6. TypeOK'
  BY <1>1, <1>2, <1>4, <1>5 DEF TypeOK, timerVars
<1>7. Retried'
  BY <1>1, <1>4, UndisturbedSelf, ConnNames, RetriedFrame DEF timerVars
<1> QED BY <1>4, <1>6, <1>7 DEF ClusterInv

\* connect_db_timer_ fires: another attempt, to the db server of db_info_.
LEMMA DbTimerHolds ==
  ASSUME ClusterInv, NEW g \in GameServers, DbTimerFires(g)
  PROVE  ClusterInv'
<1>1. /\ UNCHANGED <<running, failed, timerVars, servers, faults>>
      /\ Timely(ToDb(g)) /\ AsyncConnect(ToDb(g), dbInfo[g], link)
  BY DEF DbTimerFires
<1>2. /\ TypeOK /\ ToDb(g) \in Conns /\ dbInfo[g] \in DbServers \union {Center, None}
      /\ ToDb(g) # ToCenter(ToDb(g)[1])
  BY ConnNames DEF ClusterInv, TypeOK, Addresses
<1>3. Follows(link)
  BY <1>2, FollowsSelf DEF TypeOK, LinkSet
<1>4. /\ sock' \in [Conns -> 0 .. MaxLinks] /\ done' \in [Conns -> Seq(BOOLEAN)]
      /\ attempt' \in [Conns -> DbServers \union {Center, None}]
      /\ link' \in [Links -> Link \union {NoLink}]
      /\ SockInv' /\ CenterInv' /\ LinkInv' /\ EntryInv' /\ TableExact'
      /\ \A t \in Servers : Undisturbed(link, t) /\ Registering(t) => Registering(t)'
  BY <1>1, <1>2, <1>3, AsyncConnects
<1>5. late' \in 0 .. MaxLate
  BY <1>1, <1>2, TimelyBound DEF TypeOK
<1>6. TypeOK'
  BY <1>1, <1>2, <1>4, <1>5 DEF TypeOK, timerVars
<1>7. Retried'
  BY <1>1, <1>4, UndisturbedSelf, ConnNames, RetriedFrame DEF timerVars
<1> QED BY <1>4, <1>6, <1>7 DEF ClusterInv

\* get_db_info_func asks the center, if it is connected.
LEMMA GetDbInfoLinks ==
  ASSUME ClusterInv, NEW g \in GameServers, NEW L, Follows(L), GetDbInfo(g, L),
         running'[ToCenter(g)] = running[ToCenter(g)]
  PROVE  /\ dbTimer' \in [GameServers -> BOOLEAN]
         /\ \E K : /\ Follows(K) /\ link' = Kept(K)
                   /\ \A s \in Servers : Undisturbed(L, s) => Undisturbed(K, s)
<1>1. /\ dbTimer' = [dbTimer EXCEPT ![g] = FALSE]
      /\ link' = Kept(IF running'[ToCenter(g)]
                      THEN SentUp(L, sock[ToCenter(g)], "get_info") ELSE L)
  BY DEF GetDbInfo
<1>2. dbTimer' \in [GameServers -> BOOLEAN]
  BY <1>1 DEF ClusterInv, TypeOK
<1>3. CASE ~running[ToCenter(g)]
  <2>1. link' = Kept(L)
    BY <1>1, <1>3
  <2> QED BY <1>2, <2>1
<1>4. CASE running[ToCenter(g)]
  <2> DEFINE K == SentUp(L, sock[ToCenter(g)], "get_info")
  <2>1. ToCenter(g) \in Conns /\ ConnOK(ToCenter(g))
    BY ConnNames DEF ClusterInv, SockInv
  <2>2. sock[ToCenter(g)] \in Links /\ link[sock[ToCenter(g)]] \in Link
    BY <1>4, <2>1, SocketLink DEF ConnOK
  <2>3. L[sock[ToCenter(g)]] \in Link /\ "get_info" \in Requests
    BY <2>2, LinkKinds DEF Follows, Keeps, SameEnds, LinkSet, Requests
  <2>4. /\ Follows(K) /\ K[sock[ToCenter(g)]].ok = L[sock[ToCenter(g)]].ok
        /\ Pending(L[sock[ToCenter(g)]]) => Pending(K[sock[ToCenter(g)]])
        /\ \A k \in Links : k # sock[ToCenter(g)] => K[k] = L[k]
    BY <2>2, <2>3, FollowsSentUp
  <2>5. link' = Kept(K)
    BY <1>1, <1>4
  <2> HIDE DEF K
  <2>6. ASSUME NEW s \in Servers, Undisturbed(L, s) PROVE Undisturbed(K, s)
    <3>1. running[ToCenter(s)] => sock[ToCenter(s)] \in Links
      <4>1. ToCenter(s) \in Conns /\ ConnOK(ToCenter(s))
        BY ConnNames DEF ClusterInv, SockInv
      <4> QED BY <4>1, SocketLink DEF ConnOK
    <3> QED BY <2>4, <2>6, <3>1 DEF Undisturbed
  <2> QED BY <1>2, <2>4, <2>5, <2>6
<1>5. running[ToCenter(g)] \in BOOLEAN
  BY ConnNames DEF ClusterInv, TypeOK
<1> QED BY <1>3, <1>4

\* reconnect_db starts the timer that asks again.
LEMMA ReconnectDbLinks ==
  ASSUME ClusterInv, NEW g \in GameServers, NEW L, Follows(L), ReconnectDb(g, L),
         running'[ToCenter(g)] = running[ToCenter(g)]
  PROVE  /\ dbTimer' \in [GameServers -> BOOLEAN]
         /\ infoTimer' \in [GameServers -> BOOLEAN] /\ infoTimer'[g]
         /\ \A h \in GameServers : h # g => infoTimer'[h] = infoTimer[h]
         /\ \E K : /\ Follows(K) /\ link' = Kept(K)
                   /\ \A s \in Servers : Undisturbed(L, s) => Undisturbed(K, s)
<1>1. /\ infoTimer \in [GameServers -> BOOLEAN] /\ dbTimer \in [GameServers -> BOOLEAN]
      /\ infoTimer' = [infoTimer EXCEPT ![g] = TRUE]
  BY DEF ReconnectDb, ClusterInv, TypeOK
<1>2. /\ infoTimer' \in [GameServers -> BOOLEAN] /\ infoTimer'[g]
      /\ \A h \in GameServers : h # g => infoTimer'[h] = infoTimer[h]
  BY <1>1
<1>3. CASE running'[ToDb(g)]
  <2>1. link' = Kept(L) /\ dbTimer' = dbTimer
    BY <1>3 DEF ReconnectDb
  <2> QED BY <1>1, <1>2, <2>1
<1>4. CASE ~running'[ToDb(g)]
  <2>1. GetDbInfo(g, L)
    BY <1>4 DEF ReconnectDb
  <2> QED BY <1>2, <2>1, GetDbInfoLinks
<1> QED BY <1>3, <1>4

\* get_db_info_timer_ fires: the center is asked again.
LEMMA InfoTimerHolds ==
  ASSUME ClusterInv, NEW g \in GameServers, InfoTimerFires(g)
  PROVE  ClusterInv'
<1>1. /\ UNCHANGED <<connVars, centerTimer, infoTimer, dbInfo, servers, faults>>
      /\ Timely(ToDb(g)) /\ GetDbInfo(g, link)
  BY DEF InfoTimerFires
<1>2. TypeOK /\ UNCHANGED <<running, sock, attempt, done, failed>>
  BY <1>1 DEF connVars, ClusterInv
<1>3. Follows(link)
  BY <1>2, FollowsSelf DEF TypeOK, LinkSet
<1>4. /\ dbTimer' \in [GameServers -> BOOLEAN]
      /\ \E K : /\ Follows(K) /\ link' = Kept(K)
                /\ \A s \in Servers : Undisturbed(link, s) => Undisturbed(K, s)
  BY <1>1, <1>2, <1>3, GetDbInfoLinks
<1>5. PICK K : /\ Follows(K) /\ link' = Kept(K)
               /\ \A s \in Servers : Undisturbed(link, s) => Undisturbed(K, s)
  BY <1>4
<1>6. sock' \in [Conns -> 0 .. MaxLinks] /\ {} \in SUBSET Conns /\ \A c \in Conns \ {} :
         /\ sock'[c] = sock[c] /\ attempt'[c] = attempt[c]
         /\ running'[c] = running[c] /\ done'[c] = done[c]
  BY <1>2 DEF TypeOK
<1>7. /\ link' \in [Links -> Link \union {NoLink}]
      /\ LinkInv' /\ EntryInv' /\ TableExact'
      /\ \A c \in Conns \ {} : ConnOK(c)'
      /\ \A s \in Servers : ToCenter(s) \notin {} => CenterOK(s)'
      /\ \A s \in Servers : ToCenter(s) \notin {} /\ Undisturbed(K, s) /\ Registering(s) =>
            Registering(s)'
  BY <1>1, <1>5, <1>6, ServerFrame
<1>8. late' \in 0 .. MaxLate
  BY <1>1, <1>2, TimelyBound DEF TypeOK
<1>9. TypeOK'
  BY <1>1, <1>2, <1>4, <1>7, <1>8 DEF TypeOK
<1>10. Retried'
  BY <1>1, <1>2, <1>5, <1>7, UndisturbedSelf, ConnNames, RetriedFrame
<1>11. SockInv' /\ CenterInv'
  BY <1>7 DEF SockInv, CenterInv
<1> QED BY <1>7, <1>9, <1>10, <1>11 DEF ClusterInv

\* on_receive: a confirmation starts the timer, and any other message leaves the
\* confirmation of a registration where it is.
LEMMA ServerReceivesHolds ==
  ASSUME ClusterInv, NEW g \in GameServers, ServerReceives(g)
  PROVE  ClusterInv'
<1> DEFINE l == sock[ToCenter(g)]
           m == Head(link[l].down)
           L == [link EXCEPT ![l].down = Tail(@)]
<1>1. /\ running[ToCenter(g)] /\ link[l].down # <<>>
      /\ UNCHANGED <<running, failed, centerTimer, servers, faults, late>>
  BY DEF ServerReceives
<1>2. TypeOK /\ link \in [Links -> LinkSet] /\ ToCenter(g) \in Conns /\ g \in Servers
  BY ConnNames DEF ClusterInv, TypeOK, LinkSet
<1>3. l \in Links /\ link[l] \in Link
  <2>1. ConnOK(ToCenter(g))
    BY <1>2 DEF ClusterInv, SockInv
  <2> QED BY <1>1, <1>2, <2>1, SocketLink DEF ConnOK
<1>4. /\ Follows(L) /\ m \in Replies /\ L[l].ok = link[l].ok
      /\ Pending(link[l]) /\ m # Reply("registered", None) => Pending(L[l])
      /\ \A k \in Links : k # l => L[k] = link[k]
  BY <1>1, <1>2, <1>3, FollowsReceived
<1>5. ASSUME NEW s \in Servers, s # g \/ m # Reply("registered", None) PROVE Undisturbed(L, s)
  <2>1. ToCenter(s) \in Conns /\ ConnOK(ToCenter(s))
    BY ConnNames DEF ClusterInv, SockInv
  <2>2. CASE s = g
    BY <1>4, <1>5, <2>2 DEF Undisturbed
  <2>3. CASE s # g
    <3>1. ToCenter(s) # ToCenter(g)
      BY <1>2, <2>3, ConnNames
    <3>2. running[ToCenter(s)] => sock[ToCenter(s)] \in Links /\ sock[ToCenter(s)] # l
      <4> SUFFICES ASSUME running[ToCenter(s)]
                   PROVE  sock[ToCenter(s)] \in Links /\ sock[ToCenter(s)] # l
        OBVIOUS
      <4>1. sock[ToCenter(s)] # 0 /\ l # 0
        BY <1>3, <2>1 DEF ConnOK, Links
      <4>2. /\ sock[ToCenter(s)] \in Links /\ link[sock[ToCenter(s)]].conn = ToCenter(s)
            /\ link[l].conn = ToCenter(g)
        BY <1>2, <2>1, <4>1, SocketLink
      <4> QED BY <3>1, <4>2
    <3> QED BY <1>4, <3>2 DEF Undisturbed
  <2> QED BY <2>2, <2>3
<1>6. \/ /\ m.type = "registered"
         /\ UNCHANGED <<sock, attempt, done, dbInfo>>
         /\ ReconnectDb(g, L)
      \/ /\ m.db # None
         /\ OnGetDbInfo(g, m.db, L)
         /\ UNCHANGED infoTimer
      \/ /\ m.type = "info" /\ m.db = None
         /\ link' = L
         /\ UNCHANGED <<sock, attempt, done, dbTimer, infoTimer, dbInfo>>
  BY DEF ServerReceives
<1> HIDE DEF l, L, m
<1>7. m.type # "registered" \/ m.db # None => m # Reply("registered", None)
  BY DEF Reply
<1>8. {} \in SUBSET Conns
  OBVIOUS
<1>9. CASE /\ m.type = "registered"
           /\ UNCHANGED <<sock, attempt, done, dbInfo>>
           /\ ReconnectDb(g, L)
  <2>1. UNCHANGED running
    BY <1>1
  <2>2. /\ dbTimer' \in [GameServers -> BOOLEAN]
        /\ infoTimer' \in [GameServers -> BOOLEAN] /\ infoTimer'[g]
        /\ \A h \in GameServers : h # g => infoTimer'[h] = infoTimer[h]
        /\ \E K : /\ Follows(K) /\ link' = Kept(K)
                  /\ \A s \in Servers : Undisturbed(L, s) => Undisturbed(K, s)
    BY <1>4, <1>9, <2>1, ReconnectDbLinks
  <2>3. PICK K : /\ Follows(K) /\ link' = Kept(K)
                 /\ \A s \in Servers : Undisturbed(L, s) => Undisturbed(K, s)
    BY <2>2
  <2>4. sock' \in [Conns -> 0 .. MaxLinks] /\ \A c \in Conns \ {} :
           /\ sock'[c] = sock[c] /\ attempt'[c] = attempt[c]
           /\ running'[c] = running[c] /\ done'[c] = done[c]
    BY <1>1, <1>2, <1>9 DEF TypeOK
  <2>5. /\ link' \in [Links -> Link \union {NoLink}]
        /\ LinkInv' /\ EntryInv' /\ TableExact'
        /\ \A c \in Conns \ {} : ConnOK(c)'
        /\ \A s \in Servers : ToCenter(s) \notin {} => CenterOK(s)'
        /\ \A s \in Servers : ToCenter(s) \notin {} /\ Undisturbed(K, s) /\ Registering(s) =>
              Registering(s)'
    BY <1>1, <1>8, <2>3, <2>4, ServerFrame
  <2>6. TypeOK'
    BY <1>1, <1>2, <1>9, <2>2, <2>5 DEF TypeOK
  <2>7. \A h \in GameServers : Registering(h) /\ ~infoTimer'[h] => Registering(h)'
    BY <1>5, <2>2, <2>3, <2>5, ConnNames
  <2>8. Retried'
    BY <1>1, <2>2, <2>7, RetriedFrame
  <2>9. SockInv' /\ CenterInv'
    BY <2>5 DEF SockInv, CenterInv
  <2> QED BY <2>5, <2>6, <2>8, <2>9 DEF ClusterInv
<1>10. CASE /\ m.db # None
            /\ OnGetDbInfo(g, m.db, L)
            /\ UNCHANGED infoTimer
  <2>1. m.db \in DbServers
    BY <1>4, <1>10 DEF Replies, Addresses
  <2>2. /\ dbInfo' = [dbInfo EXCEPT ![g] = m.db]
        /\ dbTimer' = [dbTimer EXCEPT ![g] = TRUE]
        /\ AsyncConnect(ToDb(g), m.db, L)
    BY <1>10 DEF OnGetDbInfo
  <2>3. ToDb(g) \in Conns /\ ToDb(g) # ToCenter(ToDb(g)[1])
    BY ConnNames
  <2>4. PICK p : p = m.db
    OBVIOUS
  <2>5. /\ sock' \in [Conns -> 0 .. MaxLinks] /\ done' \in [Conns -> Seq(BOOLEAN)]
        /\ attempt' \in [Conns -> DbServers \union {Center, None}]
        /\ link' \in [Links -> Link \union {NoLink}]
        /\ SockInv' /\ CenterInv' /\ LinkInv' /\ EntryInv' /\ TableExact'
        /\ \A s \in Servers : Undisturbed(L, s) /\ Registering(s) => Registering(s)'
    BY <1>1, <1>4, <2>1, <2>2, <2>3, <2>4, AsyncConnects
  <2>6. TypeOK'
    <3>1. dbInfo' \in [GameServers -> Addresses] /\ dbTimer' \in [GameServers -> BOOLEAN]
      BY <1>2, <2>1, <2>2 DEF TypeOK, Addresses
    <3> QED BY <1>1, <1>2, <1>10, <2>5, <3>1 DEF TypeOK
  <2>7. \A s \in Servers : Undisturbed(L, s)
    BY <1>5, <1>7, <1>10
  <2>8. Retried'
    BY <1>1, <1>10, <2>5, <2>7, ConnNames, RetriedFrame
  <2> QED BY <2>5, <2>6, <2>8 DEF ClusterInv
<1>11. CASE /\ m.type = "info" /\ m.db = None
            /\ link' = L
            /\ UNCHANGED <<sock, attempt, done, dbTimer, infoTimer, dbInfo>>
  <2>1. sock' \in [Conns -> 0 .. MaxLinks] /\ \A c \in Conns \ {} :
           /\ sock'[c] = sock[c] /\ attempt'[c] = attempt[c]
           /\ running'[c] = running[c] /\ done'[c] = done[c]
    BY <1>1, <1>2, <1>11 DEF TypeOK
  <2>2. /\ link' \in [Links -> Link \union {NoLink}]
        /\ LinkInv' /\ EntryInv' /\ TableExact'
        /\ \A c \in Conns \ {} : ConnOK(c)'
        /\ \A s \in Servers : ToCenter(s) \notin {} => CenterOK(s)'
        /\ \A s \in Servers : ToCenter(s) \notin {} /\ Undisturbed(L, s) /\ Registering(s) =>
              Registering(s)'
    BY <1>1, <1>4, <1>8, <1>11, <2>1, ServerFrame
  <2>3. TypeOK'
    BY <1>1, <1>2, <1>11, <2>2 DEF TypeOK
  <2>4. m # Reply("registered", None)
    BY <1>7, <1>11
  <2>5. Retried'
    BY <1>1, <1>5, <1>11, <2>2, <2>4, ConnNames, RetriedFrame
  <2>6. SockInv' /\ CenterInv'
    BY <2>2 DEF SockInv, CenterInv
  <2> QED BY <2>2, <2>3, <2>5, <2>6 DEF ClusterInv
<1> QED BY <1>6, <1>9, <1>10, <1>11

\* handle_connect: a socket that is connected starts its connection, and on_connect
\* registers on it.
LEMMA HandleConnectHolds ==
  ASSUME ClusterInv, NEW c \in Conns, HandleConnect(c)
  PROVE  ClusterInv'
<1>1. /\ done[c] # <<>> /\ done' = [done EXCEPT ![c] = Tail(@)]
      /\ UNCHANGED <<sock, attempt, dbInfo, servers, faults, late>>
      /\ IF Head(done[c]) THEN OnConnect(c) ELSE UNCHANGED <<centerTimer, dbTimer, infoTimer, link>>
  BY DEF HandleConnect
<1>2. PICK started \in BOOLEAN :
         /\ sock[c] = 0 => ~started
         /\ sock[c] # 0 /\ link[sock[c]].ok => started
         /\ running' = [running EXCEPT ![c] = @ \/ started]
         /\ failed' = [failed EXCEPT ![c] = (@ \/ Head(done[c])) /\ ~started]
  BY DEF HandleConnect
<1>3. TypeOK /\ link \in [Links -> LinkSet]
  BY DEF ClusterInv, TypeOK, LinkSet
<1>4. /\ done[c] \in Seq(BOOLEAN) /\ Head(done[c]) \in BOOLEAN /\ Tail(done[c]) \in Seq(BOOLEAN)
      /\ Range(done[c]) \subseteq Range(Tail(done[c])) \union {Head(done[c])}
  <2>1. done[c] \in Seq(BOOLEAN)
    BY <1>3 DEF TypeOK
  <2> QED BY <1>1, <2>1, RangeTail
<1>5. /\ done' \in [Conns -> Seq(BOOLEAN)] /\ done'[c] = Tail(done[c])
      /\ \A d \in Conns \ {c} : done'[d] = done[d]
  BY <1>1, <1>3, <1>4 DEF TypeOK
<1>6. /\ running' \in [Conns -> BOOLEAN] /\ running'[c] = (running[c] \/ started)
      /\ \A d \in Conns \ {c} : running'[d] = running[d]
  BY <1>2, <1>3 DEF TypeOK
<1>7. /\ failed' \in [Conns -> BOOLEAN]
      /\ failed'[c] = ((failed[c] \/ Head(done[c])) /\ ~started)
      /\ \A d \in Conns \ {c} : failed'[d] = failed[d]
  BY <1>2, <1>3, <1>4 DEF TypeOK
<1>8. running[c] => sock[c] # 0
  BY DEF ClusterInv, SockInv, ConnOK
<1>9. sock[c] # 0 => sock[c] \in Links /\ link[sock[c]] \in Link
  BY SocketLink
<1>10. /\ Follows(link')
       /\ c = ToCenter(c[1]) /\ Head(done[c]) /\ running'[c] /\ link'[sock[c]].ok =>
             "register" \in Range(link'[sock[c]].up)
       /\ \A s \in Servers : ToCenter(s) # c => Undisturbed(link', s)
       /\ c = ToCenter(c[1]) /\ sock[c] # 0 /\ Pending(link[sock[c]]) => Pending(link'[sock[c]])
  <2>1. CASE link' = link /\ ~(c = ToCenter(c[1]) /\ Head(done[c]) /\ running'[c])
    BY <1>3, <2>1, FollowsSelf, UndisturbedSelf
  <2>2. CASE /\ link' = SentUp(link, sock[c], "register")
             /\ c = ToCenter(c[1]) /\ Head(done[c]) /\ running'[c]
    <3>1. sock[c] \in Links /\ link[sock[c]] \in Link /\ "register" \in Requests /\ Follows(link)
      BY <1>2, <1>3, <1>6, <1>8, <1>9, <2>2, FollowsSelf DEF Requests
    <3>2. /\ Follows(link') /\ link'[sock[c]].ok = link[sock[c]].ok
          /\ link[sock[c]].ok => "register" \in Range(link'[sock[c]].up)
          /\ Pending(link[sock[c]]) => Pending(link'[sock[c]])
          /\ \A k \in Links : k # sock[c] => link'[k] = link[k]
      BY <2>2, <3>1, FollowsSentUp
    <3>3. ASSUME NEW s \in Servers, ToCenter(s) # c PROVE Undisturbed(link', s)
      <4>1. ToCenter(s) \in Conns /\ ConnOK(ToCenter(s))
        BY ConnNames DEF ClusterInv, SockInv
      <4>2. ASSUME running[ToCenter(s)]
            PROVE  sock[ToCenter(s)] \in Links /\ sock[ToCenter(s)] # sock[c]
        <5>1. sock[ToCenter(s)] # 0 /\ sock[c] # 0
          BY <3>1, <4>1, <4>2 DEF ConnOK, Links
        <5>2. /\ sock[ToCenter(s)] \in Links /\ link[sock[ToCenter(s)]].conn = ToCenter(s)
              /\ link[sock[c]].conn = c
          BY <4>1, <5>1, SocketLink
        <5> QED BY <3>3, <5>2
      <4> QED BY <3>2, <4>2 DEF Undisturbed
    <3> QED BY <3>2, <3>3
  <2> QED BY <1>1, <2>1, <2>2 DEF OnConnect
<1>11. sock' \in [Conns -> 0 .. MaxLinks] /\ {c} \in SUBSET Conns /\ \A d \in Conns \ {c} :
          /\ sock'[d] = sock[d] /\ attempt'[d] = attempt[d]
          /\ running'[d] = running[d] /\ done'[d] = done[d]
  BY <1>1, <1>3, <1>5, <1>6 DEF TypeOK
<1>12. PICK K : K = link'
  OBVIOUS
<1>13. /\ link' \in [Links -> Link \union {NoLink}]
       /\ LinkInv' /\ EntryInv' /\ TableExact'
       /\ \A d \in Conns : sock[d] # 0 /\ sock'[d] = sock[d] =>
             Keeps(link[sock[d]], link'[sock[d]])
       /\ \A d \in Conns \ {c} : ConnOK(d)'
       /\ \A s \in Servers : ToCenter(s) \notin {c} => CenterOK(s)'
       /\ \A s \in Servers : ToCenter(s) \notin {c} /\ Undisturbed(K, s) /\ Registering(s) =>
             Registering(s)'
  BY <1>1, <1>10, <1>11, <1>12, ServerFrame
<1>14. sock[c] # 0 => SameEnds(link[sock[c]], link'[sock[c]])
  BY <1>1, <1>13 DEF Keeps
<1>15. ConnOK(c)'
  <2>1. ConnOK(c)
    BY DEF ClusterInv, SockInv
  <2> QED BY <1>1, <1>2, <1>6, <1>14, <2>1 DEF ConnOK, SameEnds
<1>16. CenterInv'
  <2> SUFFICES ASSUME NEW s \in Servers PROVE CenterOK(s)'
    BY DEF CenterInv
  <2>1. CASE ToCenter(s) = c
    <3>1. CenterOK(s)
      BY DEF ClusterInv, CenterInv
    <3> QED BY <1>1, <1>14, <2>1, <3>1, CenterFrame
  <2> QED BY <1>13, <2>1
<1>17. /\ centerTimer' \in [Servers -> BOOLEAN] /\ dbTimer' \in [GameServers -> BOOLEAN]
       /\ infoTimer' \in [GameServers -> BOOLEAN]
       /\ \A s \in Servers : ToCenter(s) # c \/ ~Head(done[c]) => centerTimer'[s] = centerTimer[s]
       /\ \A g \in GameServers : ToDb(g) # c \/ ~Head(done[c]) => infoTimer'[g] = infoTimer[g]
  <2>1. CASE ~Head(done[c])
    BY <1>1, <1>3, <2>1 DEF TypeOK
  <2>2. CASE Head(done[c]) /\ c = ToCenter(c[1])
    <3>1. c[1] \in Servers
      BY ConnKinds, ConnNames
    <3>2. centerTimer' = [centerTimer EXCEPT ![c[1]] = FALSE] /\ UNCHANGED <<dbTimer, infoTimer>>
      BY <1>1, <2>2 DEF OnConnect
    <3>3. \A s \in Servers : ToCenter(s) # c => s # c[1]
      BY <2>2
    <3> QED BY <1>3, <2>2, <3>1, <3>2, <3>3 DEF TypeOK
  <2>3. CASE Head(done[c]) /\ c # ToCenter(c[1])
    <3>1. c[1] \in GameServers /\ c = ToDb(c[1])
      BY <2>3, ConnKinds
    <3>2. /\ dbTimer' = [dbTimer EXCEPT ![c[1]] = FALSE] /\ UNCHANGED centerTimer
          /\ infoTimer' = [infoTimer EXCEPT ![c[1]] = FALSE]
      BY <1>1, <2>3 DEF OnConnect
    <3>3. \A g \in GameServers : ToDb(g) # c => g # c[1]
      BY <3>1
    <3> QED BY <1>3, <2>3, <3>1, <3>2, <3>3 DEF TypeOK
  <2> QED BY <1>4, <2>1, <2>2, <2>3
<1>18. TypeOK'
  BY <1>1, <1>3, <1>5, <1>6, <1>7, <1>13, <1>17 DEF TypeOK
<1>19. ASSUME NEW s \in Servers PROVE RetriedCenter(s)'
  <2>1. RetriedCenter(s) /\ ToCenter(s) \in Conns
    BY ConnNames, RetriedParts DEF ClusterInv
  <2>2. CASE ToCenter(s) = c
    <3>1. CASE Head(done[c])
      BY <1>6, <1>7, <2>2, <3>1 DEF RetriedCenter
    <3>2. CASE ~Head(done[c])
      <4>1. centerTimer'[s] = centerTimer[s]
        BY <1>17, <3>2
      <4> QED BY <1>6, <1>7, <2>1, <2>2, <4>1 DEF RetriedCenter
    <3> QED BY <1>4, <3>1, <3>2
  <2>3. CASE ToCenter(s) # c
    BY <1>6, <1>7, <1>17, <2>1, <2>3 DEF RetriedCenter
  <2> QED BY <2>2, <2>3
<1>20. ASSUME NEW g \in GameServers PROVE RetriedDb(g)'
  <2>1. RetriedDb(g) /\ ToDb(g) \in Conns /\ g \in Servers /\ ToCenter(g) \in Conns
    BY ConnNames, RetriedParts DEF ClusterInv
  <2>2. CASE ToDb(g) = c
    <3>1. CASE Head(done[c])
      BY <1>6, <1>7, <2>2, <3>1 DEF RetriedDb
    <3>2. CASE ~Head(done[c])
      <4>1. infoTimer'[g] = infoTimer[g] /\ ToCenter(g) # c
        BY <1>17, <2>1, <2>2, <3>2, ConnNames
      <4>2. Registering(g) => Registering(g)'
        BY <1>10, <1>12, <1>13, <2>1, <4>1
      <4> QED BY <1>6, <1>7, <2>1, <2>2, <4>1, <4>2 DEF RetriedDb
    <3> QED BY <1>4, <3>1, <3>2
  <2>3. CASE ToDb(g) # c
    <3>1. /\ infoTimer'[g] = infoTimer[g] /\ running'[ToDb(g)] = running[ToDb(g)]
          /\ failed'[ToDb(g)] = failed[ToDb(g)]
      BY <1>6, <1>7, <1>17, <2>1, <2>3
    <3>2. CASE ToCenter(g) # c
      <4>1. Registering(g) => Registering(g)'
        BY <1>10, <1>12, <1>13, <2>1, <3>2
      <4> QED BY <2>1, <3>1, <4>1 DEF RetriedDb
    <3>3. CASE ToCenter(g) = c
      <4>1. c = ToCenter(c[1])
        BY <2>1, <3>3, ConnNames
      <4>2. ASSUME Registering(g) PROVE Registering(g)'
        <5> SUFFICES ASSUME running'[c], link'[sock[c]].ok, TRUE \notin Range(done'[c])
                     PROVE  Pending(link'[sock[c]])
          BY <1>1, <3>3 DEF Registering, Pending
        <5>1. sock[c] # 0
          BY <1>2, <1>6, <1>8
        <5>2. CASE Head(done[c])
          BY <1>10, <4>1, <5>2 DEF Pending
        <5>3. CASE ~Head(done[c])
          <6>1. TRUE \notin Range(done[c])
            BY <1>4, <1>5, <5>3
          <6>2. link[sock[c]].ok
            BY <1>14, <5>1 DEF SameEnds
          <6>3. running[c]
            BY <5>1, <6>1, <6>2 DEF ClusterInv, SockInv, ConnOK
          <6>4. Pending(link[sock[c]])
            BY <3>3, <4>2, <6>1, <6>2, <6>3 DEF Registering, Pending
          <6> QED BY <1>10, <4>1, <5>1, <6>4
        <5> QED BY <1>4, <5>2, <5>3
      <4> QED BY <2>1, <3>1, <4>2 DEF RetriedDb
    <3> QED BY <3>2, <3>3
  <2> QED BY <2>2, <2>3
<1>21. Retried'
  BY <1>19, <1>20 DEF Retried, RetriedCenter, RetriedDb
<1>22. SockInv'
  BY <1>13, <1>15 DEF SockInv
<1> QED BY <1>13, <1>16, <1>18, <1>21, <1>22 DEF ClusterInv

\* on_error and on_disconnect of a server: the timer of the connection is started.
LEMMA ConnectionLostHolds ==
  ASSUME ClusterInv, NEW c \in Conns, ConnectionLost(c)
  PROVE  ClusterInv'
<1>1. /\ running[c] /\ ~link[sock[c]].ok
      /\ running' = [running EXCEPT ![c] = FALSE]
      /\ UNCHANGED <<sock, servers, attempt, done, failed, dbInfo, faults, late>>
  BY DEF ConnectionLost
<1>2. TypeOK /\ link \in [Links -> LinkSet] /\ Follows(link)
  BY FollowsSelf DEF ClusterInv, TypeOK, LinkSet
<1>3. /\ running' \in [Conns -> BOOLEAN] /\ ~running'[c]
      /\ \A d \in Conns \ {c} : running'[d] = running[d]
  BY <1>1, <1>2 DEF TypeOK
<1>4. sock[c] # 0 /\ sock[c] \in Links /\ link[sock[c]] \in Link
  <2>1. ConnOK(c)
    BY DEF ClusterInv, SockInv
  <2> QED BY <1>1, <2>1, SocketLink DEF ConnOK
<1>5. /\ centerTimer' \in [Servers -> BOOLEAN] /\ dbTimer' \in [GameServers -> BOOLEAN]
      /\ infoTimer' \in [GameServers -> BOOLEAN]
      /\ \A s \in Servers : (ToCenter(s) = c => centerTimer'[s])
                            /\ (ToCenter(s) # c => centerTimer'[s] = centerTimer[s])
      /\ \A g \in GameServers : (ToDb(g) = c => infoTimer'[g])
                                /\ (ToDb(g) # c => infoTimer'[g] = infoTimer[g])
      /\ \E K : /\ Follows(K) /\ (link' = K \/ link' = Kept(K))
                /\ \A s \in Servers : ToCenter(s) # c => Undisturbed(K, s)
  <2>1. CASE c = ToCenter(c[1])
    <3>1. c[1] \in Servers
      BY ConnKinds
    <3>2. /\ centerTimer' = [centerTimer EXCEPT ![c[1]] = TRUE]
          /\ link' = [link EXCEPT ![sock[c]].down = <<>>]
          /\ UNCHANGED <<dbTimer, infoTimer>>
      BY <2>1 DEF ConnectionLost
    <3> DEFINE j == [link[sock[c]] EXCEPT !.down = <<>>]
    <3>3. <<>> \in Seq(Replies)
      OBVIOUS
    <3>4. Keeps(link[sock[c]], j)
      BY <1>4, <3>3, DownChanged
    <3>5. link' = [link EXCEPT ![sock[c]] = j]
      BY <3>2
    <3> HIDE DEF j
    <3>6. Follows(link') /\ \A k \in Links : k # sock[c] => link'[k] = link[k]
      BY <1>2, <1>4, <3>4, <3>5, FollowsExcept
    <3>7. ASSUME NEW s \in Servers, ToCenter(s) # c PROVE Undisturbed(link', s)
      <4>1. ToCenter(s) \in Conns /\ ConnOK(ToCenter(s))
        BY ConnNames DEF ClusterInv, SockInv
      <4>2. ASSUME running[ToCenter(s)]
            PROVE  sock[ToCenter(s)] \in Links /\ sock[ToCenter(s)] # sock[c]
        <5>1. sock[ToCenter(s)] # 0
          BY <4>1, <4>2 DEF ConnOK
        <5>2. /\ sock[ToCenter(s)] \in Links /\ link[sock[ToCenter(s)]].conn = ToCenter(s)
              /\ link[sock[c]].conn = c
          BY <1>4, <4>1, <5>1, SocketLink
        <5> QED BY <3>7, <5>2
      <4> QED BY <3>6, <4>2 DEF Undisturbed
    <3>8. \A s \in Servers : (ToCenter(s) = c => s = c[1]) /\ (ToCenter(s) # c => s # c[1])
      BY <2>1, <3>1, ConnNames
    <3>9. \A g \in GameServers : ToDb(g) # c
      BY <2>1, <3>1, ConnNames
    <3>10. /\ centerTimer' \in [Servers -> BOOLEAN]
           /\ \A s \in Servers : (ToCenter(s) = c => centerTimer'[s])
                                 /\ (ToCenter(s) # c => centerTimer'[s] = centerTimer[s])
      BY <1>2, <3>1, <3>2, <3>8 DEF TypeOK
    <3> QED BY <1>2, <3>2, <3>6, <3>7, <3>9, <3>10 DEF TypeOK
  <2>2. CASE c # ToCenter(c[1])
    <3>1. c[1] \in GameServers /\ c[1] \in Servers /\ c = ToDb(c[1])
      BY <2>2, ConnKinds
    <3>2. ReconnectDb(c[1], link) /\ UNCHANGED centerTimer
      BY <2>2 DEF ConnectionLost
    <3>3. running'[ToCenter(c[1])] = running[ToCenter(c[1])]
      BY <1>3, <2>2, <3>1, ConnNames
    <3>4. /\ dbTimer' \in [GameServers -> BOOLEAN]
          /\ infoTimer' \in [GameServers -> BOOLEAN] /\ infoTimer'[c[1]]
          /\ \A h \in GameServers : h # c[1] => infoTimer'[h] = infoTimer[h]
          /\ \E K : /\ Follows(K) /\ link' = Kept(K)
                    /\ \A s \in Servers : Undisturbed(link, s) => Undisturbed(K, s)
      BY <1>2, <3>1, <3>2, <3>3, ReconnectDbLinks
    <3>5. \A g \in GameServers : (ToDb(g) = c => g = c[1]) /\ (ToDb(g) # c => g # c[1])
      BY <3>1, ConnNames
    <3>6. \A s \in Servers : ToCenter(s) # c
      BY <3>1, ConnNames
    <3>7. \E K : /\ Follows(K) /\ (link' = K \/ link' = Kept(K))
                 /\ \A s \in Servers : ToCenter(s) # c => Undisturbed(K, s)
      BY <3>4, UndisturbedSelf
    <3> QED BY <1>2, <3>2, <3>4, <3>5, <3>6, <3>7 DEF TypeOK
  <2> QED BY <2>1, <2>2
<1>6. PICK K : /\ Follows(K) /\ (link' = K \/ link' = Kept(K))
               /\ \A s \in Servers : ToCenter(s) # c => Undisturbed(K, s)
  BY <1>5
<1>7. sock' \in [Conns -> 0 .. MaxLinks] /\ {c} \in SUBSET Conns /\ \A d \in Conns \ {c} :
         /\ sock'[d] = sock[d] /\ attempt'[d] = attempt[d]
         /\ running'[d] = running[d] /\ done'[d] = done[d]
  BY <1>1, <1>2, <1>3 DEF TypeOK
<1>8. /\ link' \in [Links -> Link \union {NoLink}]
      /\ LinkInv' /\ EntryInv' /\ TableExact'
      /\ \A d \in Conns : sock[d] # 0 /\ sock'[d] = sock[d] =>
            Keeps(link[sock[d]], link'[sock[d]])
      /\ \A d \in Conns \ {c} : ConnOK(d)'
      /\ \A s \in Servers : ToCenter(s) \notin {c} => CenterOK(s)'
      /\ \A s \in Servers : ToCenter(s) \notin {c} /\ Undisturbed(K, s) /\ Registering(s) =>
            Registering(s)'
  BY <1>1, <1>6, <1>7, ServerFrame
<1>9. SameEnds(link[sock[c]], link'[sock[c]])
  BY <1>1, <1>4, <1>8 DEF Keeps
<1>10. SockInv'
  <2>1. ConnOK(c)
    BY DEF ClusterInv, SockInv
  <2>2. ConnOK(c)'
    BY <1>1, <1>3, <1>9, <2>1 DEF ConnOK, SameEnds
  <2> QED BY <1>8, <2>2 DEF SockInv
<1>11. CenterInv'
  <2> SUFFICES ASSUME NEW s \in Servers PROVE CenterOK(s)'
    BY DEF CenterInv
  <2>1. CASE ToCenter(s) = c
    <3>1. CenterOK(s)
      BY DEF ClusterInv, CenterInv
    <3> QED BY <1>1, <1>9, <2>1, <3>1, CenterFrame
  <2> QED BY <1>8, <2>1
<1>12. TypeOK'
  BY <1>1, <1>2, <1>3, <1>5, <1>8 DEF TypeOK
<1>13. ASSUME NEW s \in Servers PROVE RetriedCenter(s)'
  <2>1. RetriedCenter(s) /\ ToCenter(s) \in Conns
    BY ConnNames, RetriedParts DEF ClusterInv
  <2> QED BY <1>1, <1>3, <1>5, <2>1 DEF RetriedCenter
<1>14. ASSUME NEW g \in GameServers PROVE RetriedDb(g)'
  <2>1. RetriedDb(g) /\ ToDb(g) \in Conns /\ g \in Servers /\ ToCenter(g) \in Conns
    BY ConnNames, RetriedParts DEF ClusterInv
  <2>2. Registering(g) => Registering(g)'
    <3>1. CASE ToCenter(g) = c
      BY <1>3, <3>1 DEF Registering
    <3>2. CASE ToCenter(g) # c
      BY <1>6, <1>8, <2>1, <3>2
    <3> QED BY <3>1, <3>2
  <2> QED BY <1>1, <1>3, <1>5, <2>1, <2>2 DEF RetriedDb
<1>15. Retried'
  BY <1>13, <1>14 DEF Retried, RetriedCenter, RetriedDb
<1> QED BY <1>8, <1>10, <1>11, <1>12, <1>15 DEF ClusterInv

\* An attempt fails, or is cut off: the timers go on.
LEMMA AttemptFailsHolds ==
  ASSUME ClusterInv, NEW c \in Conns, AttemptFails(c)
  PROVE  ClusterInv'
<1>1. /\ Fault /\ attempt[c] # None /\ attempt' = [attempt EXCEPT ![c] = None]
      /\ done' = [done EXCEPT ![c] = Append(@, FALSE)]
      /\ UNCHANGED <<running, sock, failed, timerVars, link, servers>>
  BY DEF AttemptFails
<1>2. TypeOK /\ link \in [Links -> LinkSet] /\ Follows(link)
  BY FollowsSelf DEF ClusterInv, TypeOK, LinkSet
<1>3. /\ attempt' \in [Conns -> DbServers \union {Center, None}] /\ attempt'[c] = None
      /\ done' \in [Conns -> Seq(BOOLEAN)] /\ Range(done'[c]) = Range(done[c]) \union {FALSE}
      /\ \A d \in Conns \ {c} : attempt'[d] = attempt[d] /\ done'[d] = done[d]
  <2>1. done[c] \in Seq(BOOLEAN)
    BY <1>2 DEF TypeOK
  <2>2. PICK b \in BOOLEAN : b = FALSE
    OBVIOUS
  <2>3. Append(done[c], b) \in Seq(BOOLEAN) /\ Range(Append(done[c], b)) = Range(done[c]) \union {b}
    BY <2>1, RangeAppend
  <2> QED BY <1>1, <1>2, <2>2, <2>3 DEF TypeOK
<1>4. sock' \in [Conns -> 0 .. MaxLinks] /\ {c} \in SUBSET Conns /\ \A d \in Conns \ {c} :
         /\ sock'[d] = sock[d] /\ attempt'[d] = attempt[d]
         /\ running'[d] = running[d] /\ done'[d] = done[d]
  BY <1>1, <1>2, <1>3 DEF TypeOK
<1>5. /\ link' \in [Links -> Link \union {NoLink}]
      /\ LinkInv' /\ EntryInv' /\ TableExact'
      /\ \A d \in Conns \ {c} : ConnOK(d)'
      /\ \A s \in Servers : ToCenter(s) \notin {c} => CenterOK(s)'
      /\ \A s \in Servers : ToCenter(s) \notin {c} /\ Undisturbed(link, s) /\ Registering(s) =>
            Registering(s)'
  BY <1>1, <1>2, <1>4, ServerFrame
<1>6. SockInv'
  <2>1. ConnOK(c)
    BY DEF ClusterInv, SockInv
  <2>2. ConnOK(c)'
    BY <1>1, <1>3, <2>1 DEF ConnOK
  <2> QED BY <1>5, <2>2 DEF SockInv
<1>7. CenterInv'
  <2> SUFFICES ASSUME NEW s \in Servers PROVE CenterOK(s)'
    BY DEF CenterInv
  <2>1. CenterOK(s)
    BY DEF ClusterInv, CenterInv
  <2> QED BY <1>1, <1>3, <1>5, <2>1 DEF CenterOK
<1>8. TypeOK'
  BY <1>1, <1>2, <1>3, <1>5, FaultBound DEF TypeOK, timerVars
<1>9. ASSUME NEW g \in GameServers, Registering(g) PROVE Registering(g)'
  <2>1. CASE ToCenter(g) = c
    BY <1>1, <1>3, <1>9, <2>1 DEF Registering
  <2> QED BY <1>5, <1>9, <2>1, UndisturbedSelf, ConnNames
<1>10. Retried'
  BY <1>1, <1>9, RetriedFrame DEF timerVars
<1> QED BY <1>5, <1>6, <1>7, <1>8, <1>10 DEF ClusterInv

\* A link breaks, which none of its ends has noticed yet.
LEMMA LinkBreaksHolds ==
  ASSUME ClusterInv, NEW l \in Links, LinkBreaks(l)
  PROVE  ClusterInv'
<1>1. /\ Fault /\ link[l] # NoLink /\ link' = Broken(link, l)
      /\ UNCHANGED <<connVars, timerVars, servers>>
  BY DEF LinkBreaks
<1>2. TypeOK /\ link \in [Links -> LinkSet] /\ Follows(link)
  BY FollowsSelf DEF ClusterInv, TypeOK, LinkSet
<1>3. UNCHANGED <<running, sock, attempt, done, failed>>
  BY <1>1 DEF connVars
<1>4. /\ Follows(link') /\ ~link'[l].ok
      /\ \A k \in Links : k # l => link'[k] = link[k]
  <2>1. MaxLinks \in Nat /\ l \in 1 .. MaxLinks
    BY ClusterAssumption DEF Links
  <2>2. l \in 0 .. MaxLinks /\ l # 0 /\ link[l] \in Link
    BY <1>1, <1>2, <2>1, LinkKinds
  <2> QED BY <1>1, <1>2, <2>2, FollowsBroken
<1>5. PICK K : K = link'
  OBVIOUS
<1>6. sock' \in [Conns -> 0 .. MaxLinks] /\ {} \in SUBSET Conns /\ \A d \in Conns \ {} :
         /\ sock'[d] = sock[d] /\ attempt'[d] = attempt[d]
         /\ running'[d] = running[d] /\ done'[d] = done[d]
  BY <1>2, <1>3 DEF TypeOK
<1>7. /\ link' \in [Links -> Link \union {NoLink}]
      /\ LinkInv' /\ EntryInv' /\ TableExact'
      /\ \A d \in Conns \ {} : ConnOK(d)'
      /\ \A s \in Servers : ToCenter(s) \notin {} => CenterOK(s)'
      /\ \A s \in Servers : ToCenter(s) \notin {} /\ Undisturbed(K, s) /\ Registering(s) =>
            Registering(s)'
  BY <1>1, <1>4, <1>5, <1>6, ServerFrame
<1>8. ASSUME NEW s \in Servers PROVE Undisturbed(K, s)
  <2>1. ToCenter(s) \in Conns /\ ConnOK(ToCenter(s))
    BY ConnNames DEF ClusterInv, SockInv
  <2>2. running[ToCenter(s)] => sock[ToCenter(s)] \in Links
    BY <2>1, SocketLink DEF ConnOK
  <2> QED BY <1>4, <1>5, <2>2 DEF Undisturbed
<1>9. TypeOK'
  BY <1>1, <1>2, <1>3, <1>7, FaultBound DEF TypeOK, timerVars
<1>10. Retried'
  BY <1>1, <1>3, <1>7, <1>8, ConnNames, RetriedFrame DEF timerVars
<1>11. SockInv' /\ CenterInv'
  BY <1>7 DEF SockInv, CenterInv
<1> QED BY <1>7, <1>9, <1>10, <1>11 DEF ClusterInv

\* An attempt succeeds: a link that nobody knew of.
LEMMA AttemptSucceedsHolds ==
  ASSUME ClusterInv, NEW c \in Conns, AttemptSucceeds(c)
  PROVE  ClusterInv'
<1> DEFINE fresh == [conn |-> c, peer |-> attempt[c], ok |-> TRUE, accepted |-> attempt[c] = Center,
                     up |-> <<>>, down |-> <<>>, regs |-> 0]
<1>1. /\ attempt[c] # None /\ attempt' = [attempt EXCEPT ![c] = None]
      /\ done' = [done EXCEPT ![c] = Append(@, TRUE)]
      /\ UNCHANGED <<running, failed, timerVars, servers, faults, late>>
  BY DEF AttemptSucceeds
<1>2. PICK l \in Links : /\ link[l] = NoLink /\ sock' = [sock EXCEPT ![c] = l]
                         /\ link' = [link EXCEPT ![l] = fresh]
  BY DEF AttemptSucceeds
<1>3. TypeOK /\ link \in [Links -> LinkSet] /\ NoLink.peer # Center /\ NoLink \notin Link
  <2>1. NoLink.peer # Center
    BY ClusterAssumption DEF NoLink
  <2>2. NoLink \in LinkSet
    BY DEF LinkSet
  <2> QED BY <2>1, <2>2, LinkKinds DEF ClusterInv, TypeOK, LinkSet
<1>4. /\ fresh \in Link /\ fresh.conn = c /\ fresh.peer = attempt[c] /\ fresh.regs = 0
      /\ fresh.accepted = (attempt[c] = Center) /\ fresh.ok
  <2>1. attempt[c] \in DbServers \union {Center}
    BY <1>1, <1>3 DEF TypeOK
  <2>2. <<>> \in Seq(Requests) /\ <<>> \in Seq(Replies) /\ 0 \in Nat
    OBVIOUS
  <2> QED BY <2>1, <2>2 DEF Link
<1> HIDE DEF fresh
<1>5. /\ link' \in [Links -> Link \union {NoLink}] /\ link'[l] = fresh
      /\ \A k \in Links : k # l => link'[k] = link[k]
  BY <1>2, <1>3, <1>4 DEF LinkSet
<1>6. /\ sock' \in [Conns -> 0 .. MaxLinks] /\ sock'[c] = l /\ l # 0
      /\ \A d \in Conns \ {c} : sock'[d] = sock[d]
  <2>1. MaxLinks \in Nat /\ l \in 1 .. MaxLinks
    BY ClusterAssumption DEF Links
  <2>2. l \in 0 .. MaxLinks /\ l # 0
    BY <2>1
  <2> QED BY <1>2, <1>3, <2>2 DEF TypeOK
<1>7. /\ attempt' \in [Conns -> DbServers \union {Center, None}] /\ attempt'[c] = None
      /\ done' \in [Conns -> Seq(BOOLEAN)] /\ TRUE \in Range(done'[c])
      /\ \A d \in Conns \ {c} : attempt'[d] = attempt[d] /\ done'[d] = done[d]
  <2>1. done[c] \in Seq(BOOLEAN)
    BY <1>3 DEF TypeOK
  <2>2. PICK b \in BOOLEAN : b = TRUE
    OBVIOUS
  <2>3. Append(done[c], b) \in Seq(BOOLEAN) /\ Range(Append(done[c], b)) = Range(done[c]) \union {b}
    BY <2>1, RangeAppend
  <2> QED BY <1>1, <1>3, <2>2, <2>3 DEF TypeOK
<1>8. ASSUME NEW u \in Uids PROVE l \notin Range(servers[u])
  BY <1>2, <1>3 DEF ClusterInv, EntryInv
<1>9. LinkInv'
  BY <1>4, <1>5 DEF ClusterInv, LinkInv
<1>10. EntryInv'
  <2> SUFFICES ASSUME NEW u \in Uids, NEW k \in Range(servers[u])
               PROVE  link'[k].peer = Center /\ Uid(link'[k].conn[1]) = u
    BY <1>1 DEF EntryInv
  <2>1. servers[u] \in Seq(Links)
    BY <1>3 DEF TypeOK
  <2>2. k \in Links /\ k # l
    BY <1>8, <2>1, RangeOfSeq
  <2> QED BY <1>5, <2>2 DEF ClusterInv, EntryInv
<1>11. TableExact'
  <2> SUFFICES ASSUME NEW k \in Links, link'[k] # NoLink, link'[k].peer = Center
               PROVE  Cardinality({i \in DOMAIN servers'[Uid(link'[k].conn[1])] :
                                      servers'[Uid(link'[k].conn[1])][i] = k})
                        = IF link'[k].accepted \/ link'[k].regs = 0
                          THEN link'[k].regs ELSE link'[k].regs - 1
    BY DEF TableExact
  <2>1. CASE k = l
    <3>1. link'[k].conn = c /\ link'[k].regs = 0
      BY <1>4, <1>5, <2>1
    <3>2. Uid(c[1]) \in Uids
      BY ConnKinds DEF Uid, Uids, Servers
    <3>3. servers[Uid(c[1])] \in Seq(Links) /\ l \notin Range(servers[Uid(c[1])])
      BY <1>3, <1>8, <3>2 DEF TypeOK
    <3>4. Cardinality(Entries(servers[Uid(c[1])], l)) = 0
      BY <3>3, EntriesNat
    <3> QED BY <1>1, <2>1, <3>1, <3>4 DEF Entries
  <2>2. CASE k # l
    BY <1>1, <1>5, <2>2 DEF ClusterInv, TableExact
  <2> QED BY <2>1, <2>2
<1>12. \A d \in Conns \ {c} : sock[d] # 0 => link'[sock[d]] = link[sock[d]] /\ link[sock[d]] \in Link
  <2> SUFFICES ASSUME NEW d \in Conns \ {c}, sock[d] # 0
               PROVE  link'[sock[d]] = link[sock[d]] /\ link[sock[d]] \in Link
    OBVIOUS
  <2>1. sock[d] \in Links /\ link[sock[d]] \in Link
    BY SocketLink
  <2>2. sock[d] # l
    BY <1>2, <1>3, <2>1
  <2> QED BY <1>5, <2>1, <2>2
<1>13. ~running[c]
  BY <1>1 DEF ClusterInv, SockInv, ConnOK
<1>14. SockInv'
  <2> SUFFICES ASSUME NEW d \in Conns PROVE ConnOK(d)'
    BY DEF SockInv
  <2>1. CASE d = c
    BY <1>1, <1>4, <1>5, <1>6, <1>7, <1>13, <2>1 DEF ConnOK
  <2>2. CASE d # c
    <3>1. ConnOK(d) /\ (sock[d] # 0 => SameEnds(link[sock[d]], link'[sock[d]]))
      BY <1>12, <2>2 DEF ClusterInv, SockInv, SameEnds
    <3> QED BY <1>1, <1>6, <1>7, <2>2, <3>1, ConnFrame
  <2> QED BY <2>1, <2>2
<1>15. CenterInv'
  <2> SUFFICES ASSUME NEW s \in Servers PROVE CenterOK(s)'
    BY DEF CenterInv
  <2>1. CenterOK(s) /\ ToCenter(s) \in Conns
    BY ConnNames DEF ClusterInv, CenterInv
  <2>2. CASE ToCenter(s) = c
    BY <1>1, <1>4, <1>5, <1>6, <1>7, <2>1, <2>2 DEF CenterOK
  <2>3. CASE ToCenter(s) # c
    BY <1>6, <1>7, <1>12, <2>1, <2>3 DEF CenterOK
  <2> QED BY <2>2, <2>3
<1>16. TypeOK'
  BY <1>1, <1>3, <1>5, <1>6, <1>7 DEF TypeOK, timerVars
<1>17. ASSUME NEW g \in GameServers, Registering(g) PROVE Registering(g)'
  <2>1. g \in Servers /\ ToCenter(g) \in Conns /\ ConnOK(ToCenter(g))
    BY ConnNames DEF ClusterInv, SockInv
  <2>2. CASE ToCenter(g) = c
    BY <1>1, <1>13, <2>2 DEF Registering
  <2>3. CASE ToCenter(g) # c
    <3>1. running[ToCenter(g)] => link'[sock[ToCenter(g)]] = link[sock[ToCenter(g)]]
                                  /\ link[sock[ToCenter(g)]] \in Link
      BY <1>12, <2>1, <2>3 DEF ConnOK
    <3> QED BY <1>1, <1>6, <1>7, <1>17, <2>1, <2>3, <3>1, RegisteringFrame DEF SameEnds
  <2> QED BY <2>2, <2>3
<1>18. Retried'
  BY <1>1, <1>17, RetriedFrame DEF timerVars
<1> QED BY <1>9, <1>10, <1>11, <1>14, <1>15, <1>16, <1>18 DEF ClusterInv

\* A server is started again: what it knew is gone, and its links are broken.
LEMMA ServerRestartsHolds ==
  ASSUME ClusterInv, NEW s \in Servers, ServerRestarts(s)
  PROVE  ClusterInv'
<1> DEFINE T == {c \in Conns : c[1] = s}
           L == [l \in Links |-> IF link[l] = NoLink THEN NoLink
                                 ELSE IF link[l].peer = s \/ link[l].conn[1] = s
                                      THEN [link[l] EXCEPT !.ok = FALSE]
                                 ELSE link[l]]
<1>1. TypeOK /\ link \in [Links -> LinkSet] /\ ToCenter(s) \in Conns /\ ToCenter(s) \in T
  BY ConnNames DEF ClusterInv, TypeOK, LinkSet
<1>2. /\ Fault
      /\ running' = [c \in Conns |-> IF c[1] = s THEN FALSE ELSE running[c]]
      /\ failed' = [c \in Conns |-> IF c[1] = s THEN FALSE ELSE failed[c]]
      /\ sock' = [c \in Conns |-> IF c[1] = s THEN 0 ELSE sock[c]]
      /\ done' = [c \in Conns |-> IF c[1] = s THEN <<>> ELSE done[c]]
      /\ attempt' = [[c \in Conns |-> IF c[1] = s THEN None ELSE attempt[c]]
                        EXCEPT ![ToCenter(s)] = Center]
      /\ centerTimer' = [centerTimer EXCEPT ![s] = TRUE]
      /\ dbTimer' = [g \in GameServers |-> IF g = s THEN FALSE ELSE dbTimer[g]]
      /\ infoTimer' = [g \in GameServers |-> IF g = s THEN FALSE ELSE infoTimer[g]]
      /\ dbInfo' = [g \in GameServers |-> IF g = s THEN None ELSE dbInfo[g]]
      /\ servers' = servers
      /\ link' = Kept(L)
  BY DEF ServerRestarts
<1>3. /\ running' \in [Conns -> BOOLEAN] /\ failed' \in [Conns -> BOOLEAN]
      /\ \A c \in T : ~running'[c]
      /\ \A c \in Conns \ T : running'[c] = running[c] /\ failed'[c] = failed[c]
  BY <1>1, <1>2 DEF TypeOK
<1>4. /\ sock' \in [Conns -> 0 .. MaxLinks] /\ \A c \in T : sock'[c] = 0
      /\ \A c \in Conns \ T : sock'[c] = sock[c]
  <2>1. 0 \in 0 .. MaxLinks
    BY ClusterAssumption
  <2> QED BY <1>1, <1>2, <2>1 DEF TypeOK
<1>5. done' \in [Conns -> Seq(BOOLEAN)] /\ \A c \in Conns \ T : done'[c] = done[c]
  <2>1. <<>> \in Seq(BOOLEAN)
    OBVIOUS
  <2> QED BY <1>1, <1>2, <2>1 DEF TypeOK
<1>6. /\ attempt' \in [Conns -> DbServers \union {Center, None}] /\ attempt'[ToCenter(s)] = Center
      /\ \A c \in Conns \ T : attempt'[c] = attempt[c]
  BY <1>1, <1>2 DEF TypeOK
<1>7. /\ centerTimer' \in [Servers -> BOOLEAN] /\ centerTimer'[s]
      /\ \A t \in Servers : t # s => centerTimer'[t] = centerTimer[t]
  BY <1>1, <1>2 DEF TypeOK
<1>8. /\ dbTimer' \in [GameServers -> BOOLEAN] /\ infoTimer' \in [GameServers -> BOOLEAN]
      /\ dbInfo' \in [GameServers -> Addresses]
      /\ \A g \in GameServers : g # s => infoTimer'[g] = infoTimer[g]
  BY <1>1, <1>2 DEF TypeOK, Addresses
<1>9. Follows(L) /\ \A l \in Links : L[l] = link[l] \/ ~L[l].ok
  <2>1. ASSUME NEW l \in Links
        PROVE  /\ (link[l] = NoLink /\ L[l] = NoLink) \/ Keeps(link[l], L[l])
               /\ L[l] = link[l] \/ ~L[l].ok
    <3>1. CASE link[l] = NoLink
      BY <3>1
    <3>2. CASE link[l] # NoLink
      <4>1. link[l] \in Link
        BY <1>1, <3>2, LinkKinds
      <4>2. Keeps(link[l], link[l])
        BY <4>1 DEF Keeps, SameEnds
      <4>3. Keeps(link[l], [link[l] EXCEPT !.ok = FALSE]) /\ ~[link[l] EXCEPT !.ok = FALSE].ok
        BY <4>1, BrokenLink
      <4>4. L[l] = link[l] \/ L[l] = [link[l] EXCEPT !.ok = FALSE]
        OBVIOUS
      <4> HIDE DEF L
      <4> QED BY <4>2, <4>3, <4>4
    <3> QED BY <3>1, <3>2
  <2>2. \A l \in Links : L[l] \in LinkSet
    BY <2>1 DEF Keeps, SameEnds, LinkSet
  <2>3. L \in [Links -> LinkSet]
    BY <2>2
  <2> QED BY <2>1, <2>3 DEF Follows
<1>10. T \in SUBSET Conns
  OBVIOUS
<1>11. \A t \in Servers : ToCenter(t) \in T <=> t = s
  BY <1>1, ConnNames
<1>12. \A g \in GameServers : ToDb(g) \in T <=> g = s
  BY ConnNames
<1> HIDE DEF T, L
<1>13. /\ link' \in [Links -> Link \union {NoLink}]
       /\ LinkInv' /\ EntryInv' /\ TableExact'
       /\ \A c \in Conns \ T : ConnOK(c)'
       /\ \A t \in Servers : ToCenter(t) \notin T => CenterOK(t)'
       /\ \A t \in Servers : ToCenter(t) \notin T /\ Undisturbed(L, t) /\ Registering(t) =>
             Registering(t)'
  BY <1>2, <1>3, <1>4, <1>5, <1>6, <1>9, <1>10, ServerFrame
<1>14. SockInv'
  <2>1. ASSUME NEW c \in T PROVE ConnOK(c)'
    BY <1>3, <1>4, <2>1 DEF ConnOK
  <2> QED BY <1>13, <2>1 DEF SockInv
<1>15. CenterInv'
  <2>1. CenterOK(s)'
    BY <1>1, <1>4, <1>6 DEF CenterOK
  <2> QED BY <1>11, <1>13, <2>1 DEF CenterInv
<1>16. TypeOK'
  BY <1>1, <1>2, <1>3, <1>4, <1>5, <1>6, <1>7, <1>8, <1>13, FaultBound DEF TypeOK
<1>17. ASSUME NEW t \in Servers PROVE Undisturbed(L, t)
  <2>1. ToCenter(t) \in Conns /\ ConnOK(ToCenter(t))
    BY ConnNames DEF ClusterInv, SockInv
  <2>2. running[ToCenter(t)] => sock[ToCenter(t)] \in Links
    BY <2>1, SocketLink DEF ConnOK
  <2> QED BY <1>9, <2>2 DEF Undisturbed
<1>18. ASSUME NEW t \in Servers PROVE RetriedCenter(t)'
  <2>1. RetriedCenter(t) /\ ToCenter(t) \in Conns
    BY ConnNames, RetriedParts DEF ClusterInv
  <2> QED BY <1>3, <1>7, <1>11, <2>1 DEF RetriedCenter
<1>19. ASSUME NEW g \in GameServers PROVE RetriedDb(g)'
  <2>1. RetriedDb(g) /\ ToDb(g) \in Conns /\ g \in Servers
    BY ConnNames, RetriedParts DEF ClusterInv
  <2>2. CASE g = s
    BY <1>1, <1>3, <2>2 DEF RetriedDb, Registering
  <2>3. CASE g # s
    <3>1. Registering(g) => Registering(g)'
      BY <1>11, <1>13, <1>17, <2>1, <2>3
    <3> QED BY <1>3, <1>8, <1>12, <2>1, <2>3, <3>1 DEF RetriedDb
  <2> QED BY <2>2, <2>3
<1>20. Retried'
  BY <1>18, <1>19 DEF Retried, RetriedCenter, RetriedDb
<1> QED BY <1>13, <1>14, <1>15, <1>16, <1>20 DEF ClusterInv

-----------------------------------------------------------------------------
(* The steps of the center *)

\* A step of the center leaves the connections of the servers alone.
LEMMA CenterSideFrame ==
  ASSUME ClusterInv, UNCHANGED <<connVars, timerVars>>,
         \A c \in Conns : sock[c] # 0 => SameEnds(link[sock[c]], link'[sock[c]]),
         NEW K, K = link', \A g \in GameServers : Undisturbed(K, g)
  PROVE  SockInv' /\ CenterInv' /\ Retried'
<1>1. UNCHANGED <<running, sock, attempt, done, failed, centerTimer, infoTimer>>
  BY DEF connVars, timerVars
<1>2. ASSUME NEW c \in Conns PROVE ConnOK(c)'
  <2>1. ConnOK(c)
    BY DEF ClusterInv, SockInv
  <2> QED BY <1>1, <2>1, ConnFrame
<1>3. ASSUME NEW s \in Servers PROVE CenterOK(s)'
  <2>1. CenterOK(s) /\ ToCenter(s) \in Conns
    BY ConnNames DEF ClusterInv, CenterInv
  <2> QED BY <1>1, <2>1, CenterFrame
<1>4. ASSUME NEW g \in GameServers, Registering(g) PROVE Registering(g)'
  <2>1. g \in Servers /\ ToCenter(g) \in Conns /\ ConnOK(ToCenter(g)) /\ Undisturbed(K, g)
    BY ConnNames DEF ClusterInv, SockInv
  <2>2. running[ToCenter(g)] =>
           /\ SameEnds(link[sock[ToCenter(g)]], link'[sock[ToCenter(g)]])
           /\ Pending(link[sock[ToCenter(g)]]) /\ link'[sock[ToCenter(g)]].ok =>
                 Pending(link'[sock[ToCenter(g)]])
    BY <2>1 DEF ConnOK, Undisturbed
  <2> QED BY <1>1, <1>4, <2>1, <2>2, RegisteringFrame
<1>5. Retried'
  BY <1>1, <1>4, RetriedFrame
<1> QED BY <1>2, <1>3, <1>5 DEF SockInv, CenterInv

\* j is the link k with more messages on their way down.
Grown(k, j) ==
    /\ Keeps(k, j) /\ j.ok = k.ok /\ j.up = k.up /\ Range(k.down) \subseteq Range(j.down)

\* A message is written to a connection of the center, any number of times.
LEMMA SentDownGrows ==
  ASSUME NEW k \in Link, NEW m, NEW n \in Nat, n # 0 => m \in Replies
  PROVE  /\ Grown(k, SentDown(k, m, n))
         /\ k.ok /\ k.accepted /\ k.conn[1] \in GameServers /\ n # 0 =>
               m \in Range(SentDown(k, m, n).down)
<1>1. CASE ~(k # NoLink /\ k.ok /\ k.accepted /\ k.conn[1] \in GameServers)
  <2>1. k # NoLink
    BY LinkKinds DEF LinkSet
  <2>2. SentDown(k, m, n) = k
    BY <1>1 DEF SentDown
  <2> QED BY <1>1, <2>1, <2>2 DEF Grown, Keeps, SameEnds
<1>2. CASE k # NoLink /\ k.ok /\ k.accepted /\ k.conn[1] \in GameServers
  <2> DEFINE w == [i \in 1 .. n |-> m]
             q == k.down \o w
  <2>1. k.down \in Seq(Replies)
    BY LinkFields
  <2>2. w \in Seq(Replies)
    <3>1. \A i \in 1 .. n : m \in Replies
      OBVIOUS
    <3> QED BY <3>1
  <2>3. q \in Seq(Replies) /\ Range(q) = Range(k.down) \union Range(w)
    BY <2>1, <2>2, RangeConcatenation, ConcatProperties
  <2>4. n # 0 => m \in Range(w)
    <3>1. n # 0 => 1 \in 1 .. n
      OBVIOUS
    <3> QED BY <3>1 DEF Range
  <2>5. SentDown(k, m, n) = [k EXCEPT !.down = q]
    BY <1>2 DEF SentDown
  <2> HIDE DEF w, q
  <2>6. LET j == [k EXCEPT !.down = q]
        IN  Keeps(k, j) /\ j.ok = k.ok /\ j.up = k.up /\ j.down = q
    BY <2>3, DownChanged
  <2> QED BY <2>3, <2>4, <2>5, <2>6 DEF Grown
<1> QED BY <1>1, <1>2

\* broadcast_msg: the entries of a table are finitely many.
LEMMA BroadcastGrows ==
  ASSUME NEW L \in [Links -> LinkSet], NEW T \in [Uids -> Seq(Links)], NEW s
  PROVE  /\ Broadcast(L, T, s) \in [Links -> LinkSet]
         /\ \A l \in Links : \/ L[l] = NoLink /\ Broadcast(L, T, s)[l] = NoLink
                             \/ Grown(L[l], Broadcast(L, T, s)[l])
<1> DEFINE At(l, u) == {<<u, i>> : i \in {j \in DOMAIN T[u] : T[u][j] = l}}
           All(l) == UNION {At(l, u) : u \in Uids \ {Uid(s)}}
           N(l) == IF s \in DbServers THEN Cardinality(All(l)) ELSE 0
           m == Reply("connected", s)
<1>1. ASSUME NEW l \in Links PROVE N(l) \in Nat
  <2>1. IsFiniteSet(Uids \ {Uid(s)})
    <3>1. IsFiniteSet(GameServers)
      BY ClusterAssumption
    <3>2. IsFiniteSet(GameServers \union {"db_server"})
      BY <3>1, FS_AddElement
    <3>3. Uids = GameServers \union {"db_server"}
      BY DEF Uids
    <3> QED BY <3>2, <3>3, FS_RemoveElement
  <2>2. ASSUME NEW u \in Uids PROVE IsFiniteSet(At(l, u))
    <3> DEFINE E == Entries(T[u], l)
               f == [i \in E |-> <<u, i>>]
    <3>1. At(l, u) = {<<u, i>> : i \in E}
      BY DEF Entries
    <3>2. T[u] \in Seq(Links)
      OBVIOUS
    <3>3. IsFiniteSet(E)
      BY <3>2, EntriesNat
    <3>4. f \in [E -> At(l, u)] /\ \A y \in At(l, u) : \E x \in E : f[x] = y
      BY <3>1
    <3> HIDE DEF f, E, At
    <3>5. f \in Surjection(E, At(l, u))
      BY <3>4, Fun_IsSurj
    <3> QED BY <3>3, <3>5, FS_Surjection
  <2>3. IsFiniteSet({At(l, u) : u \in Uids \ {Uid(s)}})
    <3> DEFINE U == Uids \ {Uid(s)}
               A == {At(l, u) : u \in U}
               h == [u \in U |-> At(l, u)]
    <3>1. h \in [U -> A] /\ \A y \in A : \E x \in U : h[x] = y
      OBVIOUS
    <3> HIDE DEF h, A, U
    <3>2. h \in Surjection(U, A)
      BY <3>1, Fun_IsSurj
    <3>3. IsFiniteSet(U)
      BY <2>1 DEF U
    <3>4. IsFiniteSet(A)
      BY <3>2, <3>3, FS_Surjection
    <3> QED BY <3>4 DEF A, U
  <2>4. IsFiniteSet(All(l))
    <3>1. \A X \in {At(l, u) : u \in Uids \ {Uid(s)}} : IsFiniteSet(X)
      BY <2>2
    <3> HIDE DEF At
    <3> QED BY <2>3, <3>1, FS_UNION
  <2> QED BY <2>4, FS_CardinalityType
<1>2. ASSUME NEW l \in Links PROVE N(l) # 0 => m \in Replies
  BY DEF Reply, Replies, Addresses
<1>3. Broadcast(L, T, s) = [l \in Links |-> SentDown(L[l], m, N(l))]
  BY DEF Broadcast
<1> HIDE DEF N, m
<1>4. ASSUME NEW l \in Links
      PROVE  \/ L[l] = NoLink /\ SentDown(L[l], m, N(l)) = NoLink
             \/ Grown(L[l], SentDown(L[l], m, N(l)))
  <2>1. CASE L[l] = NoLink
    BY <2>1 DEF SentDown
  <2>2. CASE L[l] # NoLink
    <3>1. L[l] \in Link
      BY <2>2, LinkKinds
    <3> QED BY <1>1, <1>2, <3>1, SentDownGrows
  <2> QED BY <2>1, <2>2
<1>5. \A l \in Links : SentDown(L[l], m, N(l)) \in LinkSet
  BY <1>4 DEF Grown, Keeps, SameEnds, LinkSet
<1> QED BY <1>3, <1>4, <1>5

\* The center takes the first request of a link.
LEMMA RequestTaken ==
  ASSUME ClusterInv, NEW l \in Links, link[l].peer = Center, link[l].up # <<>>
  PROVE  LET L == [link EXCEPT ![l].up = Tail(@)] IN
         /\ Follows(L) /\ link[l] \in Link /\ L[l] \in Link /\ L[l].ok = link[l].ok
         /\ L[l].down = link[l].down
         /\ Head(link[l].up) # "register" /\ Pending(link[l]) => Pending(L[l])
         /\ \A k \in Links : k # l => L[k] = link[k]
<1> DEFINE q == Tail(link[l].up)
           j == [link[l] EXCEPT !.up = q]
<1>1. link \in [Links -> LinkSet]
  BY DEF ClusterInv, TypeOK, LinkSet
<1>2. link[l] \in Link /\ link[l].up \in Seq(Requests)
  BY <1>1, LinkKinds, LinkFields
<1>3. q \in Seq(Requests) /\ Range(link[l].up) \subseteq Range(q) \union {Head(link[l].up)}
  BY <1>2, RangeTail
<1>4. [link EXCEPT ![l].up = Tail(@)] = [link EXCEPT ![l] = j]
  OBVIOUS
<1> HIDE DEF q
<1>5. Keeps(link[l], j) /\ j.ok = link[l].ok /\ j.up = q /\ j.down = link[l].down
  BY <1>2, <1>3, UpChanged
<1> HIDE DEF j
<1>6. Head(link[l].up) # "register" /\ Pending(link[l]) => Pending(j)
  BY <1>3, <1>5 DEF Pending
<1>7. j \in Link
  BY <1>5 DEF Keeps, SameEnds
<1>8. /\ Follows([link EXCEPT ![l] = j]) /\ [link EXCEPT ![l] = j][l] = j
      /\ \A k \in Links : k # l => [link EXCEPT ![l] = j][k] = link[k]
  BY <1>1, <1>2, <1>5, FollowsSelf, FollowsExcept
<1> QED BY <1>2, <1>4, <1>5, <1>6, <1>7, <1>8

\* on_cs_get_server_info: the first entry of the db server is that of a db server.
LEMMA GetInfoHolds ==
  ASSUME ClusterInv, NEW l \in Links, link[l].peer = Center, link[l].accepted,
         link[l].up # <<>>, Head(link[l].up) # "register",
         OnGetInfo(l, [link EXCEPT ![l].up = Tail(@)]),
         UNCHANGED <<connVars, timerVars, faults, late>>
  PROVE  ClusterInv'
<1> DEFINE L == [link EXCEPT ![l].up = Tail(@)]
           entries == servers["db_server"]
           db == IF entries = <<>> THEN None ELSE link[Head(entries)].conn[1]
           m == Reply("info", db)
           j == SentDown(L[l], m, 1)
<1>1. /\ Follows(L) /\ link[l] \in Link /\ L[l] \in Link /\ L[l].ok = link[l].ok
      /\ Pending(link[l]) => Pending(L[l])
      /\ \A k \in Links : k # l => L[k] = link[k]
  BY RequestTaken
<1>2. link' = [L EXCEPT ![l] = j] /\ servers' = servers
  BY DEF OnGetInfo
<1>3. TypeOK /\ UNCHANGED <<running, sock, attempt, done, failed>>
  BY DEF ClusterInv, connVars
<1>4. db \in Addresses
  <2>1. CASE entries = <<>>
    BY <2>1 DEF Addresses
  <2>2. CASE entries # <<>>
    <3>1. "db_server" \in Uids /\ entries \in Seq(Links)
      BY <1>3 DEF TypeOK, Uids
    <3>2. Head(entries) \in Links /\ Head(entries) \in Range(entries)
      <4>1. Head(entries) = entries[1] /\ 1 \in DOMAIN entries
        BY <2>2, <3>1, LenProperties, EmptySeq
      <4> QED BY <2>2, <3>1, <4>1, RangeTail DEF Range
    <3>3. link[Head(entries)].peer = Center /\ Uid(link[Head(entries)].conn[1]) = "db_server"
      BY <3>1, <3>2 DEF ClusterInv, EntryInv
    <3>4. link[Head(entries)] \in LinkSet
      BY <1>3, <3>2 DEF TypeOK, LinkSet
    <3>5. link[Head(entries)].conn \in Conns
      BY <3>3, <3>4, LinkKinds, LinkFields
    <3>6. link[Head(entries)].conn[1] \in Servers
      BY <3>5, ConnKinds
    <3>7. link[Head(entries)].conn[1] \in DbServers
      BY <3>3, <3>6, ClusterAssumption DEF Uid, Servers
    <3> QED BY <2>2, <3>7 DEF Addresses
  <2> QED BY <2>1, <2>2
<1> HIDE DEF db, L
<1>5. m \in Replies
  BY <1>4 DEF Reply, Replies
<1> HIDE DEF m
<1>6. Grown(L[l], j)
  BY <1>1, <1>5, SentDownGrows
<1> HIDE DEF j
<1>7. Keeps(L[l], j) /\ (Pending(L[l]) => Pending(j))
  BY <1>6 DEF Grown, Pending
<1>8. /\ Follows(link') /\ link'[l] = j
      /\ \A k \in Links : k # l => link'[k] = L[k]
  <2>1. /\ Follows([L EXCEPT ![l] = j]) /\ [L EXCEPT ![l] = j][l] = j
        /\ \A k \in Links : k # l => [L EXCEPT ![l] = j][k] = L[k]
    <3>1. PICK N : N = L
      OBVIOUS
    <3>2. PICK i : i = j
      OBVIOUS
    <3>3. Follows(N) /\ N[l] \in Link /\ Keeps(N[l], i)
      BY <1>1, <1>7, <3>1, <3>2
    <3>4. /\ Follows([N EXCEPT ![l] = i]) /\ [N EXCEPT ![l] = i][l] = i
          /\ \A k \in Links : k # l => [N EXCEPT ![l] = i][k] = N[k]
      BY <3>3, FollowsExcept
    <3> QED BY <3>1, <3>2, <3>4
  <2> QED BY <1>2, <2>1
<1>9. sock' \in [Conns -> 0 .. MaxLinks] /\ {} \in SUBSET Conns /\ \A d \in Conns \ {} :
         /\ sock'[d] = sock[d] /\ attempt'[d] = attempt[d]
         /\ running'[d] = running[d] /\ done'[d] = done[d]
  BY <1>3 DEF TypeOK
<1>10. PICK K : K = link'
  OBVIOUS
<1>11. /\ link' \in [Links -> Link \union {NoLink}]
       /\ LinkInv' /\ EntryInv' /\ TableExact'
       /\ \A d \in Conns : sock[d] # 0 /\ sock'[d] = sock[d] =>
             Keeps(link[sock[d]], link'[sock[d]])
  BY <1>2, <1>8, <1>9, <1>10, ServerFrame
<1>12. \A d \in Conns : sock[d] # 0 => SameEnds(link[sock[d]], link'[sock[d]])
  BY <1>3, <1>11 DEF Keeps
<1>13. ASSUME NEW g \in GameServers PROVE Undisturbed(K, g)
  <2>1. ToCenter(g) \in Conns /\ ConnOK(ToCenter(g))
    BY ConnNames DEF ClusterInv, SockInv
  <2>2. running[ToCenter(g)] => sock[ToCenter(g)] \in Links
    BY <2>1, SocketLink DEF ConnOK
  <2> QED BY <1>1, <1>7, <1>8, <1>10, <2>2 DEF Undisturbed
<1>14. SockInv' /\ CenterInv' /\ Retried'
  BY <1>10, <1>12, <1>13, CenterSideFrame
<1>15. TypeOK'
  BY <1>2, <1>3, <1>11 DEF TypeOK, timerVars
<1> QED BY <1>11, <1>14, <1>15 DEF ClusterInv

\* on_cs_register_server: one entry more, and one registration more.
LEMMA RegisterHolds ==
  ASSUME ClusterInv, NEW l \in Links, link[l].peer = Center, link[l].accepted,
         link[l].up # <<>>,
         OnRegister(l, [link EXCEPT ![l].up = Tail(@)]),
         UNCHANGED <<connVars, timerVars, faults, late>>
  PROVE  ClusterInv'
<1> DEFINE L == [link EXCEPT ![l].up = Tail(@)]
           s == link[l].conn[1]
           a == SentDown(L[l], Reply("registered", None), 1)
           b == [a EXCEPT !.regs = @ + 1]
           K == [L EXCEPT ![l] = b]
<1>1. /\ Follows(L) /\ link[l] \in Link /\ L[l] \in Link /\ L[l].ok = link[l].ok
      /\ \A k \in Links : k # l => L[k] = link[k]
  BY RequestTaken
<1>2. /\ servers' = [servers EXCEPT ![Uid(s)] = Append(@, l)]
      /\ link' = Broadcast(K, servers', s)
  BY DEF OnRegister
<1>3. TypeOK /\ UNCHANGED <<running, sock, attempt, done, failed>>
  BY DEF ClusterInv, connVars
<1>4. s \in Servers /\ Uid(s) \in Uids
  <2>1. link[l].conn \in Conns
    BY <1>1, LinkFields
  <2>2. s \in Servers
    BY <2>1, ConnKinds
  <2> QED BY <2>2 DEF Uid, Uids, Servers
<1>5. Keeps(link[l], L[l])
  BY <1>1, LinkKinds DEF Follows, LinkSet
<1> HIDE DEF L
<1>6. Grown(L[l], a) /\ (L[l].ok /\ L[l].accepted /\ L[l].conn[1] \in GameServers =>
                            Reply("registered", None) \in Range(a.down))
  <2>1. Reply("registered", None) \in Replies
    BY DEF Reply, Replies, Addresses
  <2> QED BY <1>1, <2>1, SentDownGrows
<1> HIDE DEF a
<1>7. a \in Link /\ a.regs \in Nat
  BY <1>6, LinkFields DEF Grown, Keeps, SameEnds
<1>8. /\ b \in Link /\ b.conn = a.conn /\ b.peer = a.peer /\ b.ok = a.ok
      /\ b.accepted = a.accepted /\ b.down = a.down /\ b.regs = a.regs + 1
  BY <1>7 DEF Link
<1> HIDE DEF b
<1>9. /\ b.conn = link[l].conn /\ b.peer = Center /\ b.ok = link[l].ok /\ b.accepted
      /\ b.regs = link[l].regs + 1
      /\ link[l].ok /\ s \in GameServers => Reply("registered", None) \in Range(b.down)
  BY <1>1, <1>5, <1>6, <1>8 DEF Grown, Keeps, SameEnds
<1>10. L \in [Links -> LinkSet] /\ K \in [Links -> LinkSet] /\ K[l] = b
       /\ \A k \in Links : k # l => K[k] = link[k]
  <2>1. L \in [Links -> LinkSet]
    BY <1>1 DEF Follows
  <2> QED BY <1>1, <1>8, <2>1 DEF LinkSet
<1> HIDE DEF K
<1>11. /\ servers' \in [Uids -> Seq(Links)] /\ servers'[Uid(s)] = Append(servers[Uid(s)], l)
       /\ \A u \in Uids : u # Uid(s) => servers'[u] = servers[u]
  <2>1. Append(servers[Uid(s)], l) \in Seq(Links)
    BY <1>3, <1>4 DEF TypeOK
  <2> QED BY <1>2, <1>3, <1>4, <2>1 DEF TypeOK
<1>12. /\ link' \in [Links -> LinkSet]
       /\ \A k \in Links : \/ K[k] = NoLink /\ link'[k] = NoLink
                           \/ Grown(K[k], link'[k])
  <2>1. PICK T \in [Uids -> Seq(Links)] : T = servers'
    BY <1>11
  <2> QED BY <1>2, <1>10, <2>1, BroadcastGrows
<1>13. NoLink \notin Link /\ NoLink.peer # Center
  <2>1. NoLink \in LinkSet
    BY DEF LinkSet
  <2> QED BY <2>1, LinkKinds, ClusterAssumption DEF NoLink
<1>14. Grown(b, link'[l])
  BY <1>8, <1>10, <1>12, <1>13
<1>15. /\ link'[l].conn = link[l].conn /\ link'[l].peer = Center /\ link'[l].ok = link[l].ok
       /\ link'[l].accepted /\ link'[l].regs = link[l].regs + 1 /\ link'[l] \in Link
       /\ link[l].ok /\ s \in GameServers => Reply("registered", None) \in Range(link'[l].down)
  BY <1>9, <1>14 DEF Grown, Keeps, SameEnds
<1>16. \A k \in Links : k # l => \/ link[k] = NoLink /\ link'[k] = NoLink
                                 \/ Grown(link[k], link'[k])
  BY <1>10, <1>12
<1>17. LinkInv'
  <2> SUFFICES ASSUME NEW k \in Links, link'[k].peer = Center
               PROVE  link'[k].accepted \/ ~link'[k].ok
    BY DEF LinkInv
  <2>1. CASE k = l
    BY <1>15, <2>1
  <2>2. CASE k # l
    <3>1. Grown(link[k], link'[k])
      BY <1>13, <1>16, <2>2
    <3> QED BY <3>1 DEF ClusterInv, LinkInv, Grown, Keeps, SameEnds
  <2> QED BY <2>1, <2>2
<1>18. EntryInv'
  <2> SUFFICES ASSUME NEW u \in Uids, NEW k \in Range(servers'[u])
               PROVE  link'[k].peer = Center /\ Uid(link'[k].conn[1]) = u
    BY DEF EntryInv
  <2>1. servers[u] \in Seq(Links)
    BY <1>3 DEF TypeOK
  <2>2. k \in Range(servers[u]) \/ (k = l /\ u = Uid(s))
    <3>1. Range(Append(servers[u], l)) = Range(servers[u]) \union {l}
      BY <2>1, RangeAppend
    <3>2. CASE u = Uid(s)
      <4>1. PICK q : q = servers'[u]
        OBVIOUS
      <4>2. q = Append(servers[u], l)
        BY <1>11, <3>2, <4>1
      <4>3. k \in Range(q)
        BY <4>1
      <4> QED BY <3>1, <3>2, <4>2, <4>3
    <3>3. CASE u # Uid(s)
      BY <1>11, <3>3
    <3> QED BY <3>2, <3>3
  <2>3. CASE k = l
    <3>1. u = Uid(s)
      BY <2>2, <2>3 DEF ClusterInv, EntryInv
    <3> QED BY <1>15, <2>3, <3>1
  <2>4. CASE k # l
    <3>1. k \in Links /\ k \in Range(servers[u])
      BY <2>1, <2>2, <2>4, RangeOfSeq
    <3>2. link[k].peer = Center /\ Uid(link[k].conn[1]) = u
      BY <3>1 DEF ClusterInv, EntryInv
    <3>3. Grown(link[k], link'[k])
      BY <1>13, <1>16, <2>4, <3>1, <3>2
    <3> QED BY <3>2, <3>3 DEF Grown, Keeps, SameEnds
  <2> QED BY <2>3, <2>4
<1>19. TableExact'
  <2> SUFFICES ASSUME NEW k \in Links, link'[k] # NoLink, link'[k].peer = Center
               PROVE  Cardinality(Entries(servers'[Uid(link'[k].conn[1])], k))
                        = IF link'[k].accepted \/ link'[k].regs = 0
                          THEN link'[k].regs ELSE link'[k].regs - 1
    BY DEF TableExact, Entries
  <2>1. servers[Uid(s)] \in Seq(Links)
    BY <1>3, <1>4 DEF TypeOK
  <2>2. /\ Cardinality(Entries(servers'[Uid(s)], l)) = Cardinality(Entries(servers[Uid(s)], l)) + 1
        /\ \A h : h # l => Entries(servers'[Uid(s)], h) = Entries(servers[Uid(s)], h)
    BY <1>11, <2>1, EntryAdded
  <2>3. CASE k = l
    <3>1. link[l] # NoLink
      BY <1>1, <1>13
    <3>2. Cardinality(Entries(servers[Uid(s)], l)) = link[l].regs
      BY <3>1 DEF ClusterInv, TableExact, Entries
    <3> QED BY <1>15, <2>2, <2>3, <3>2
  <2>4. CASE k # l
    <3>1. Grown(link[k], link'[k])
      BY <1>16, <2>4
    <3>2. /\ link[k] # NoLink /\ link[k].peer = Center /\ link'[k].conn = link[k].conn
          /\ link'[k].accepted = link[k].accepted /\ link'[k].regs = link[k].regs
          /\ link[k] \in Link
      BY <1>13, <3>1 DEF Grown, Keeps, SameEnds
    <3>3. Uid(link[k].conn[1]) \in Uids
      <4>1. link[k].conn[1] \in Servers
        BY <3>2, LinkFields, ConnKinds
      <4> QED BY <4>1 DEF Uid, Uids, Servers
    <3>4. Entries(servers'[Uid(link[k].conn[1])], k) = Entries(servers[Uid(link[k].conn[1])], k)
      BY <1>11, <2>2, <2>4, <3>3
    <3>5. Cardinality(Entries(servers[Uid(link[k].conn[1])], k))
            = IF link[k].accepted \/ link[k].regs = 0 THEN link[k].regs ELSE link[k].regs - 1
      BY <3>2 DEF ClusterInv, TableExact, Entries
    <3> QED BY <3>2, <3>4, <3>5
  <2> QED BY <2>3, <2>4
<1>20. ASSUME NEW c \in Conns, sock[c] # 0 PROVE SameEnds(link[sock[c]], link'[sock[c]])
  <2>1. sock[c] \in Links /\ link[sock[c]] \in Link
    BY <1>20, SocketLink
  <2>2. CASE sock[c] = l
    BY <1>15, <2>1, <2>2 DEF SameEnds
  <2>3. CASE sock[c] # l
    BY <1>13, <1>16, <2>1, <2>3 DEF Grown, Keeps
  <2> QED BY <2>2, <2>3
<1>21. PICK M : M = link'
  OBVIOUS
<1>22. ASSUME NEW g \in GameServers PROVE Undisturbed(M, g)
  <2>1. ToCenter(g) \in Conns /\ ConnOK(ToCenter(g)) /\ ToCenter(g)[1] = g
    BY ConnNames DEF ClusterInv, SockInv
  <2> SUFFICES ASSUME running[ToCenter(g)], Pending(link[sock[ToCenter(g)]]),
                      link'[sock[ToCenter(g)]].ok
               PROVE  Pending(link'[sock[ToCenter(g)]])
    BY <1>21 DEF Undisturbed
  <2>2. /\ sock[ToCenter(g)] \in Links /\ link[sock[ToCenter(g)]] \in Link
        /\ link[sock[ToCenter(g)]].conn = ToCenter(g)
    BY <2>1, SocketLink DEF ConnOK
  <2>3. CASE sock[ToCenter(g)] = l
    <3>1. s = g
      BY <2>1, <2>2, <2>3
    <3> QED BY <1>15, <2>3, <3>1 DEF Pending
  <2>4. CASE sock[ToCenter(g)] # l
    BY <1>13, <1>16, <2>2, <2>4 DEF Pending, Grown
  <2> QED BY <2>3, <2>4
<1>23. SockInv' /\ CenterInv' /\ Retried'
  BY <1>20, <1>21, <1>22, CenterSideFrame
<1>24. TypeOK'
  BY <1>3, <1>11, <1>12 DEF TypeOK, timerVars, LinkSet
<1> QED BY <1>17, <1>18, <1>19, <1>23, <1>24 DEF ClusterInv

\* Every request of a server is one of the two.
LEMMA CenterReceivesHolds ==
  ASSUME ClusterInv, NEW l \in Links, CenterReceives(l)
  PROVE  ClusterInv'
<1>1. /\ link[l].peer = Center /\ link[l].accepted /\ link[l].up # <<>>
      /\ UNCHANGED <<connVars, timerVars, faults, late>>
  BY DEF CenterReceives
<1>2. CASE Head(link[l].up) = "register"
  <2>1. OnRegister(l, [link EXCEPT ![l].up = Tail(@)])
    BY <1>2 DEF CenterReceives
  <2> QED BY <1>1, <2>1, RegisterHolds
<1>3. CASE Head(link[l].up) # "register"
  <2>1. OnGetInfo(l, [link EXCEPT ![l].up = Tail(@)])
    BY <1>3 DEF CenterReceives
  <2> QED BY <1>1, <1>3, <2>1, GetInfoHolds
<1> QED BY <1>2, <1>3

\* M are the links after the center has given up some that are broken, and entries of its
\* table with them.
GivenUp(M) ==
    /\ M \in [Links -> LinkSet]
    /\ \A k \in Links :
          /\ (link[k] = NoLink /\ M[k] = NoLink) \/ SameEnds(link[k], M[k])
          /\ M[k] = link[k] \/ ~M[k].ok

\* All but the exactness of the table is then kept.
LEMMA GivenUpHolds ==
  ASSUME ClusterInv, NEW M, GivenUp(M), link' = Kept(M), UNCHANGED <<connVars, timerVars>>,
         \A u \in Uids : Range(servers'[u]) \subseteq Range(servers[u])
  PROVE  /\ link' \in [Links -> LinkSet] /\ LinkInv' /\ EntryInv'
         /\ SockInv' /\ CenterInv' /\ Retried'
         /\ \A k \in Links : link'[k] = NoLink \/ Keeps(M[k], link'[k])
<1>1. TypeOK /\ UNCHANGED <<running, sock>>
  BY DEF ClusterInv, connVars
<1>2. M \in [Links -> LinkSet]
  BY DEF GivenUp
<1>3. /\ Kept(M) \in [Links -> LinkSet]
      /\ \A k \in Links :
            /\ Kept(M)[k] = NoLink \/ Keeps(M[k], Kept(M)[k])
            /\ M[k] \in Link /\ Kept(M)[k] = NoLink =>
                  /\ \A c \in Conns : sock'[c] # k
                  /\ \A u \in Uids : k \notin Range(servers'[u])
            /\ M[k] \in Link /\ M[k].accepted /\ (\E c \in Conns : sock'[c] = k) =>
                  Kept(M)[k] = M[k]
  BY <1>2, KeptLinks
<1>4. link' \in [Links -> LinkSet] /\ \A k \in Links : link'[k] = NoLink \/ Keeps(M[k], link'[k])
  BY <1>3
<1>5. NoLink \notin Link /\ NoLink.peer # Center
  <2>1. NoLink \in LinkSet
    BY DEF LinkSet
  <2> QED BY <2>1, LinkKinds, ClusterAssumption DEF NoLink
<1>6. LinkInv'
  <2> SUFFICES ASSUME NEW k \in Links, link'[k].peer = Center
               PROVE  link'[k].accepted \/ ~link'[k].ok
    BY DEF LinkInv
  <2>1. Keeps(M[k], link'[k])
    BY <1>4, <1>5
  <2>2. M[k].peer = Center /\ link'[k].accepted = M[k].accepted /\ (link'[k].ok => M[k].ok)
    BY <2>1 DEF Keeps, SameEnds
  <2>3. M[k] = link[k] \/ ~M[k].ok
    BY DEF GivenUp
  <2> QED BY <2>2, <2>3 DEF ClusterInv, LinkInv
<1>7. EntryInv'
  <2> SUFFICES ASSUME NEW u \in Uids, NEW k \in Range(servers'[u])
               PROVE  link'[k].peer = Center /\ Uid(link'[k].conn[1]) = u
    BY DEF EntryInv
  <2>1. k \in Range(servers[u])
    OBVIOUS
  <2>2. k \in Links
    <3>1. servers[u] \in Seq(Links)
      BY <1>1 DEF TypeOK
    <3> QED BY <2>1, <3>1, RangeOfSeq
  <2>3. link[k].peer = Center /\ Uid(link[k].conn[1]) = u
    BY <2>1 DEF ClusterInv, EntryInv
  <2>4. SameEnds(link[k], M[k])
    BY <1>5, <2>2, <2>3 DEF GivenUp
  <2>5. M[k] \in Link /\ M[k].peer = Center /\ M[k].conn = link[k].conn
    BY <2>3, <2>4 DEF SameEnds
  <2>6. link'[k] # NoLink
    BY <1>3, <2>2, <2>5
  <2>7. link'[k].peer = M[k].peer /\ link'[k].conn = M[k].conn
    BY <1>4, <2>2, <2>6 DEF Keeps, SameEnds
  <2> QED BY <2>3, <2>5, <2>7
<1>8. ASSUME NEW c \in Conns, sock[c] # 0
      PROVE  /\ SameEnds(link[sock[c]], M[sock[c]]) /\ Keeps(M[sock[c]], link'[sock[c]])
             /\ SameEnds(link[sock[c]], link'[sock[c]])
  <2>1. sock[c] \in Links /\ link[sock[c]] \in Link
    BY <1>8, SocketLink
  <2>2. SameEnds(link[sock[c]], M[sock[c]])
    BY <1>5, <2>1 DEF GivenUp
  <2>3. M[sock[c]] \in Link /\ sock'[c] = sock[c]
    BY <1>1, <2>2 DEF SameEnds
  <2>4. Keeps(M[sock[c]], link'[sock[c]])
    BY <1>3, <1>4, <2>1, <2>3
  <2>5. SameEnds(link[sock[c]], link'[sock[c]])
    BY <2>2, <2>4 DEF Keeps, SameEnds
  <2> QED BY <2>2, <2>4, <2>5
<1>9. PICK K : K = link'
  OBVIOUS
<1>10. ASSUME NEW g \in GameServers PROVE Undisturbed(K, g)
  <2> DEFINE c == ToCenter(g)
  <2>1. c \in Conns /\ ConnOK(c) /\ CenterOK(g)
    BY ConnNames DEF ClusterInv, SockInv, CenterInv
  <2> SUFFICES ASSUME running[c], Pending(link[sock[c]]), link'[sock[c]].ok
               PROVE  Pending(link'[sock[c]])
    BY <1>9 DEF Undisturbed
  <2>2. sock[c] # 0 /\ link[sock[c]].peer = Center
    BY <2>1 DEF ConnOK, CenterOK
  <2>3. sock[c] \in Links /\ link[sock[c]] \in Link
    BY <2>1, <2>2, SocketLink
  <2> HIDE DEF c
  <2>4. /\ SameEnds(link[sock[c]], M[sock[c]]) /\ Keeps(M[sock[c]], link'[sock[c]])
    BY <1>8, <2>1, <2>2
  <2>5. M[sock[c]].ok /\ M[sock[c]] \in Link
    BY <2>4 DEF Keeps, SameEnds
  <2>6. M[sock[c]] = link[sock[c]]
    BY <2>3, <2>5 DEF GivenUp
  <2>7. M[sock[c]].accepted
    BY <2>2, <2>3, <2>5, <2>6 DEF ClusterInv, LinkInv
  <2>8. sock'[c] = sock[c]
    BY <1>1
  <2>9. link'[sock[c]] = M[sock[c]]
    BY <1>3, <2>1, <2>3, <2>5, <2>7, <2>8
  <2> QED BY <2>6, <2>9
<1>11. SockInv' /\ CenterInv' /\ Retried'
  BY <1>8, <1>9, <1>10, CenterSideFrame
<1> QED BY <1>4, <1>6, <1>7, <1>11

\* The center loses a connection: one of its entries is erased, and as it is no longer
\* accepted that is what the table must have.
LEMMA CenterLosesHolds ==
  ASSUME ClusterInv, NEW l \in Links, CenterLoses(l)
  PROVE  ClusterInv'
<1> DEFINE j == [link[l] EXCEPT !.accepted = FALSE]
           M == [link EXCEPT ![l].accepted = FALSE]
           U == Uid(link[l].conn[1])
<1>1. /\ link[l].peer = Center /\ link[l].accepted /\ ~link[l].ok
      /\ servers' = IF link[l].regs = 0 THEN servers ELSE [servers EXCEPT ![U] = Erased(@, l)]
      /\ UNCHANGED <<connVars, timerVars, faults, late>>
      /\ link' = Kept(M)
  BY DEF CenterLoses
<1>2. TypeOK /\ link \in [Links -> LinkSet] /\ link[l] \in Link
  <2>1. TypeOK /\ link \in [Links -> LinkSet]
    BY DEF ClusterInv, TypeOK, LinkSet
  <2> QED BY <1>1, <2>1, LinkKinds
<1>3. /\ j \in Link /\ j.conn = link[l].conn /\ j.peer = Center /\ ~j.ok /\ ~j.accepted
      /\ j.regs = link[l].regs /\ link[l].regs \in Nat
  BY <1>1, <1>2 DEF Link
<1>4. M = [link EXCEPT ![l] = j]
  OBVIOUS
<1> HIDE DEF j
<1>5. M \in [Links -> LinkSet] /\ M[l] = j /\ \A k \in Links : k # l => M[k] = link[k]
  BY <1>2, <1>3, <1>4 DEF LinkSet
<1> HIDE DEF M
<1>6. GivenUp(M)
  <2>1. ASSUME NEW k \in Links
        PROVE  /\ (link[k] = NoLink /\ M[k] = NoLink) \/ SameEnds(link[k], M[k])
               /\ M[k] = link[k] \/ ~M[k].ok
    <3>1. CASE k = l
      BY <1>1, <1>2, <1>3, <1>5, <3>1 DEF SameEnds
    <3>2. CASE k # l
      <4>1. link[k] = NoLink \/ link[k] \in Link
        BY <1>2, LinkKinds
      <4> QED BY <1>5, <3>2, <4>1 DEF SameEnds
    <3> QED BY <3>1, <3>2
  <2> QED BY <1>5, <2>1 DEF GivenUp
<1>7. U \in Uids /\ servers[U] \in Seq(Links)
  <2>1. link[l].conn[1] \in Servers
    BY <1>2, LinkFields, ConnKinds
  <2> QED BY <1>2, <2>1 DEF Uid, Uids, Servers, TypeOK
<1>8. PICK n : n = link[l].regs
  OBVIOUS
<1>9. Cardinality(Entries(servers[U], l)) = n /\ n \in Nat
  <2>1. link[l] # NoLink
    BY <1>2, LinkKinds
  <2> QED BY <1>1, <1>3, <1>8, <2>1 DEF ClusterInv, TableExact, Entries
<1>10. /\ Erased(servers[U], l) \in Seq(Links)
       /\ Range(Erased(servers[U], l)) \subseteq Range(servers[U])
       /\ n # 0 => Cardinality(Entries(Erased(servers[U], l), l)) = n - 1
       /\ \A k : k # l => Cardinality(Entries(Erased(servers[U], l), k))
                            = Cardinality(Entries(servers[U], k))
  <2>1. n # 0 => l \in Range(servers[U])
    BY <1>7, <1>9, EntriesNat
  <2> QED BY <1>7, <1>9, <2>1, EntryErased
<1>11. PICK e : e = Erased(servers[U], l)
  OBVIOUS
<1>12. servers' = IF n = 0 THEN servers ELSE [servers EXCEPT ![U] = e]
  BY <1>1, <1>8, <1>11
<1> HIDE DEF U
<1>13. /\ servers' \in [Uids -> Seq(Links)]
       /\ \A u \in Uids : u # U => servers'[u] = servers[u]
       /\ servers'[U] = IF n = 0 THEN servers[U] ELSE e
  BY <1>2, <1>7, <1>10, <1>11, <1>12 DEF TypeOK
<1>14. \A u \in Uids : Range(servers'[u]) \subseteq Range(servers[u])
  <2>1. Range(e) \subseteq Range(servers[U])
    BY <1>10, <1>11
  <2>2. servers'[U] = servers[U] \/ servers'[U] = e
    BY <1>13
  <2>3. Range(servers'[U]) \subseteq Range(servers[U])
    BY <2>1, <2>2
  <2> QED BY <1>13, <2>3
<1>15. /\ link' \in [Links -> LinkSet] /\ LinkInv' /\ EntryInv'
       /\ SockInv' /\ CenterInv' /\ Retried'
       /\ \A k \in Links : link'[k] = NoLink \/ Keeps(M[k], link'[k])
  <2>1. PICK N : N = M
    OBVIOUS
  <2>2. GivenUp(N) /\ link' = Kept(N) /\ UNCHANGED <<connVars, timerVars>>
    BY <1>1, <1>6, <2>1
  <2>3. /\ link' \in [Links -> LinkSet] /\ LinkInv' /\ EntryInv'
        /\ SockInv' /\ CenterInv' /\ Retried'
        /\ \A k \in Links : link'[k] = NoLink \/ Keeps(N[k], link'[k])
    BY <1>14, <2>2, GivenUpHolds
  <2> QED BY <2>1, <2>3
<1>16. TableExact'
  <2> SUFFICES ASSUME NEW k \in Links, link'[k] # NoLink, link'[k].peer = Center
               PROVE  Cardinality(Entries(servers'[Uid(link'[k].conn[1])], k))
                        = IF link'[k].accepted \/ link'[k].regs = 0
                          THEN link'[k].regs ELSE link'[k].regs - 1
    BY DEF TableExact, Entries
  <2>1. /\ link'[k].conn = M[k].conn /\ link'[k].peer = M[k].peer /\ M[k] \in Link
        /\ link'[k].accepted = M[k].accepted /\ link'[k].regs = M[k].regs
    BY <1>15 DEF Keeps, SameEnds
  <2>2. CASE k = l
    <3>1. link'[k].regs = n /\ ~link'[k].accepted /\ Uid(link'[k].conn[1]) = U
      BY <1>3, <1>5, <1>8, <2>1, <2>2 DEF U
    <3>2. Cardinality(Entries(servers'[U], l)) = IF n = 0 THEN 0 ELSE n - 1
      <4>1. CASE n = 0
        BY <1>9, <1>13, <4>1
      <4>2. CASE n # 0
        <5>1. servers'[U] = Erased(servers[U], l)
          BY <1>11, <1>13, <4>2
        <5> QED BY <1>10, <4>2, <5>1
      <4> QED BY <4>1, <4>2
    <3> QED BY <2>2, <3>1, <3>2
  <2>3. CASE k # l
    <3> DEFINE u == Uid(link[k].conn[1])
    <3>1. M[k] = link[k] /\ link[k] # NoLink /\ link[k].peer = Center
      BY <1>2, <1>5, <2>1, <2>3, LinkKinds
    <3>2. u \in Uids
      <4>1. link[k].conn[1] \in Servers
        BY <2>1, <3>1, LinkFields, ConnKinds
      <4> QED BY <4>1 DEF Uid, Uids, Servers
    <3>3. Cardinality(Entries(servers[u], k))
            = IF link[k].accepted \/ link[k].regs = 0 THEN link[k].regs ELSE link[k].regs - 1
      BY <3>1 DEF ClusterInv, TableExact, Entries
    <3>4. Cardinality(Entries(servers'[u], k)) = Cardinality(Entries(servers[u], k))
      <4>1. CASE u # U \/ n = 0
        <5>1. servers'[u] = servers[u]
          BY <1>13, <3>2, <4>1
        <5> QED BY <5>1
      <4>2. CASE u = U /\ n # 0
        <5>1. servers'[u] = Erased(servers[U], l)
          BY <1>11, <1>13, <4>2
        <5> QED BY <1>10, <2>3, <4>2, <5>1
      <4> QED BY <4>1, <4>2
    <3>5. Uid(link'[k].conn[1]) = u
      BY <2>1, <3>1
    <3> HIDE DEF u
    <3> QED BY <2>1, <3>1, <3>3, <3>4, <3>5
  <2> QED BY <2>2, <2>3
<1>17. TypeOK'
  BY <1>1, <1>2, <1>13, <1>15 DEF TypeOK, connVars, timerVars, LinkSet
<1> QED BY <1>15, <1>16, <1>17 DEF ClusterInv

\* The center restarts: its table is empty and its ends of the links are closed.
LEMMA CenterRestartsHolds ==
  ASSUME ClusterInv, CenterRestarts
  PROVE  ClusterInv'
<1> DEFINE j(k) == [link[k] EXCEPT !.ok = FALSE, !.accepted = FALSE, !.regs = 0]
           M == [k \in Links |-> IF link[k].peer = Center THEN j(k) ELSE link[k]]
<1>1. /\ Fault /\ servers' = [u \in Uids |-> <<>>] /\ UNCHANGED <<connVars, timerVars>>
      /\ link' = Kept(M)
  BY DEF CenterRestarts
<1>2. TypeOK /\ link \in [Links -> LinkSet]
  BY DEF ClusterInv, TypeOK, LinkSet
<1>3. ASSUME NEW k \in Links, link[k].peer = Center
      PROVE  /\ link[k] \in Link /\ j(k) \in Link /\ j(k).conn = link[k].conn
             /\ j(k).peer = Center /\ ~j(k).ok /\ ~j(k).accepted /\ j(k).regs = 0
  <2>1. link[k] \in Link
    BY <1>2, <1>3, LinkKinds
  <2> QED BY <1>3, <2>1 DEF Link
<1> HIDE DEF j
<1>4. \A k \in Links : M[k] = IF link[k].peer = Center THEN j(k) ELSE link[k]
  OBVIOUS
<1>5. M \in [Links -> LinkSet]
  <2>1. \A k \in Links : (IF link[k].peer = Center THEN j(k) ELSE link[k]) \in LinkSet
    BY <1>2, <1>3 DEF LinkSet
  <2> QED BY <2>1
<1> HIDE DEF M
<1>6. GivenUp(M)
  <2>1. ASSUME NEW k \in Links
        PROVE  /\ (link[k] = NoLink /\ M[k] = NoLink) \/ SameEnds(link[k], M[k])
               /\ M[k] = link[k] \/ ~M[k].ok
    <3>1. CASE link[k].peer = Center
      BY <1>3, <1>4, <3>1 DEF SameEnds
    <3>2. CASE link[k].peer # Center
      <4>1. link[k] = NoLink \/ link[k] \in Link
        BY <1>2, LinkKinds
      <4> QED BY <1>4, <3>2, <4>1 DEF SameEnds
    <3> QED BY <3>1, <3>2
  <2> QED BY <1>5, <2>1 DEF GivenUp
<1>7. servers' \in [Uids -> Seq(Links)] /\ \A u \in Uids : servers'[u] = <<>>
  <2>1. <<>> \in Seq(Links)
    OBVIOUS
  <2> QED BY <1>1, <2>1
<1>8. \A u \in Uids : Range(servers'[u]) = {}
  BY <1>7 DEF Range
<1>9. /\ link' \in [Links -> LinkSet] /\ LinkInv' /\ EntryInv'
      /\ SockInv' /\ CenterInv' /\ Retried'
      /\ \A k \in Links : link'[k] = NoLink \/ Keeps(M[k], link'[k])
  <2>1. PICK N : N = M
    OBVIOUS
  <2>2. GivenUp(N) /\ link' = Kept(N) /\ UNCHANGED <<connVars, timerVars>>
    BY <1>1, <1>6, <2>1
  <2>3. \A u \in Uids : Range(servers'[u]) \subseteq Range(servers[u])
    BY <1>8
  <2>4. /\ link' \in [Links -> LinkSet] /\ LinkInv' /\ EntryInv'
        /\ SockInv' /\ CenterInv' /\ Retried'
        /\ \A k \in Links : link'[k] = NoLink \/ Keeps(N[k], link'[k])
    BY <2>2, <2>3, GivenUpHolds
  <2> QED BY <2>1, <2>4
<1>10. TableExact'
  <2> SUFFICES ASSUME NEW k \in Links, link'[k] # NoLink, link'[k].peer = Center
               PROVE  Cardinality(Entries(servers'[Uid(link'[k].conn[1])], k))
                        = IF link'[k].accepted \/ link'[k].regs = 0
                          THEN link'[k].regs ELSE link'[k].regs - 1
    BY DEF TableExact, Entries
  <2>1. link'[k].peer = M[k].peer /\ link'[k].regs = M[k].regs /\ link'[k] \in Link
    BY <1>9 DEF Keeps, SameEnds
  <2>2. link'[k].regs = 0
    BY <1>3, <1>4, <2>1
  <2>3. Uid(link'[k].conn[1]) \in Uids
    <3>1. link'[k].conn[1] \in Servers
      BY <2>1, LinkFields, ConnKinds
    <3> QED BY <3>1 DEF Uid, Uids, Servers
  <2>4. Entries(servers'[Uid(link'[k].conn[1])], k) = {}
    <3>1. Entries(<<>>, k) = {}
      BY DEF Entries
    <3> QED BY <1>7, <2>3, <3>1
  <2> QED BY <2>2, <2>4, FS_EmptySet
<1>11. TypeOK'
  BY <1>1, <1>2, <1>7, <1>9, FaultBound DEF TypeOK, connVars, timerVars, LinkSet
<1> QED BY <1>9, <1>10, <1>11 DEF ClusterInv

-----------------------------------------------------------------------------
(* The theorems *)

\* The servers start without a connection, and connect to the center at once.
LEMMA InitHolds == Init => ClusterInv
<1> SUFFICES ASSUME Init PROVE ClusterInv
  OBVIOUS
<1>1. {MaxLinks, MaxFaults, MaxLate} \subseteq Nat /\ NoLink.peer = None /\ None # Center
  BY ClusterAssumption DEF NoLink
<1>2. \A c \in Conns : ~running[c] /\ sock[c] = 0 /\ ~failed[c]
  BY DEF Init
<1>3. \A l \in Links : link[l] = NoLink
  BY DEF Init
<1>4. \A s \in Servers : ToCenter(s) \in Conns /\ attempt[ToCenter(s)] = Center
  BY ConnNames DEF Init, ToCenter
<1>5. TypeOK
  <2>1. <<>> \in Seq(BOOLEAN) /\ <<>> \in Seq(Links)
    OBVIOUS
  <2>2. /\ running \in [Conns -> BOOLEAN] /\ failed \in [Conns -> BOOLEAN]
        /\ sock \in [Conns -> 0 .. MaxLinks] /\ done \in [Conns -> Seq(BOOLEAN)]
    BY <1>1, <2>1 DEF Init
  <2>3. attempt \in [Conns -> DbServers \union {Center, None}]
    BY DEF Init
  <2>4. /\ centerTimer \in [Servers -> BOOLEAN] /\ dbTimer \in [GameServers -> BOOLEAN]
        /\ infoTimer \in [GameServers -> BOOLEAN] /\ dbInfo \in [GameServers -> Addresses]
    BY DEF Init, Addresses
  <2>5. link \in [Links -> Link \union {NoLink}] /\ servers \in [Uids -> Seq(Links)]
    BY <2>1 DEF Init
  <2>6. faults \in 0 .. MaxFaults /\ late \in 0 .. MaxLate
    BY <1>1 DEF Init
  <2> QED BY <2>2, <2>3, <2>4, <2>5, <2>6 DEF TypeOK
<1>6. SockInv
  BY <1>2 DEF SockInv, ConnOK
<1>7. CenterInv
  BY <1>2, <1>4 DEF CenterInv, CenterOK
<1>8. LinkInv /\ TableExact
  BY <1>1, <1>3 DEF LinkInv, TableExact
<1>9. EntryInv
  <2>1. \A u \in Uids : servers[u] = <<>>
    BY DEF Init
  <2>2. \A u \in Uids : Range(servers[u]) = {}
    BY <2>1 DEF Range
  <2> QED BY <2>2 DEF EntryInv
<1>10. Retried
  <2>1. \A s \in Servers : centerTimer[s]
    BY DEF Init
  <2>2. \A g \in GameServers : Registering(g)
    BY <1>2, <1>4, ConnNames DEF Registering
  <2> QED BY <2>1, <2>2 DEF Retried
<1> QED BY <1>5, <1>6, <1>7, <1>8, <1>9, <1>10 DEF ClusterInv

\* Every step keeps the invariant.
LEMMA NextHolds == ClusterInv /\ [Next]_vars => ClusterInv'
<1> SUFFICES ASSUME ClusterInv, [Next]_vars PROVE ClusterInv'
  OBVIOUS
<1>1. ASSUME NEW s \in Servers, ServerHandles(s) PROVE ClusterInv'
  <2>1. ASSUME NEW c \in {ToCenter(s), ToDb(s)} \intersect Conns,
               HandleConnect(c) \/ ConnectionLost(c)
        PROVE  ClusterInv'
    BY <2>1, HandleConnectHolds, ConnectionLostHolds
  <2>2. ASSUME s \in GameServers, ServerReceives(s) PROVE ClusterInv'
    BY <2>2, ServerReceivesHolds
  <2> QED BY <1>1, <2>1, <2>2 DEF ServerHandles
<1>2. ASSUME NEW l \in Links, CenterHandles(l) \/ LinkBreaks(l) PROVE ClusterInv'
  BY <1>2, CenterReceivesHolds, CenterLosesHolds, LinkBreaksHolds DEF CenterHandles
<1>3. ASSUME Timers PROVE ClusterInv'
  BY <1>3, CenterTimerHolds, DbTimerHolds, InfoTimerHolds DEF Timers
<1>4. ASSUME NEW c \in Conns, AttemptSucceeds(c) \/ AttemptFails(c) PROVE ClusterInv'
  BY <1>4, AttemptSucceedsHolds, AttemptFailsHolds
<1>5. ASSUME CenterRestarts PROVE ClusterInv'
  BY <1>5, CenterRestartsHolds
<1>6. ASSUME NEW s \in Servers, ServerRestarts(s) PROVE ClusterInv'
  BY <1>6, ServerRestartsHolds
<1>7. ASSUME UNCHANGED vars PROVE ClusterInv'
  <2>1. /\ UNCHANGED <<running, sock, attempt, done, failed>>
        /\ UNCHANGED <<centerTimer, dbTimer, infoTimer, dbInfo>>
        /\ UNCHANGED <<link, servers, faults, late>>
    BY <1>7 DEF vars, connVars, timerVars
  <2>2. TypeOK' /\ LinkInv' /\ EntryInv' /\ TableExact'
    BY <2>1 DEF ClusterInv, TypeOK, LinkInv, EntryInv, TableExact
  <2>3. SockInv' /\ CenterInv' /\ Retried'
    BY <2>1 DEF ClusterInv, SockInv, ConnOK, CenterInv, CenterOK, Retried, Registering
  <2> QED BY <2>2, <2>3 DEF ClusterInv
<1> QED BY <1>1, <1>2, <1>3, <1>4, <1>5, <1>6, <1>7 DEF Next

\* The invariant of the center and its servers: the handlers of the servers and of the
\* center, the timers, broken links and restarts keep it in every order.
THEOREM ClusterInvariant == Spec => []ClusterInv
<1>1. Init => ClusterInv
  BY InitHolds
<1>2. ClusterInv /\ [Next]_vars => ClusterInv'
  BY NextHolds
<1> QED BY <1>1, <1>2, PTL DEF Spec

\* The variables of the servers, of the links and of the center have their types.
THEOREM TypeCorrect == Spec => []TypeOK
<1>1. ClusterInv => TypeOK
  BY DEF ClusterInv
<1> QED BY <1>1, ClusterInvariant, PTL

\* A server whose connection to the center does not run has connect_center_timer_ on, and
\* one whose connection to the db server does not run has get_db_info_timer_ on or a
\* registration to be confirmed, unless start() failed after a success.
THEOREM RetriedHolds == Spec => []Retried
<1>1. ClusterInv => Retried
  BY DEF ClusterInv
<1> QED BY <1>1, ClusterInvariant, PTL

\* servers_ of the center has exactly the entries of the connections that have registered
\* and whose end at the center runs, but for those of a second registration.
THEOREM TableExactHolds == Spec => []TableExact
<1>1. ClusterInv => TableExact
  BY DEF ClusterInv
<1> QED BY <1>1, ClusterInvariant, PTL

=============================================================================
