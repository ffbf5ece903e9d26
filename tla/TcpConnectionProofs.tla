-------------------------- MODULE TcpConnectionProofs ---------------------------
(***************************************************************************)
(* Proofs about tcp_connection, for any messages, calls and buffer size    *)
(* and any number of connections.                                          *)
(***************************************************************************)
EXTENDS TcpConnection, SequenceTheorems, FiniteSetTheorems, TLAPS

\* The two ways to use a connection that its code does not allow for: a router that
\* starts it again, and an attempt to connect during an attempt.
WellUsed == ~RouterStarts /\ ~Impatient

-----------------------------------------------------------------------------
(* Types *)

\* An entry of calls_, an id and the call it is of; a message with an id that the peer
\* has sent, with the call it is the reply to, if any.
CallEntry == [id : Nat, msg : Calls]
CallReply == [id : Nat, msg : Calls \union {Request}]

\* The handlers and posted functions of the io_service, without bounds.
AnyHandler ==
    [op : {"close"}]
      \union [op : {"write"}, msg : Msgs \ Calls]
      \union [op : {"await"}, msg : Calls]
      \union [op : {"connect"}, ok : BOOLEAN]
      \union [op : {"wrote"}, ok : BOOLEAN, msgs : Seq(Msgs)]
      \union [op : {"read"}, ok : BOOLEAN, len : Nat, replies : Seq(CallReply)]

\* What has become of a message.
Statuses == {"new", "refused", "tested", "given", "answered"}

\* TypeOK without the bounds.
ConnTypes ==
    /\ running \in BOOLEAN /\ connects \in Nat
    /\ sock \in {"closed", "connecting", "connected"}
    /\ queue \in Seq(Msgs) /\ batch \in Seq(Msgs) /\ accepted \in Seq(Msgs)
    /\ wire \in Seq(Msgs) /\ writing \in Seq(Seq(Msgs))
    /\ reads \in Seq(Nat) /\ remainLen \in Nat /\ remainLen < BuffMax
    /\ ready \in Seq(AnyHandler) /\ incoming \in Seq(CallReply)
    /\ callId \in Nat /\ id \in [Calls -> Nat] /\ calls \subseteq CallEntry
    /\ status \in [Msgs -> Statuses] /\ givenTo \in [Msgs -> Nat]
    /\ answer \in [Calls -> SUBSET (Calls \union {Request})] /\ served \subseteq Calls
    /\ keyed \subseteq Calls /\ outOfStep \in BOOLEAN

\* A handler is of one of the kinds.
LEMMA HandlerKinds ==
  ASSUME NEW h \in AnyHandler
  PROVE  /\ h.op \in {"close", "write", "await", "connect", "wrote", "read"}
         /\ h.op = "write" => h.msg \in Msgs \ Calls
         /\ h.op = "await" => h.msg \in Calls /\ h = [op |-> "await", msg |-> h.msg]
         /\ h.op \in {"connect", "wrote", "read"} => h.ok \in BOOLEAN
         /\ h.op = "wrote" => h.msgs \in Seq(Msgs)
         /\ h.op = "read" => h.len \in Nat /\ h.replies \in Seq(CallReply)
<1>1. CASE h \in [op : {"close"}]
  BY <1>1
<1>2. CASE h \in [op : {"write"}, msg : Msgs \ Calls]
  BY <1>2
<1>3. CASE h \in [op : {"await"}, msg : Calls]
  BY <1>3
<1>4. CASE h \in [op : {"connect"}, ok : BOOLEAN]
  BY <1>4
<1>5. CASE h \in [op : {"wrote"}, ok : BOOLEAN, msgs : Seq(Msgs)]
  BY <1>5
<1>6. CASE h \in [op : {"read"}, ok : BOOLEAN, len : Nat, replies : Seq(CallReply)]
  BY <1>6
<1> QED BY <1>1, <1>2, <1>3, <1>4, <1>5, <1>6 DEF AnyHandler

-----------------------------------------------------------------------------
(* Queues *)

\* What Append does.
LEMMA Pushed ==
  ASSUME NEW S, NEW r \in Seq(S), NEW h \in S
  PROVE  /\ Append(r, h) \in Seq(S) /\ Len(Append(r, h)) = Len(r) + 1
         /\ DOMAIN Append(r, h) = DOMAIN r \union {Len(r) + 1}
         /\ Len(r) + 1 \notin DOMAIN r /\ DOMAIN r \subseteq Nat
         /\ \A i \in DOMAIN r : Append(r, h)[i] = r[i] /\ i < Len(r) + 1
         /\ Append(r, h)[Len(r) + 1] = h
<1>1. /\ Append(r, h) \in Seq(S) /\ Len(Append(r, h)) = Len(r) + 1
      /\ \A i \in 1 .. Len(r) : Append(r, h)[i] = r[i]
      /\ Append(r, h)[Len(r) + 1] = h
  BY AppendProperties
<1>2. DOMAIN r = 1 .. Len(r) /\ DOMAIN Append(r, h) = 1 .. Len(r) + 1 /\ Len(r) \in Nat
  BY <1>1, LenProperties
<1> QED BY <1>1, <1>2

\* What Tail does.
LEMMA Popped ==
  ASSUME NEW S, NEW r \in Seq(S), r # <<>>
  PROVE  /\ Tail(r) \in Seq(S) /\ Head(r) = r[1] /\ 1 \in DOMAIN r /\ Head(r) \in S
         /\ Len(Tail(r)) = Len(r) - 1 /\ Len(r) \in Nat
         /\ DOMAIN r \subseteq Nat \ {0} /\ DOMAIN Tail(r) \subseteq Nat \ {0}
         /\ \A i \in DOMAIN Tail(r) : i + 1 \in DOMAIN r /\ Tail(r)[i] = r[i + 1]
         /\ \A i \in DOMAIN r : i # 1 => i - 1 \in DOMAIN Tail(r) /\ Tail(r)[i - 1] = r[i]
<1>1. /\ Tail(r) \in Seq(S) /\ Len(Tail(r)) = Len(r) - 1
      /\ \A i \in 1 .. Len(Tail(r)) : Tail(r)[i] = r[i + 1]
  BY HeadTailProperties
<1>2. /\ DOMAIN r = 1 .. Len(r) /\ DOMAIN Tail(r) = 1 .. Len(r) - 1 /\ Len(r) \in Nat \ {0}
      /\ Head(r) = r[1]
  BY <1>1, LenProperties, EmptySeq
<1>3. r[1] \in S
  BY <1>2, ElementOfSeq
<1> QED BY <1>1, <1>2, <1>3

\* What \o does.
LEMMA Joined ==
  ASSUME NEW S, NEW r \in Seq(S), NEW z \in Seq(S)
  PROVE  /\ r \o z \in Seq(S) /\ Len(r \o z) = Len(r) + Len(z)
         /\ \A i \in DOMAIN r : i \in DOMAIN (r \o z) /\ (r \o z)[i] = r[i]
         /\ \A i \in DOMAIN z : Len(r) + i \in DOMAIN (r \o z) /\ (r \o z)[Len(r) + i] = z[i]
         /\ \A i \in DOMAIN (r \o z) : i \in DOMAIN r \/ (i - Len(r) \in DOMAIN z /\ (r \o z)[i] = z[i - Len(r)])
<1>1. /\ r \o z \in Seq(S) /\ Len(r \o z) = Len(r) + Len(z)
      /\ \A i \in 1 .. Len(r) + Len(z) : (r \o z)[i] = IF i <= Len(r) THEN r[i] ELSE z[i - Len(r)]
  BY ConcatProperties
<1>2. /\ DOMAIN r = 1 .. Len(r) /\ DOMAIN z = 1 .. Len(z) /\ DOMAIN (r \o z) = 1 .. Len(r) + Len(z)
      /\ Len(r) \in Nat /\ Len(z) \in Nat
  BY <1>1, LenProperties
<1> DEFINE q == r \o z
<1> HIDE DEF q
<1>3. /\ \A i \in DOMAIN r : i \in DOMAIN q /\ q[i] = r[i]
      /\ \A i \in DOMAIN z : Len(r) + i \in DOMAIN q /\ q[Len(r) + i] = z[i]
      /\ \A i \in DOMAIN q : i \in DOMAIN r \/ (i - Len(r) \in DOMAIN z /\ q[i] = z[i - Len(r)])
  <2>1. ASSUME NEW i \in DOMAIN r PROVE i \in DOMAIN q /\ q[i] = r[i]
    BY <1>1, <1>2 DEF q
  <2>2. ASSUME NEW i \in DOMAIN z PROVE Len(r) + i \in DOMAIN q /\ q[Len(r) + i] = z[i]
    BY <1>1, <1>2 DEF q
  <2>3. ASSUME NEW i \in DOMAIN q PROVE i \in DOMAIN r \/ (i - Len(r) \in DOMAIN z /\ q[i] = z[i - Len(r)])
    BY <1>1, <1>2 DEF q
  <2> QED BY <2>1, <2>2, <2>3
<1> QED BY <1>1, <1>3 DEF q

\* What is in r keeps its place in r \o z, and the rest is from z.
LEMMA JoinedFrom ==
  ASSUME NEW S, NEW r \in Seq(S), NEW z \in Seq(S), NEW q, q = r \o z
  PROVE  /\ q \in Seq(S)
         /\ \A i \in DOMAIN r : i \in DOMAIN q /\ q[i] = r[i]
         /\ \A i \in DOMAIN q : (i \in DOMAIN r /\ q[i] = r[i]) \/ (\E j \in DOMAIN z : q[i] = z[j])
<1>1. /\ q \in Seq(S)
      /\ \A i \in DOMAIN r : i \in DOMAIN q /\ q[i] = r[i]
      /\ \A i \in DOMAIN q : i \in DOMAIN r \/ (i - Len(r) \in DOMAIN z /\ q[i] = z[i - Len(r)])
  BY Joined
<1>2. ASSUME NEW i \in DOMAIN q
      PROVE  (i \in DOMAIN r /\ q[i] = r[i]) \/ (\E j \in DOMAIN z : q[i] = z[j])
  BY <1>1
<1> QED BY <1>1, <1>2

\* No handler in r is of the kind op; one is.
Nil(r, op) == \A i \in DOMAIN r : r[i].op # op
One(r, op) == \E i \in DOMAIN r : r[i].op = op /\ \A j \in DOMAIN r : r[j].op = op => j = i

\* Handlers are put in the queue.
LEMMA PushedKind ==
  ASSUME NEW r \in Seq(AnyHandler), NEW h \in AnyHandler, NEW op
  PROVE  /\ h.op # op => (Nil(r, op) => Nil(Append(r, h), op)) /\ (One(r, op) => One(Append(r, h), op))
         /\ h.op = op => (Nil(r, op) => One(Append(r, h), op))
<1> DEFINE q == Append(r, h)
<1>1. /\ DOMAIN q = DOMAIN r \union {Len(r) + 1} /\ Len(r) + 1 \notin DOMAIN r
      /\ \A i \in DOMAIN r : q[i] = r[i]
      /\ q[Len(r) + 1] = h
  BY Pushed
<1> HIDE DEF q
<1>2. h.op # op /\ Nil(r, op) => Nil(q, op)
  BY <1>1 DEF Nil
<1>3. ASSUME h.op # op, One(r, op) PROVE One(q, op)
  <2>1. PICK i \in DOMAIN r : r[i].op = op /\ \A j \in DOMAIN r : r[j].op = op => j = i
    BY <1>3 DEF One
  <2>2. i \in DOMAIN q /\ q[i].op = op
    BY <1>1, <2>1
  <2>3. \A j \in DOMAIN q : q[j].op = op => j = i
    BY <1>1, <1>3, <2>1
  <2> QED BY <2>2, <2>3 DEF One
<1>4. ASSUME h.op = op, Nil(r, op) PROVE One(q, op)
  <2>1. Len(r) + 1 \in DOMAIN q /\ q[Len(r) + 1].op = op
    BY <1>1, <1>4
  <2>2. \A j \in DOMAIN q : q[j].op = op => j = Len(r) + 1
    BY <1>1, <1>4 DEF Nil
  <2> QED BY <2>1, <2>2 DEF One
<1> QED BY <1>2, <1>3, <1>4 DEF q

\* The first handler leaves the queue.
LEMMA PoppedKind ==
  ASSUME NEW r \in Seq(AnyHandler), r # <<>>, NEW op
  PROVE  /\ Nil(r, op) => Nil(Tail(r), op)
         /\ Head(r).op # op => (One(r, op) => One(Tail(r), op))
         /\ Head(r).op = op => (One(r, op) => Nil(Tail(r), op))
         /\ Head(r).op = op => ~Nil(r, op)
<1> DEFINE q == Tail(r)
<1>1. /\ Head(r) = r[1] /\ 1 \in DOMAIN r
      /\ DOMAIN r \subseteq Nat \ {0} /\ DOMAIN q \subseteq Nat \ {0}
      /\ \A i \in DOMAIN q : i + 1 \in DOMAIN r /\ q[i] = r[i + 1]
      /\ \A i \in DOMAIN r : i # 1 => i - 1 \in DOMAIN q /\ q[i - 1] = r[i]
  BY Popped
<1> HIDE DEF q
<1>2. Nil(r, op) => Nil(q, op)
  BY <1>1 DEF Nil
<1>3. ASSUME Head(r).op # op, One(r, op) PROVE One(q, op)
  <2>1. PICK i \in DOMAIN r : r[i].op = op /\ \A j \in DOMAIN r : r[j].op = op => j = i
    BY <1>3 DEF One
  <2>2. i # 1
    BY <1>1, <1>3, <2>1
  <2>3. i - 1 \in DOMAIN q /\ q[i - 1].op = op
    BY <1>1, <2>1, <2>2
  <2>4. ASSUME NEW j \in DOMAIN q, q[j].op = op PROVE j = i - 1
    <3>1. j + 1 = i /\ j \in Nat
      BY <1>1, <2>1, <2>4
    <3> QED BY <3>1
  <2> QED BY <2>3, <2>4 DEF One
<1>4. ASSUME Head(r).op = op, One(r, op) PROVE Nil(q, op)
  <2>1. PICK i \in DOMAIN r : r[i].op = op /\ \A j \in DOMAIN r : r[j].op = op => j = i
    BY <1>4 DEF One
  <2>2. i = 1
    BY <1>1, <1>4, <2>1
  <2>3. ASSUME NEW j \in DOMAIN q, q[j].op = op PROVE FALSE
    <3>1. j + 1 \in DOMAIN r /\ r[j + 1].op = op /\ j \in Nat \ {0}
      BY <1>1, <2>3
    <3>2. j + 1 = 1
      BY <2>1, <2>2, <3>1
    <3> QED BY <3>1, <3>2
  <2> QED BY <2>3 DEF Nil
<1>5. Head(r).op = op => ~Nil(r, op)
  BY <1>1 DEF Nil
<1> QED BY <1>2, <1>3, <1>4, <1>5 DEF q

\* Handlers are put in the queue behind others.
LEMMA JoinedKind ==
  ASSUME NEW r \in Seq(AnyHandler), NEW z \in Seq(AnyHandler), NEW op
  PROVE  /\ Nil(z, op) => (Nil(r, op) => Nil(r \o z, op)) /\ (One(r, op) => One(r \o z, op))
         /\ One(z, op) => (Nil(r, op) => One(r \o z, op))
<1> DEFINE q == r \o z
<1>1. /\ \A i \in DOMAIN r : i \in DOMAIN q /\ q[i] = r[i]
      /\ \A i \in DOMAIN z : Len(r) + i \in DOMAIN q /\ q[Len(r) + i] = z[i]
      /\ \A i \in DOMAIN q : i \in DOMAIN r \/ (i - Len(r) \in DOMAIN z /\ q[i] = z[i - Len(r)])
      /\ q \in Seq(AnyHandler)
  BY Joined
<1>2. Len(r) \in Nat /\ DOMAIN q = 1 .. Len(q) /\ DOMAIN z = 1 .. Len(z)
  BY <1>1, LenProperties
<1> HIDE DEF q
<1>3. Nil(z, op) /\ Nil(r, op) => Nil(q, op)
  BY <1>1 DEF Nil
<1>4. ASSUME Nil(z, op), One(r, op) PROVE One(q, op)
  <2>1. PICK i \in DOMAIN r : r[i].op = op /\ \A j \in DOMAIN r : r[j].op = op => j = i
    BY <1>4 DEF One
  <2>2. i \in DOMAIN q /\ q[i].op = op
    BY <1>1, <2>1
  <2>3. \A j \in DOMAIN q : q[j].op = op => j = i
    BY <1>1, <1>4, <2>1 DEF Nil
  <2> QED BY <2>2, <2>3 DEF One
<1>5. ASSUME One(z, op), Nil(r, op) PROVE One(q, op)
  <2>1. PICK i \in DOMAIN z : z[i].op = op /\ \A j \in DOMAIN z : z[j].op = op => j = i
    BY <1>5 DEF One
  <2>2. Len(r) + i \in DOMAIN q /\ q[Len(r) + i].op = op
    BY <1>1, <2>1
  <2>3. ASSUME NEW j \in DOMAIN q, q[j].op = op PROVE j = Len(r) + i
    <3>1. j - Len(r) \in DOMAIN z /\ z[j - Len(r)].op = op
      BY <1>1, <1>5, <2>3 DEF Nil
    <3>2. j - Len(r) = i /\ j \in Int /\ Len(r) \in Int
      BY <1>2, <2>1, <3>1
    <3> QED BY <3>2
  <2> QED BY <2>2, <2>3 DEF One
<1> QED BY <1>3, <1>4, <1>5 DEF q

-----------------------------------------------------------------------------
(* Every variable keeps its type *)

\* What each kind of handler is made of.
LEMMA Handlers ==
  /\ [op |-> "close"] \in AnyHandler
  /\ \A m \in Msgs \ Calls : [op |-> "write", msg |-> m] \in AnyHandler
  /\ \A m \in Calls : [op |-> "await", msg |-> m] \in AnyHandler
  /\ \A ok \in BOOLEAN : [op |-> "connect", ok |-> ok] \in AnyHandler
  /\ \A ok \in BOOLEAN, q \in Seq(Msgs) : [op |-> "wrote", ok |-> ok, msgs |-> q] \in AnyHandler
  /\ \A ok \in BOOLEAN, n \in Nat, q \in Seq(CallReply) :
        [op |-> "read", ok |-> ok, len |-> n, replies |-> q] \in AnyHandler
  /\ BrokenRead \in AnyHandler
<1>1. [op |-> "close"] \in AnyHandler
  BY DEF AnyHandler
<1>2. \A m \in Msgs \ Calls : [op |-> "write", msg |-> m] \in AnyHandler
  BY DEF AnyHandler
<1>3. \A m \in Calls : [op |-> "await", msg |-> m] \in AnyHandler
  BY DEF AnyHandler
<1>4. \A ok \in BOOLEAN : [op |-> "connect", ok |-> ok] \in AnyHandler
  BY DEF AnyHandler
<1>5. \A ok \in BOOLEAN, q \in Seq(Msgs) : [op |-> "wrote", ok |-> ok, msgs |-> q] \in AnyHandler
  BY DEF AnyHandler
<1>6. \A ok \in BOOLEAN, n \in Nat, q \in Seq(CallReply) :
        [op |-> "read", ok |-> ok, len |-> n, replies |-> q] \in AnyHandler
  BY DEF AnyHandler
<1>7. BrokenRead \in AnyHandler
  <2>1. FALSE \in BOOLEAN /\ 0 \in Nat /\ <<>> \in Seq(CallReply)
    OBVIOUS
  <2> QED BY <1>6, <2>1 DEF BrokenRead
<1> QED BY <1>1, <1>2, <1>3, <1>4, <1>5, <1>6, <1>7

\* What a close of the socket puts in the queue.
CutConnect == IF sock = "connecting" THEN <<[op |-> "connect", ok |-> FALSE]>> ELSE <<>>
CutWrites == [i \in DOMAIN writing |-> [op |-> "wrote", ok |-> FALSE, msgs |-> writing[i]]]
CutReads == [i \in DOMAIN reads |-> BrokenRead]

\* A close of the socket ends what is in flight, each with its handler.
LEMMA CutKinds ==
  ASSUME ConnTypes
  PROVE  /\ CutConnect \in Seq(AnyHandler) /\ CutWrites \in Seq(AnyHandler) /\ CutReads \in Seq(AnyHandler)
         /\ sock # "connecting" => CutConnect = <<>>
         /\ sock = "connecting" => One(CutConnect, "connect") /\ Len(CutConnect) = 1
         /\ writing = <<>> => CutWrites = <<>>
         /\ reads = <<>> => CutReads = <<>>
         /\ Len(reads) = 1 => One(CutReads, "read")
         /\ \A i \in DOMAIN CutConnect : CutConnect[i].op = "connect"
         /\ \A i \in DOMAIN CutWrites : CutWrites[i].op = "wrote"
         /\ \A i \in DOMAIN CutReads : CutReads[i] = BrokenRead /\ CutReads[i].op = "read"
<1>1. BrokenRead.op = "read" /\ BrokenRead \in AnyHandler
  BY Handlers DEF BrokenRead
<1>2. /\ CutConnect \in Seq(AnyHandler)
      /\ sock # "connecting" => CutConnect = <<>>
      /\ sock = "connecting" => One(CutConnect, "connect") /\ Len(CutConnect) = 1
      /\ \A i \in DOMAIN CutConnect : CutConnect[i].op = "connect"
  <2> DEFINE h == [op |-> "connect", ok |-> FALSE]
  <2>1. h \in AnyHandler /\ h.op = "connect"
    BY Handlers
  <2> HIDE DEF h
  <2>2. /\ <<h>> \in Seq(AnyHandler) /\ Len(<<h>>) = 1 /\ DOMAIN <<h>> = {1} /\ <<h>>[1] = h
        /\ <<>> \in Seq(AnyHandler) /\ DOMAIN <<>> = {}
    BY <2>1
  <2>3. One(<<h>>, "connect")
    BY <2>1, <2>2 DEF One
  <2>4. CutConnect = IF sock = "connecting" THEN <<h>> ELSE <<>>
    BY DEF CutConnect, h
  <2>5. CASE sock = "connecting"
    BY <2>1, <2>2, <2>3, <2>4, <2>5
  <2>6. CASE sock # "connecting"
    BY <2>2, <2>4, <2>6
  <2> QED BY <2>5, <2>6
<1>3. /\ CutWrites \in Seq(AnyHandler) /\ (writing = <<>> => CutWrites = <<>>)
      /\ \A i \in DOMAIN CutWrites : CutWrites[i].op = "wrote"
  <2>1. Len(writing) \in Nat /\ DOMAIN writing = 1 .. Len(writing)
    BY LenProperties DEF ConnTypes
  <2>2. \A i \in DOMAIN writing : writing[i] \in Seq(Msgs)
    BY DEF ConnTypes
  <2>3. \A i \in DOMAIN writing : [op |-> "wrote", ok |-> FALSE, msgs |-> writing[i]] \in AnyHandler
    BY <2>2, Handlers
  <2>4. CutWrites \in [1 .. Len(writing) -> AnyHandler]
    BY <2>1, <2>3 DEF CutWrites
  <2>5. CutWrites \in Seq(AnyHandler)
    BY <2>1, <2>4
  <2>6. \A i \in DOMAIN CutWrites : CutWrites[i].op = "wrote"
    BY DEF CutWrites
  <2>7. writing = <<>> => CutWrites = <<>>
    BY DEF CutWrites
  <2> QED BY <2>5, <2>6, <2>7
<1>4. /\ CutReads \in Seq(AnyHandler) /\ (reads = <<>> => CutReads = <<>>)
      /\ Len(reads) = 1 => One(CutReads, "read")
      /\ \A i \in DOMAIN CutReads : CutReads[i] = BrokenRead /\ CutReads[i].op = "read"
  <2>1. Len(reads) \in Nat /\ DOMAIN reads = 1 .. Len(reads)
    BY LenProperties DEF ConnTypes
  <2>2. CutReads \in [1 .. Len(reads) -> AnyHandler] /\ DOMAIN CutReads = 1 .. Len(reads)
    BY <1>1, <2>1 DEF CutReads
  <2>3. CutReads \in Seq(AnyHandler)
    BY <2>1, <2>2
  <2>4. \A i \in DOMAIN CutReads : CutReads[i] = BrokenRead /\ CutReads[i].op = "read"
    BY <1>1 DEF CutReads
  <2>5. reads = <<>> => CutReads = <<>>
    BY DEF CutReads
  <2>6. ASSUME Len(reads) = 1 PROVE One(CutReads, "read")
    <3>1. DOMAIN CutReads = {1}
      BY <2>2, <2>6
    <3> QED BY <2>4, <3>1 DEF One
  <2> QED BY <2>3, <2>4, <2>5, <2>6
<1> QED BY <1>1, <1>2, <1>3, <1>4

\* The queue behind which a socket is closed.
LEMMA ClosedReady ==
  ASSUME ConnTypes, NEW r \in Seq(AnyHandler), CloseSocket(r)
  PROVE  /\ ready' = r \o CutConnect \o CutWrites \o CutReads
         /\ ready' \in Seq(AnyHandler)
         /\ writing' = <<>> /\ reads' = <<>> /\ served' = {} /\ incoming' = <<>>
<1>1. ready' = r \o CutConnect \o CutWrites \o CutReads
  BY DEF CloseSocket, CutConnect, CutWrites, CutReads
<1>2. r \o CutConnect \in Seq(AnyHandler)
  BY CutKinds, Joined
<1>3. r \o CutConnect \o CutWrites \in Seq(AnyHandler)
  BY <1>2, CutKinds, Joined
<1>4. r \o CutConnect \o CutWrites \o CutReads \in Seq(AnyHandler)
  BY <1>3, CutKinds, Joined
<1> QED BY <1>1, <1>4 DEF CloseSocket

\* The handlers before the close keep their places, and those behind them are of the
\* operations it cut off.
LEMMA ClosedFrom ==
  ASSUME ConnTypes, NEW r \in Seq(AnyHandler), CloseSocket(r)
  PROVE  /\ \A i \in DOMAIN r : i \in DOMAIN ready' /\ ready'[i] = r[i]
         /\ \A i \in DOMAIN ready' : \/ i \in DOMAIN r /\ ready'[i] = r[i]
                                     \/ ready'[i].op \in {"connect", "wrote"}
                                     \/ ready'[i] = BrokenRead
<1>1. PICK a : a = r \o CutConnect
  OBVIOUS
<1>2. PICK b : b = a \o CutWrites
  OBVIOUS
<1>3. PICK q : q = b \o CutReads
  OBVIOUS
<1>10. ready' = q
  BY <1>1, <1>2, <1>3, ClosedReady
<1>4. CutConnect \in Seq(AnyHandler) /\ CutWrites \in Seq(AnyHandler) /\ CutReads \in Seq(AnyHandler)
  BY CutKinds
<1>5. /\ a \in Seq(AnyHandler)
      /\ \A i \in DOMAIN r : i \in DOMAIN a /\ a[i] = r[i]
      /\ \A i \in DOMAIN a : (i \in DOMAIN r /\ a[i] = r[i]) \/ (\E j \in DOMAIN CutConnect : a[i] = CutConnect[j])
  BY <1>1, <1>4, JoinedFrom
<1>6. /\ b \in Seq(AnyHandler)
      /\ \A i \in DOMAIN a : i \in DOMAIN b /\ b[i] = a[i]
      /\ \A i \in DOMAIN b : (i \in DOMAIN a /\ b[i] = a[i]) \/ (\E j \in DOMAIN CutWrites : b[i] = CutWrites[j])
  BY <1>2, <1>4, <1>5, JoinedFrom
<1>7. /\ \A i \in DOMAIN b : i \in DOMAIN q /\ q[i] = b[i]
      /\ \A i \in DOMAIN q : (i \in DOMAIN b /\ q[i] = b[i]) \/ (\E j \in DOMAIN CutReads : q[i] = CutReads[j])
  BY <1>3, <1>4, <1>6, JoinedFrom
<1>8. \A i \in DOMAIN r : i \in DOMAIN q /\ q[i] = r[i]
  BY <1>5, <1>6, <1>7
<1>9. ASSUME NEW i \in DOMAIN q
      PROVE  (i \in DOMAIN r /\ q[i] = r[i]) \/ q[i].op \in {"connect", "wrote"} \/ q[i] = BrokenRead
  <2>1. (i \in DOMAIN b /\ q[i] = b[i]) \/ q[i] = BrokenRead
    BY <1>7, CutKinds
  <2>2. i \in DOMAIN b => (i \in DOMAIN a /\ b[i] = a[i]) \/ b[i].op = "wrote"
    BY <1>6, CutKinds
  <2>3. i \in DOMAIN a => (i \in DOMAIN r /\ a[i] = r[i]) \/ a[i].op = "connect"
    BY <1>5, CutKinds
  <2> QED BY <2>1, <2>2, <2>3
<1> QED BY <1>8, <1>9, <1>10

\* async_write_msg takes the messages it writes from the queue.
LEMMA AsyncWriteTypes ==
  ASSUME ConnTypes, NEW q \in Seq(Msgs), NEW b \in Seq(Msgs), AsyncWrite(q, b)
  PROVE  queue' \in Seq(Msgs) /\ batch' \in Seq(Msgs) /\ writing' \in Seq(Seq(Msgs))
<1>1. writing \in Seq(Seq(Msgs)) /\ <<>> \in Seq(Msgs)
  BY DEF ConnTypes
<1>2. CASE q = <<>>
  BY <1>1, <1>2 DEF AsyncWrite
<1>3. CASE q # <<>> /\ (~BatchSend \/ Len(q) = 1)
  <2>1. Head(q) \in Msgs
    BY <1>3, Popped
  <2>2. <<Head(q)>> \in Seq(Msgs)
    BY <2>1
  <2>3. Append(writing, <<Head(q)>>) \in Seq(Seq(Msgs))
    BY <1>1, <2>2, Pushed
  <2> QED BY <1>3, <2>3 DEF AsyncWrite
<1>4. CASE q # <<>> /\ ~(~BatchSend \/ Len(q) = 1)
  <2>1. Append(writing, q) \in Seq(Seq(Msgs))
    BY <1>1, Pushed
  <2> QED BY <1>1, <1>4, <2>1 DEF AsyncWrite
<1> QED BY <1>2, <1>3, <1>4

\* RemoveAt takes one element away.
LEMMA Removed ==
  ASSUME NEW S, NEW q \in Seq(S), NEW i \in DOMAIN q
  PROVE  /\ RemoveAt(q, i) \in Seq(S) /\ Len(RemoveAt(q, i)) = Len(q) - 1
         /\ Len(q) = 1 => RemoveAt(q, i) = <<>>
<1>1. DOMAIN q = 1 .. Len(q) /\ Len(q) \in Nat /\ \A j \in 1 .. Len(q) : q[j] \in S
  BY LenProperties, ElementOfSeq
<1> DEFINE a == SubSeq(q, 1, i - 1)
           b == SubSeq(q, i + 1, Len(q))
<1>2. i \in 1 .. Len(q) /\ i - 1 \in Int /\ i + 1 \in Int /\ Len(q) \in Int
  BY <1>1
<1>3. a \in Seq(S) /\ Len(a) = i - 1
  <2>1. \A j \in 1 .. i - 1 : q[j] \in S
    BY <1>1, <1>2
  <2>2. Len(a) = IF 1 <= i - 1 THEN i - 1 - 1 + 1 ELSE 0
    BY <1>2, <2>1, SubSeqProperties
  <2>3. Len(a) = i - 1
    BY <1>2, <2>2
  <2> QED BY <1>2, <2>1, <2>3, SubSeqProperties
<1>4. b \in Seq(S) /\ Len(b) = Len(q) - i
  <2>1. \A j \in i + 1 .. Len(q) : q[j] \in S
    BY <1>1, <1>2
  <2>2. Len(b) = IF i + 1 <= Len(q) THEN Len(q) - (i + 1) + 1 ELSE 0
    BY <1>2, <2>1, SubSeqProperties
  <2>3. Len(b) = Len(q) - i
    BY <1>2, <2>2
  <2> QED BY <1>2, <2>1, <2>3, SubSeqProperties
<1> HIDE DEF a, b
<1>5. a \o b \in Seq(S) /\ Len(a \o b) = Len(q) - 1
  BY <1>2, <1>3, <1>4, ConcatProperties
<1>6. RemoveAt(q, i) = a \o b
  BY DEF RemoveAt, a, b
<1>7. Len(a \o b) = 0 => a \o b = <<>>
  BY <1>5, EmptySeq
<1> QED BY <1>2, <1>5, <1>6, <1>7

\* A part of a sequence.
LEMMA PartType ==
  ASSUME NEW S, NEW q \in Seq(S), NEW m \in Nat, m >= 1, NEW n \in Nat, n <= Len(q)
  PROVE  SubSeq(q, m, n) \in Seq(S)
<1>1. \A j \in m .. n : q[j] \in S
  BY LenProperties, ElementOfSeq
<1> QED BY <1>1, SubSeqProperties

\* A new connection has the types.
LEMMA InitConnTypes == Init => ConnTypes
<1> SUFFICES ASSUME Init PROVE ConnTypes
  OBVIOUS
<1>1. BuffMax \in Nat \ {0} /\ \A S : <<>> \in Seq(S)
  BY ConnectionAssumption
<1>2. /\ running \in BOOLEAN /\ connects \in Nat /\ sock \in {"closed", "connecting", "connected"}
      /\ remainLen \in Nat /\ remainLen < BuffMax /\ callId \in Nat
  <2>1. running \in BOOLEAN /\ sock \in {"closed", "connecting", "connected"}
    BY DEF Init
  <2>2. connects = 0 /\ remainLen = 0 /\ callId = 0 /\ 0 < BuffMax
    BY <1>1 DEF Init
  <2> QED BY <2>1, <2>2
<1>3. /\ queue \in Seq(Msgs) /\ batch \in Seq(Msgs) /\ accepted \in Seq(Msgs)
      /\ wire \in Seq(Msgs) /\ writing \in Seq(Seq(Msgs)) /\ reads \in Seq(Nat)
      /\ ready \in Seq(AnyHandler) /\ incoming \in Seq(CallReply)
  BY <1>1 DEF Init
<1>4. /\ id \in [Calls -> Nat] /\ calls \subseteq CallEntry /\ givenTo \in [Msgs -> Nat]
      /\ served \subseteq Calls /\ keyed \subseteq Calls /\ outOfStep \in BOOLEAN
  BY DEF Init
<1>5. status \in [Msgs -> Statuses] /\ answer \in [Calls -> SUBSET (Calls \union {Request})]
  BY DEF Init, Statuses
<1> QED BY <1>2, <1>3, <1>4, <1>5 DEF ConnTypes

\* start() empties the queue.
LEMMA StartTypes ==
  ASSUME ConnTypes, NEW times \in Nat, Start(times), sock' \in {"closed", "connecting", "connected"}
  PROVE  /\ running' \in BOOLEAN
         /\ queue' \in Seq(Msgs) /\ batch' \in Seq(Msgs) /\ accepted' \in Seq(Msgs)
         /\ reads' \in Seq(Nat) /\ remainLen' \in Nat /\ remainLen' < BuffMax
         /\ outOfStep' \in BOOLEAN
<1>1. CASE sock' = "connected"
  <2>1. BuffMax \in Nat \ {0} /\ <<>> \in Seq(Msgs) /\ reads \in Seq(Nat)
    BY ConnectionAssumption DEF ConnTypes
  <2>2. [i \in 1 .. times |-> 0] \in Seq(Nat)
    OBVIOUS
  <2>3. reads \o [i \in 1 .. times |-> 0] \in Seq(Nat)
    BY <2>1, <2>2, ConcatProperties
  <2>4. /\ running' = TRUE /\ queue' = <<>> /\ batch' = <<>> /\ accepted' = <<>>
        /\ remainLen' = 0 /\ reads' = reads \o [i \in 1 .. times |-> 0]
        /\ outOfStep' = FALSE
    BY <1>1 DEF Start, Cleared
  <2>5. 0 < BuffMax
    BY <2>1
  <2> QED BY <2>1, <2>3, <2>4, <2>5
<1>2. CASE sock' # "connected"
  BY <1>2 DEF Start, ConnTypes, writeVars, readVars
<1> QED BY <1>1, <1>2

\* What is unchanged by most actions.
LEMMA HandlerTypes ==
  ASSUME ConnTypes, ready # <<>>
  PROVE  Head(ready) \in AnyHandler /\ Tail(ready) \in Seq(AnyHandler)
  BY Popped DEF ConnTypes

\* A read ends the connection, or on_receive_msgs gets the messages it brought; these are
\* lost only when the reader has fallen out of step.
ReadFails == OnError /\ UNCHANGED <<reads, remainLen, outOfStep, calls, status, answer>>
ReadTaken(r) ==
    /\ Head(ready).ok /\ UNCHANGED <<running, up>> /\ outOfStep' \in BOOLEAN
    /\ outOfStep => outOfStep'
    /\ \E left \in 0 .. BuffMax - 1 : remainLen' = left /\ reads' = NextRead(left)
    /\ r = Head(ready).replies \/ (r = <<>> /\ outOfStep')
    /\ OnReceiveMsgs(r)

LEMMA ReadOutcome ==
  ASSUME ConnTypes, HandleRead
  PROVE  ReadFails \/ \E r \in Seq(CallReply) : ReadTaken(r)
<1> DEFINE h == Head(ready)
<1>1. ready # <<>> /\ h.op = "read"
  BY DEF HandleRead, Runs
<1>2. h.replies \in Seq(CallReply) /\ <<>> \in Seq(CallReply)
  BY <1>1, HandlerTypes, HandlerKinds
<1>3. outOfStep \in BOOLEAN /\ 0 \in 0 .. BuffMax - 1
  BY ConnectionAssumption DEF ConnTypes
<1>4. CASE /\ h.ok
           /\ \E r \in {h.replies} \union (IF outOfStep THEN {<<>>} ELSE {}) : OnReceiveMsgs(r)
           /\ \E left \in 0 .. BuffMax - 1 : remainLen' = left /\ reads' = NextRead(left)
           /\ UNCHANGED <<running, up, outOfStep>>
  <2>1. PICK r \in {h.replies} \union (IF outOfStep THEN {<<>>} ELSE {}) : OnReceiveMsgs(r)
    BY <1>4
  <2>2. r = h.replies \/ (r = <<>> /\ outOfStep)
    BY <2>1
  <2> HIDE DEF h
  <2>3. r \in Seq(CallReply) /\ (r = h.replies \/ (r = <<>> /\ outOfStep'))
    BY <1>2, <1>4, <2>2
  <2>4. outOfStep' \in BOOLEAN /\ (outOfStep => outOfStep')
    BY <1>3, <1>4
  <2>5. ReadTaken(r)
    BY <1>4, <2>1, <2>3, <2>4 DEF h, ReadTaken
  <2> QED BY <2>3, <2>5
<1>5. CASE /\ h.ok /\ remainLen' = 0 /\ outOfStep' = TRUE /\ reads' = NextRead(0)
           /\ UNCHANGED <<running, up, calls, status, answer>>
  <2>1. Answered(<<>>) = {}
    BY DEF Answered
  <2>2. OnReceiveMsgs(<<>>)
    <3>1. calls' = calls \ {}
      BY <1>5
    <3>2. status' = [m \in Msgs |-> IF \E c \in {} : c.msg = m THEN "answered" ELSE status[m]]
      BY <1>5 DEF ConnTypes
    <3>3. \A m : {<<>>[i].msg : i \in {j \in DOMAIN <<>> :
                                        \E c \in {} : c.msg = m /\ c.id = <<>>[j].id}} = {}
      OBVIOUS
    <3>4. answer' = [m \in Calls |-> answer[m] \union {}]
      BY <1>5 DEF ConnTypes
    <3>5. answer' = [m \in Calls |-> answer[m] \union
                       {<<>>[i].msg : i \in {j \in DOMAIN <<>> :
                                               \E c \in {} : c.msg = m /\ c.id = <<>>[j].id}}]
      BY <3>3, <3>4
    <3> QED BY <2>1, <3>1, <3>2, <3>5 DEF OnReceiveMsgs
  <2>3. \E left \in 0 .. BuffMax - 1 : remainLen' = left /\ reads' = NextRead(left)
    BY <1>3, <1>5
  <2> HIDE DEF h
  <2>4. outOfStep' \in BOOLEAN /\ (outOfStep => outOfStep')
    BY <1>5
  <2>5. ReadTaken(<<>>)
    BY <1>5, <2>2, <2>3, <2>4 DEF h, ReadTaken
  <2> QED BY <1>2, <2>5
<1>6. \/ ReadFails
      \/ /\ h.ok
         /\ \E r \in {h.replies} \union (IF outOfStep THEN {<<>>} ELSE {}) : OnReceiveMsgs(r)
         /\ \E left \in 0 .. BuffMax - 1 : remainLen' = left /\ reads' = NextRead(left)
         /\ UNCHANGED <<running, up, outOfStep>>
      \/ /\ h.ok /\ remainLen' = 0 /\ outOfStep' = TRUE /\ reads' = NextRead(0)
         /\ UNCHANGED <<running, up, calls, status, answer>>
  BY DEF HandleRead, ReadFails, readVars
<1> QED BY <1>4, <1>5, <1>6

\* Every action keeps the types.
LEMMA ConnTypesStep == ConnTypes /\ [Next]_vars => ConnTypes'
<1> SUFFICES ASSUME ConnTypes, [Next]_vars PROVE ConnTypes'
  OBVIOUS
<1> USE DEF sockVars, peerVars, writeVars, readVars, callVars, msgVars
<1>0. BuffMax \in Nat \ {0} /\ Calls \subseteq Msgs /\ CallIds \subseteq Nat
  BY ConnectionAssumption
<1>1. ASSUME NEW m \in Msgs, Write(m) PROVE ConnTypes'
  BY <1>1 DEF Write, ConnTypes, Statuses
<1>17. ASSUME NEW m \in Msgs, Post(m) PROVE ConnTypes'
  <2>1. ready' \in Seq(AnyHandler)
    <3> DEFINE h == [op |-> IF m \in Calls THEN "await" ELSE "write", msg |-> m]
    <3>1. h \in AnyHandler
      BY Handlers
    <3>2. ready' = Append(ready, h) /\ ready \in Seq(AnyHandler)
      BY <1>17 DEF Post, ConnTypes
    <3> HIDE DEF h
    <3> QED BY <3>1, <3>2, Pushed
  <2>2. status' \in [Msgs -> Statuses] /\ givenTo' \in [Msgs -> Nat]
    BY <1>17 DEF Post, ConnTypes, Statuses
  <2>3. UNCHANGED <<running, sock, connects, queue, batch, accepted, wire, writing, reads,
                    remainLen, outOfStep, incoming, callId, calls, answer, served>>
    BY <1>17 DEF Post
  <2>4. id' \in [Calls -> Nat] /\ keyed' \subseteq Calls
    <3>1. CASE m \in Calls
      <4>1. PICK k \in {0} \union CallIds : /\ id' = [id EXCEPT ![m] = k]
                                           /\ keyed' = IF k = 0 THEN keyed ELSE keyed \union {m}
        BY <1>17, <3>1 DEF Post
      <4>2. k \in Nat
        BY <1>0
      <4> QED BY <3>1, <4>1, <4>2 DEF ConnTypes
    <3>2. CASE m \notin Calls
      BY <1>17, <3>2 DEF Post, ConnTypes
    <3> QED BY <3>1, <3>2
  <2> QED BY <2>1, <2>2, <2>3, <2>4 DEF ConnTypes
<1>18. ASSUME NEW k \in CallIds, PeerSends(k) PROVE ConnTypes'
  <2>1. [id |-> k, msg |-> Request] \in CallReply
    BY <1>0 DEF CallReply
  <2>2. incoming' \in Seq(CallReply)
    BY <1>18, <2>1, Pushed DEF PeerSends, ConnTypes
  <2> QED BY <1>18, <2>2 DEF PeerSends, ConnTypes
<1>2. CASE Close
  <2>1. ready' \in Seq(AnyHandler)
    BY <1>2, Handlers, Pushed DEF Close, ConnTypes
  <2> QED BY <1>2, <2>1 DEF Close, ConnTypes
<1>3. CASE AsyncConnect
  <2>1. /\ ready' \in Seq(AnyHandler) /\ writing' = <<>> /\ reads' = <<>>
        /\ served' = {} /\ incoming' = <<>>
    BY <1>3, ClosedReady DEF AsyncConnect, ConnTypes
  <2>2. connects' = connects + 1 /\ sock' = "connecting" /\ wire' = <<>>
        /\ UNCHANGED <<running, queue, batch, accepted, remainLen, outOfStep, callId, id, keyed, calls, status,
                       givenTo, answer>>
    BY <1>3 DEF AsyncConnect
  <2>3. \A S : <<>> \in Seq(S)
    OBVIOUS
  <2> QED BY <2>1, <2>2, <2>3 DEF ConnTypes
<1>4. CASE Accept
  <2>1. Start(1) /\ sock' \in {"closed", "connecting", "connected"} /\ connects' = 1
        /\ UNCHANGED <<served, incoming, writing, wire, ready, callId, id, keyed, calls, status,
                       givenTo, answer>>
    BY <1>4 DEF Accept
  <2>2. /\ running' \in BOOLEAN
        /\ queue' \in Seq(Msgs) /\ batch' \in Seq(Msgs) /\ accepted' \in Seq(Msgs)
        /\ reads' \in Seq(Nat) /\ remainLen' \in Nat /\ remainLen' < BuffMax
        /\ outOfStep' \in BOOLEAN
    BY <2>1, StartTypes
  <2> QED BY <2>1, <2>2 DEF ConnTypes
<1>5. CASE ConnectEnds
  <2>1. PICK ok \in BOOLEAN : /\ sock' = IF ok THEN "connected" ELSE "closed"
                              /\ ready' = Append(ready, [op |-> "connect", ok |-> ok])
    BY <1>5 DEF ConnectEnds
  <2>2. [op |-> "connect", ok |-> ok] \in AnyHandler
    BY Handlers
  <2>3. ready' \in Seq(AnyHandler)
    BY <2>1, <2>2, Pushed DEF ConnTypes
  <2>4. sock' \in {"closed", "connecting", "connected"}
    BY <2>1
  <2> QED BY <1>5, <2>3, <2>4 DEF ConnectEnds, ConnTypes
<1>6. CASE ResetEarly
  BY <1>6 DEF ResetEarly, ConnTypes
<1>7. CASE WriteEnds
  <2>1. PICK ok \in BOOLEAN :
          /\ ready' = Append(ready, [op |-> "wrote", ok |-> ok, msgs |-> Head(writing)])
          /\ wire' = IF ok THEN wire \o Head(writing) ELSE wire
          /\ served' = IF ok THEN served \union (Range(Head(writing)) \intersect Calls) ELSE served
    BY <1>7 DEF WriteEnds
  <2>2. /\ writing # <<>> /\ writing' = Tail(writing)
        /\ UNCHANGED <<running, sock, connects, incoming, queue, batch, accepted, reads,
                       remainLen, outOfStep, callId, id, keyed, calls, status, givenTo, answer>>
    BY <1>7 DEF WriteEnds
  <2>3. Head(writing) \in Seq(Msgs) /\ Tail(writing) \in Seq(Seq(Msgs))
    BY <2>2, Popped DEF ConnTypes
  <2>4. [op |-> "wrote", ok |-> ok, msgs |-> Head(writing)] \in AnyHandler
    BY <2>3, Handlers
  <2>5. ready' \in Seq(AnyHandler)
    BY <2>1, <2>4, Pushed DEF ConnTypes
  <2>6. wire' \in Seq(Msgs)
    BY <2>1, <2>3, ConcatProperties DEF ConnTypes
  <2>7. served' \subseteq Calls
    BY <2>1 DEF ConnTypes
  <2> QED BY <2>2, <2>3, <2>5, <2>6, <2>7 DEF ConnTypes
<1>8. ASSUME NEW m \in Calls, PeerReplies(m) PROVE ConnTypes'
  <2>1. [id |-> id[m], msg |-> m] \in CallReply
    BY DEF ConnTypes, CallReply
  <2>2. incoming' \in Seq(CallReply)
    BY <1>8, <2>1, Pushed DEF PeerReplies, ConnTypes
  <2>3. served' \subseteq Calls
    BY <1>8 DEF PeerReplies, ConnTypes
  <2> QED BY <1>8, <2>2, <2>3 DEF PeerReplies, ConnTypes
<1>9. ASSUME NEW i \in DOMAIN reads, NEW n \in 1 .. BuffMax, NEW k \in 0 .. Len(incoming), ReadEnds(i, n, k)
      PROVE  ConnTypes'
  <2>1. Len(incoming) \in Nat /\ incoming \in Seq(CallReply) /\ n \in Nat /\ k \in Nat /\ k <= Len(incoming)
    BY <1>0, LenProperties DEF ConnTypes
  <2>2. SubSeq(incoming, 1, k) \in Seq(CallReply) /\ SubSeq(incoming, k + 1, Len(incoming)) \in Seq(CallReply)
    <3>1. k + 1 \in Nat /\ k + 1 >= 1
      BY <2>1
    <3> QED BY <2>1, <3>1, PartType
  <2>3. [op |-> "read", ok |-> TRUE, len |-> n, replies |-> SubSeq(incoming, 1, k)] \in AnyHandler
    BY <2>1, <2>2, Handlers
  <2>4. ready' \in Seq(AnyHandler)
    BY <1>9, <2>3, Pushed DEF ReadEnds, ConnTypes
  <2>5. reads' \in Seq(Nat)
    BY <1>9, Removed DEF ReadEnds, ConnTypes
  <2>6. incoming' \in Seq(CallReply)
    BY <1>9, <2>2 DEF ReadEnds
  <2>7. UNCHANGED <<running, sock, connects, served, queue, batch, accepted, writing, wire,
                    remainLen, outOfStep, callId, id, keyed, calls, status, givenTo, answer>>
    BY <1>9 DEF ReadEnds
  <2> QED BY <2>4, <2>5, <2>6, <2>7 DEF ConnTypes
<1>10. ASSUME NEW i \in DOMAIN reads, ReadBreaks(i) PROVE ConnTypes'
  <2>1. ready' \in Seq(AnyHandler)
    BY <1>10, Handlers, Pushed DEF ReadBreaks, ConnTypes
  <2>2. reads' \in Seq(Nat)
    BY <1>10, Removed DEF ReadBreaks, ConnTypes
  <2>3. UNCHANGED <<running, sock, connects, served, incoming, queue, batch, accepted, writing,
                    wire, remainLen, outOfStep, callId, id, keyed, calls, status, givenTo, answer>>
    BY <1>10 DEF ReadBreaks
  <2> QED BY <2>1, <2>2, <2>3 DEF ConnTypes
<1>11. CASE HandleConnect
  <2>1. /\ ready # <<>> /\ ready' = Tail(ready)
        /\ Start(IF RouterStarts /\ Head(ready).ok THEN 2 ELSE 1)
        /\ UNCHANGED <<sock, connects, served, incoming, writing, wire, callId, id, keyed, calls, status,
                       givenTo, answer>>
    BY <1>11 DEF HandleConnect, Runs
  <2>2. sock' \in {"closed", "connecting", "connected"}
    BY <2>1 DEF ConnTypes
  <2>3. /\ running' \in BOOLEAN
        /\ queue' \in Seq(Msgs) /\ batch' \in Seq(Msgs) /\ accepted' \in Seq(Msgs)
        /\ reads' \in Seq(Nat) /\ remainLen' \in Nat /\ remainLen' < BuffMax
        /\ outOfStep' \in BOOLEAN
    BY <2>1, <2>2, StartTypes
  <2> QED BY <2>1, <2>3, HandlerTypes DEF ConnTypes
<1>12. CASE HandleClose
  <2>1. /\ ready # <<>>
        /\ UNCHANGED <<connects, batch, accepted, wire, remainLen, outOfStep, callId, id, keyed, calls, status,
                       givenTo, answer>>
    BY <1>12 DEF HandleClose, Runs
  <2>2. CASE forceClosed
    <3>1. ready' = Tail(ready) /\ UNCHANGED <<running, sock, served, incoming, queue, writing, reads>>
      BY <1>12, <2>2 DEF HandleClose
    <3> QED BY <2>1, <3>1, HandlerTypes DEF ConnTypes
  <2>3. CASE ~forceClosed
    <3>1. CloseSocket(Tail(ready)) /\ sock' = "closed" /\ queue' = <<>> /\ running' = FALSE
      BY <1>12, <2>3 DEF HandleClose
    <3>2. Tail(ready) \in Seq(AnyHandler)
      BY <2>1, HandlerTypes
    <3>3. /\ ready' \in Seq(AnyHandler) /\ writing' = <<>> /\ reads' = <<>>
          /\ served' = {} /\ incoming' = <<>>
      BY <3>1, <3>2, ClosedReady
    <3>4. \A S : <<>> \in Seq(S)
      OBVIOUS
    <3> QED BY <2>1, <3>1, <3>3, <3>4 DEF ConnTypes
  <2> QED BY <2>2, <2>3
<1>13. CASE HandleWrite
  <2> DEFINE m == Head(ready).msg
  <2>1. /\ ready # <<>> /\ ready' = Tail(ready) /\ Head(ready).op \in {"write", "await"}
        /\ UNCHANGED <<running, sock, connects, served, incoming, wire, reads, remainLen, outOfStep, status,
                       givenTo, answer, keyed>>
    BY <1>13 DEF HandleWrite, Runs
  <2>2. /\ ready' \in Seq(AnyHandler) /\ m \in Msgs
        /\ Head(ready).op = "await" => m \in Calls
    BY <1>0, <2>1, HandlerTypes, HandlerKinds
  <2>3. CASE running
    <3>1. DoWrite(m)
      BY <1>13, <2>3 DEF HandleWrite
    <3>2. Append(accepted, m) \in Seq(Msgs) /\ Append(queue, m) \in Seq(Msgs)
      <4> HIDE DEF m
      <4> QED BY <2>2, Pushed DEF ConnTypes
    <3>3. queue' \in Seq(Msgs) /\ batch' \in Seq(Msgs) /\ writing' \in Seq(Seq(Msgs)) /\ accepted' \in Seq(Msgs)
      <4> HIDE DEF m
      <4>1. CASE WriteInProgress
        BY <3>1, <3>2, <4>1 DEF DoWrite, ConnTypes
      <4>2. CASE ~WriteInProgress
        <5>1. AsyncWrite(Append(queue, m), batch) /\ batch \in Seq(Msgs) /\ accepted' = Append(accepted, m)
          BY <3>1, <4>2 DEF DoWrite, ConnTypes
        <5> QED BY <3>2, <5>1, AsyncWriteTypes
      <4> QED BY <4>1, <4>2
    <3>4. callId' \in Nat /\ id' \in [Calls -> Nat] /\ calls' \subseteq CallEntry
      <4>1. CASE Head(ready).op = "await"
        <5>1. /\ callId' = IF id[m] > 0 THEN callId ELSE NextCallId
              /\ id' = [id EXCEPT ![m] = CallIdOf(m)]
              /\ calls' = Emplaced([id |-> CallIdOf(m), msg |-> m])
          BY <1>13, <2>1, <2>3, <4>1 DEF HandleWrite, Runs
        <5> HIDE DEF m
        <5>2. NextCallId \in Nat /\ m \in Calls
          BY <2>2, <4>1 DEF NextCallId, ConnTypes
        <5>3. CallIdOf(m) \in Nat
          BY <5>2 DEF CallIdOf, ConnTypes
        <5>4. [id |-> CallIdOf(m), msg |-> m] \in CallEntry
          BY <5>2, <5>3 DEF CallEntry
        <5>5. callId' \in Nat
          BY <5>1, <5>2 DEF ConnTypes
        <5>6. id' \in [Calls -> Nat]
          BY <5>1, <5>2, <5>3 DEF ConnTypes
        <5> QED BY <5>1, <5>4, <5>5, <5>6 DEF Emplaced, ConnTypes
      <4>2. CASE Head(ready).op # "await"
        BY <1>13, <2>1, <2>3, <4>2 DEF HandleWrite, Runs, ConnTypes
      <4> QED BY <4>1, <4>2
    <3> QED BY <2>1, <2>2, <3>3, <3>4 DEF ConnTypes
  <2>4. CASE ~running
    BY <1>13, <2>1, <2>2, <2>4 DEF HandleWrite, ConnTypes
  <2> QED BY <2>3, <2>4
<1>14. CASE HandleWrote
  <2>1. /\ ready # <<>> /\ ready' = Tail(ready)
        /\ UNCHANGED <<sock, connects, served, incoming, accepted, wire, reads, remainLen, outOfStep, callId, id, keyed,
                       calls, status, givenTo, answer>>
    BY <1>14 DEF HandleWrote, Runs
  <2>2. ready' \in Seq(AnyHandler)
    BY <2>1, HandlerTypes
  <2>3. CASE ~running \/ ~Head(ready).ok
    <3>1. UNCHANGED <<queue, batch, writing>> /\ running' \in BOOLEAN
      BY <1>14, <2>3 DEF HandleWrote, OnError, ConnTypes
    <3> QED BY <2>1, <2>2, <3>1 DEF ConnTypes
  <2>4. CASE running /\ Head(ready).ok
    <3>1. running' = running
      BY <1>14, <2>4 DEF HandleWrote
    <3>2. queue \in Seq(Msgs) /\ batch \in Seq(Msgs) /\ FrontPopped \in Seq(Msgs) /\ <<>> \in Seq(Msgs)
      <4>1. queue \in Seq(Msgs) /\ batch \in Seq(Msgs) /\ Len(queue) \in Nat /\ <<>> \in Seq(Msgs)
        BY LenProperties DEF ConnTypes
      <4> QED BY <4>1, PartType DEF FrontPopped
    <3>3. AsyncWrite(FrontPopped, batch) \/ AsyncWrite(queue, <<>>)
      BY <1>14, <2>4 DEF HandleWrote
    <3>4. queue' \in Seq(Msgs) /\ batch' \in Seq(Msgs) /\ writing' \in Seq(Seq(Msgs))
      BY <3>2, <3>3, AsyncWriteTypes
    <3> QED BY <2>1, <2>2, <3>1, <3>4 DEF ConnTypes
  <2> QED BY <2>3, <2>4
<1>15. CASE HandleRead
  <2> DEFINE h == Head(ready)
  <2>1. /\ ready # <<>> /\ ready' = Tail(ready) /\ h.op = "read"
        /\ UNCHANGED <<sock, connects, served, incoming, queue, batch, accepted, writing, wire,
                       callId, id, keyed, givenTo>>
    BY <1>15 DEF HandleRead, Runs
  <2>2. ready' \in Seq(AnyHandler) /\ h.len \in Nat /\ h.replies \in Seq(CallReply)
    BY <2>1, HandlerTypes, HandlerKinds
  <2>3. CASE ReadFails
    BY <2>1, <2>2, <2>3 DEF ReadFails, OnError, ConnTypes
  <2>4. ASSUME NEW r \in Seq(CallReply), ReadTaken(r) PROVE ConnTypes'
    <3> DEFINE done == Answered(r)
               Told(m) == {r[i].msg : i \in {j \in DOMAIN r :
                                 \E c \in done : c.msg = m /\ c.id = r[j].id}}
    <3>1. /\ calls' = calls \ done /\ running' = running /\ outOfStep' \in BOOLEAN
          /\ status' = [m \in Msgs |-> IF \E c \in done : c.msg = m THEN "answered" ELSE status[m]]
          /\ answer' = [m \in Calls |-> answer[m] \union Told(m)]
          /\ \E left \in 0 .. BuffMax - 1 : remainLen' = left /\ reads' = NextRead(left)
      BY <2>4 DEF ReadTaken, OnReceiveMsgs
    <3>2. \A i \in DOMAIN r : r[i] \in CallReply
      OBVIOUS
    <3>3. \A m : Told(m) \subseteq Calls \union {Request}
      BY <3>2 DEF CallReply
    <3> HIDE DEF done, Told, h
    <3>4. answer' \in [Calls -> SUBSET (Calls \union {Request})]
      BY <3>1, <3>3 DEF ConnTypes
    <3>5. status' \in [Msgs -> Statuses]
      BY <3>1 DEF ConnTypes, Statuses
    <3>6. calls' \subseteq CallEntry
      BY <3>1 DEF ConnTypes
    <3>7. remainLen' \in Nat /\ remainLen' < BuffMax /\ reads' \in Seq(Nat)
      <4>1. PICK left \in 0 .. BuffMax - 1 : remainLen' = left /\ reads' = NextRead(left)
        BY <3>1
      <4>2. left \in Nat /\ left < BuffMax
        BY <1>0
      <4>3. NextRead(left) \in Seq(Nat)
        BY <4>2, Pushed DEF NextRead, ConnTypes
      <4> QED BY <4>1, <4>2, <4>3
    <3> QED BY <2>1, <2>2, <3>1, <3>4, <3>5, <3>6, <3>7 DEF ConnTypes
  <2> QED BY <1>15, <2>3, <2>4, ReadOutcome
<1>16. CASE UNCHANGED vars
  BY <1>16 DEF vars, ConnTypes
<1> QED BY <1>1, <1>2, <1>3, <1>4, <1>5, <1>6, <1>7, <1>8, <1>9, <1>10, <1>11, <1>12, <1>13,
           <1>14, <1>15, <1>16, <1>17, <1>18 DEF Next, Handle

-----------------------------------------------------------------------------
(* The inductive invariant *)

\* Nothing goes on on the socket.
Idle ==
    ~running /\ writing = <<>> /\ reads = <<>> /\ served = {} /\ wire = <<>>

\* No thread is between the test of is_running_ and the post before there is a connection.
TestInv == connects = 0 => \A m \in Msgs : status[m] # "tested"

\* A connection that runs is not being connected.  The handler of an attempt has nothing
\* but posted functions behind it: what is left of the connection before was in the queue
\* first.
Posts == {"close", "write", "await"}
SockInv ==
    /\ running => sock = "connected"
    /\ sock = "connecting" => Nil(ready, "connect")
    /\ \A i, j \in DOMAIN ready : ready[i].op = "connect" /\ j > i => ready[j].op \in Posts
    /\ Connecting \/ connects = 0 => Idle
    /\ connects = 0 => sock = "closed" /\ \A i \in DOMAIN ready : ready[i].op = "close"

\* There is at most one read, of a running connection exactly one, and what it reads has
\* a place in the buffer.
ReadInv ==
    /\ \/ Len(reads) = 1 /\ Nil(ready, "read")
       \/ reads = <<>> /\ One(ready, "read")
       \/ ~running /\ reads = <<>> /\ Nil(ready, "read")
    /\ \A i \in DOMAIN reads : remainLen <= reads[i]
    /\ \A i \in DOMAIN ready : ready[i].op = "read" => remainLen + ready[i].len <= BuffMax

\* A batch has two messages at least, so that handle_write can tell it from the front.
WriteInv ==
    running =>
        /\ batch # <<>> => Len(batch) > 1
        /\ \/ Current = <<>> /\ writing = <<>> /\ Nil(ready, "wrote")
           \/ Current # <<>> /\ writing = <<Current>> /\ Nil(ready, "wrote")
           \/ /\ Current # <<>> /\ writing = <<>> /\ One(ready, "wrote")
              /\ \A i \in DOMAIN ready : ready[i].op = "wrote" => ready[i].msgs = Current

\* As long as no write has failed, what was accepted is what the peer has, what is written and
\* what waits, in this order.
OrderInv ==
    running /\ (\A i \in DOMAIN ready : ready[i].op = "wrote" => ready[i].ok) =>
        accepted = wire \o InFlight \o Waiting

\* Every message of q is in the set X; every message in the connection's hands is.
Of(q, X) == \A i \in DOMAIN q : q[i] \in X
Written(X) == Of(queue, X) /\ Of(batch, X) /\ \A i \in DOMAIN writing : Of(writing[i], X)

\* What a running connection holds was posted to it; so was what waits behind the handler
\* of an attempt, by threads that saw the connection before.
GivenHere == {m \in Msgs : givenTo[m] = connects}
Behind(r, X) ==
    \A i, j \in DOMAIN r :
        r[i].op = "connect" /\ j > i /\ r[j].op \in {"write", "await"} => r[j].msg \in X
GivenInv ==
    /\ running => /\ Written(GivenHere) /\ Of(wire, GivenHere)
                  /\ \A i \in DOMAIN ready :
                        ready[i].op \in {"write", "await"} => ready[i].msg \in GivenHere
    /\ Behind(ready, GivenHere)

\* An id that do_await_write has given is that of one call, for good; a call that came with
\* one keeps it.  An answer has the id of the call it is given to.
Early == {"new", "tested"}
Unkeyed == Calls \ keyed
NumInv ==
    /\ \A m \in Unkeyed : id[m] <= callId
    /\ \A m, n \in Unkeyed : id[m] = id[n] /\ id[m] # 0 => m = n
    /\ \A m \in keyed : id[m] # 0
    /\ \A m \in Calls : status[m] \in Early => id[m] = 0
    /\ \A m, n \in Calls : n \in answer[m] => id[n] = id[m] /\ id[m] # 0

\* What carries the id of a call has the right one.  do_await_write runs once for a call.
Numbered == {m \in Msgs : m \in Calls => id[m] # 0}
Genuine == {r \in CallReply : r.msg \in Calls => r.id # 0 /\ r.id = id[r.msg]}
Once(r) == \A i, j \in DOMAIN r :
              r[i].op = "await" /\ r[j].op = "await" /\ r[i].msg = r[j].msg => i = j
IdInv ==
    /\ NumInv
    /\ calls \subseteq Genuine
    /\ Of(incoming, Genuine)
    /\ \A i \in DOMAIN ready : ready[i].op = "read" => Of(ready[i].replies, Genuine)
    /\ served \subseteq Numbered
    /\ Written(Numbered)
    /\ Once(ready)
    /\ \A i \in DOMAIN ready : ready[i].op = "await" =>
          status[ready[i].msg] \notin Early /\ (ready[i].msg \in keyed \/ id[ready[i].msg] = 0)

\* Where the call m is, once it has an id: what is written stays in write_msg_queue_ or
\* in the batch until handle_write, but is not looked for there.
Within(m, q) == \E i \in DOMAIN q : q[i] = m
Replied(m, q) == \E i \in DOMAIN q : q[i].msg = m
Posted(m, r) == \E i \in DOMAIN r : r[i].op = "await" /\ r[i].msg = m
Evident(m, r) ==
    \E i \in DOMAIN r : \/ r[i].op = "read" /\ (r[i].ok => Replied(m, r[i].replies))
                        \/ r[i].op = "wrote" /\ ~r[i].ok
Underway(m) ==
    \/ Within(m, Waiting) \/ Within(m, InFlight) \/ m \in served
    \/ Replied(m, incoming) \/ Evident(m, ready)
\* A call of a running connection that no other shares its id with.
Waits(m) ==
    /\ running /\ ~outOfStep /\ status[m] = "given" /\ Within(m, accepted)
    /\ \A n \in Calls : Shared(m, n) => n = m
Tracked(m) == Waits(m) => Underway(m) /\ \E c \in calls : c.msg = m
AcceptInv == \A m \in Calls : Within(m, accepted) => status[m] \notin Early
TrackInv == AcceptInv /\ \A m \in Calls : Tracked(m)

ConnInv ==
    ConnTypes /\ TestInv /\ SockInv /\ ReadInv /\ WriteInv /\ OrderInv /\ GivenInv /\ IdInv /\ TrackInv

-----------------------------------------------------------------------------
(* The socket *)

\* Whether an attempt to connect is on its way.
LEMMA ConnectingNil == Connecting <=> sock = "connecting" \/ ~Nil(ready, "connect")
  BY DEF Connecting, Nil

\* A handler other than that of an attempt is put in the queue.
LEMMA SockAppend ==
  ASSUME ConnTypes, SockInv, NEW h \in AnyHandler, h.op # "connect",
         h.op \notin Posts => ~Idle, h.op # "close" => connects # 0,
         ready' = Append(ready, h), UNCHANGED <<running, sock, connects>>, Idle => Idle'
  PROVE  SockInv'
<1>1. /\ DOMAIN ready' = DOMAIN ready \union {Len(ready) + 1} /\ Len(ready) + 1 \notin DOMAIN ready
      /\ \A i \in DOMAIN ready : ready'[i] = ready[i] /\ i < Len(ready) + 1
      /\ ready'[Len(ready) + 1] = h
      /\ DOMAIN ready \subseteq Nat /\ Len(ready) \in Nat
  BY Pushed, LenProperties DEF ConnTypes
<1>2. Connecting' <=> Connecting
  BY <1>1 DEF Connecting
<1>3. sock' = "connecting" => Nil(ready', "connect")
  BY <1>1 DEF SockInv, Nil
<1>4. ASSUME NEW i \in DOMAIN ready', NEW j \in DOMAIN ready', ready'[i].op = "connect", j > i
      PROVE  ready'[j].op \in Posts
  <2>1. i \in DOMAIN ready /\ ready[i].op = "connect"
    BY <1>1, <1>4
  <2>2. CASE j \in DOMAIN ready
    BY <1>1, <1>4, <2>1, <2>2 DEF SockInv
  <2>3. CASE j = Len(ready) + 1
    <3>1. Idle
      BY <2>1 DEF SockInv, Connecting
    <3> QED BY <1>1, <2>3, <3>1
  <2> QED BY <1>1, <2>2, <2>3
<1>5. connects' = 0 => sock' = "closed" /\ \A i \in DOMAIN ready' : ready'[i].op = "close"
  BY <1>1 DEF SockInv
<1>6. Connecting' \/ connects' = 0 => Idle'
  BY <1>2 DEF SockInv
<1>7. running' => sock' = "connected"
  BY DEF SockInv
<1> QED BY <1>3, <1>4, <1>5, <1>6, <1>7 DEF SockInv

\* A handler is taken from the queue, and the connection is not started.
LEMMA SockTail ==
  ASSUME ConnTypes, SockInv, ready # <<>>, ready' = Tail(ready), UNCHANGED <<sock, connects>>,
         running' => running, Idle => Idle'
  PROVE  SockInv'
<1>1. /\ DOMAIN ready \subseteq Nat \ {0} /\ DOMAIN ready' \subseteq Nat \ {0}
      /\ \A i \in DOMAIN ready' : i + 1 \in DOMAIN ready /\ ready'[i] = ready[i + 1]
  BY Popped DEF ConnTypes
<1>2. Connecting' => Connecting
  BY <1>1 DEF Connecting
<1>3. sock' = "connecting" => Nil(ready', "connect")
  BY <1>1 DEF SockInv, Nil
<1>4. ASSUME NEW i \in DOMAIN ready', NEW j \in DOMAIN ready', ready'[i].op = "connect", j > i
      PROVE  ready'[j].op \in Posts
  <2>1. i + 1 \in DOMAIN ready /\ j + 1 \in DOMAIN ready /\ j + 1 > i + 1
    BY <1>1, <1>4
  <2>2. ready[i + 1].op = "connect" /\ ready'[j] = ready[j + 1]
    BY <1>1, <1>4
  <2> QED BY <2>1, <2>2 DEF SockInv
<1>5. connects' = 0 => sock' = "closed" /\ \A i \in DOMAIN ready' : ready'[i].op = "close"
  BY <1>1 DEF SockInv
<1>6. Connecting' \/ connects' = 0 => Idle'
  BY <1>2 DEF SockInv
<1>7. running' => sock' = "connected"
  BY DEF SockInv
<1> QED BY <1>3, <1>4, <1>5, <1>6, <1>7 DEF SockInv

\* The handler of an attempt is the first: the others are posted functions.
LEMMA ConnectHead ==
  ASSUME ConnTypes, SockInv, Runs("connect")
  PROVE  /\ ready # <<>> /\ Idle /\ connects # 0 /\ sock # "connecting"
         /\ Tail(ready) \in Seq(AnyHandler)
         /\ \A i \in DOMAIN Tail(ready) : Tail(ready)[i].op \in Posts
<1>1. ready # <<>> /\ Head(ready).op = "connect"
  BY DEF Runs
<1>2. /\ DOMAIN ready \subseteq Nat \ {0} /\ DOMAIN Tail(ready) \subseteq Nat \ {0}
      /\ \A i \in DOMAIN Tail(ready) : i + 1 \in DOMAIN ready /\ Tail(ready)[i] = ready[i + 1]
      /\ Head(ready) = ready[1] /\ 1 \in DOMAIN ready /\ Tail(ready) \in Seq(AnyHandler)
  BY <1>1, Popped DEF ConnTypes
<1>3. ready[1].op = "connect"
  BY <1>1, <1>2
<1>4. Idle /\ sock # "connecting"
  BY <1>2, <1>3 DEF SockInv, Connecting, Nil
<1>5. connects # 0
  BY <1>2, <1>3 DEF SockInv
<1>6. ASSUME NEW i \in DOMAIN Tail(ready) PROVE Tail(ready)[i].op \in Posts
  <2>1. i + 1 \in DOMAIN ready /\ i + 1 > 1 /\ Tail(ready)[i] = ready[i + 1]
    BY <1>2
  <2> QED BY <1>2, <1>3, <2>1 DEF SockInv
<1> QED BY <1>1, <1>2, <1>4, <1>5, <1>6

\* start() runs behind an attempt, or for a connection that was accepted: nothing of
\* another connection is left.
LEMMA StartIdle ==
  ASSUME ConnTypes, SockInv, HandleConnect \/ Accept
  PROVE  /\ Idle /\ connects' # 0 /\ sock' # "connecting"
         /\ ready' \in Seq(AnyHandler) /\ \A i \in DOMAIN ready' : ready'[i].op \in Posts
         /\ writing' = <<>> /\ served' = {} /\ wire' = <<>>
         /\ \/ sock' = "connected" /\ running'
            \/ sock' # "connected" /\ ~running'
<1>1. CASE HandleConnect
  <2>1. Runs("connect") /\ ready' = Tail(ready)
        /\ UNCHANGED <<sock, connects, served, incoming, writing, wire>>
    BY <1>1 DEF HandleConnect, sockVars, peerVars
  <2>2. sock' = "connected" => running' = TRUE
    BY <1>1 DEF HandleConnect, Start
  <2>3. sock' # "connected" => running' = running
    BY <1>1 DEF HandleConnect, Start
  <2> QED BY <2>1, <2>2, <2>3, ConnectHead DEF Idle
<1>2. CASE Accept
  <2>1. /\ connects = 0 /\ connects' = 1 /\ sock' \in {"closed", "connected"}
        /\ UNCHANGED <<served, incoming, writing, wire, ready>>
    BY <1>2 DEF Accept, peerVars
  <2>2. sock' = "connected" => running' = TRUE
    BY <1>2 DEF Accept, Start
  <2>3. sock' # "connected" => running' = running
    BY <1>2 DEF Accept, Start
  <2>4. Idle /\ \A i \in DOMAIN ready : ready[i].op = "close"
    BY <2>1 DEF SockInv
  <2>5. ready \in Seq(AnyHandler)
    BY DEF ConnTypes
  <2> QED BY <2>1, <2>2, <2>3, <2>4, <2>5 DEF Idle, Posts
<1> QED BY <1>1, <1>2

\* A new connection has no socket and no attempt.
LEMMA InitSock == Init => SockInv /\ TestInv
  BY DEF Init, SockInv, TestInv, Idle, Nil, Connecting

\* Only write and await_write of a running connection pass the test.
LEMMA TestStep ==
  ASSUME ConnTypes, SockInv, TestInv, [Next]_vars
  PROVE  TestInv'
<1> USE DEF sockVars, peerVars, writeVars, readVars, callVars, msgVars
<1> SUFFICES ASSUME connects' = 0, NEW m \in Msgs PROVE status'[m] # "tested"
  BY DEF TestInv
<1>1. connects = 0
  <2>1. connects' = connects \/ connects' = connects + 1 \/ connects' = 1
    BY DEF Next, Handle, vars, Write, Post, Close, AsyncConnect,
       Accept, ConnectEnds, ResetEarly, WriteEnds, PeerReplies, PeerSends, ReadEnds, ReadBreaks,
       HandleConnect, HandleClose, HandleWrite, HandleWrote, HandleRead
  <2>2. connects \in Nat
    BY DEF ConnTypes
  <2> QED BY <2>1, <2>2
<1>2. status[m] # "tested" /\ ~running
  BY <1>1 DEF TestInv, SockInv, Idle
<1>3. ASSUME NEW n \in Msgs, Write(n) PROVE status'[m] # "tested"
  BY <1>2, <1>3 DEF Write, ConnTypes
<1>4. ASSUME NEW n \in Msgs, Post(n) PROVE status'[m] # "tested"
  BY <1>2, <1>4 DEF Post, ConnTypes
<1>5. CASE HandleRead
  <2>1. ReadFails => status' = status
    BY DEF ReadFails
  <2>2. ASSUME NEW r, ReadTaken(r) PROVE status'[m] # "tested"
    <3>1. status' = [n \in Msgs |-> IF \E c \in Answered(r) : c.msg = n THEN "answered" ELSE status[n]]
      BY <2>2 DEF ReadTaken, OnReceiveMsgs
    <3>2. status'[m] = IF \E c \in Answered(r) : c.msg = m THEN "answered" ELSE status[m]
      BY <3>1
    <3> QED BY <1>2, <3>2
  <2> QED BY <1>2, <1>5, <2>1, <2>2, ReadOutcome
<1>6. (\E n \in Msgs : Write(n) \/ Post(n)) \/ HandleRead \/ status' = status
  BY DEF Next, Handle, vars, Close, AsyncConnect,
     Accept, ConnectEnds, ResetEarly, WriteEnds, PeerReplies, PeerSends, ReadEnds, ReadBreaks,
     HandleConnect, HandleClose, HandleWrite, HandleWrote
<1> QED BY <1>2, <1>3, <1>4, <1>5, <1>6

\* What a close of the socket leaves in the queue of handlers.
LEMMA ClosedSock ==
  ASSUME ConnTypes, SockInv, NEW r \in Seq(AnyHandler), CloseSocket(r)
  PROVE  /\ Idle /\ sock # "connecting" => ready' = r
         /\ Idle /\ sock = "connecting" => ready' = r \o CutConnect
         /\ sock # "connecting" /\ Nil(r, "connect") => Nil(ready', "connect")
<1>1. ready' = r \o CutConnect \o CutWrites \o CutReads
  BY ClosedReady
<1>2. CutConnect \in Seq(AnyHandler) /\ CutWrites \in Seq(AnyHandler) /\ CutReads \in Seq(AnyHandler)
  BY CutKinds
<1>3. r \o CutConnect \in Seq(AnyHandler) /\ r \o CutConnect \o CutWrites \in Seq(AnyHandler)
  BY <1>2, Joined
<1>4. \A q \in Seq(AnyHandler) : q \o <<>> = q
  BY ConcatEmptySeq
<1>5. Idle => CutWrites = <<>> /\ CutReads = <<>>
  BY CutKinds DEF Idle
<1>6. sock # "connecting" => CutConnect = <<>>
  BY CutKinds
<1>7. Idle => ready' = r \o CutConnect
  BY <1>1, <1>3, <1>4, <1>5
<1>8. ASSUME sock # "connecting", Nil(r, "connect") PROVE Nil(ready', "connect")
  <2>1. Nil(CutWrites, "connect") /\ Nil(CutReads, "connect")
    BY CutKinds DEF Nil
  <2>2. r \o CutConnect = r
    BY <1>4, <1>6, <1>8
  <2>3. Nil(r \o CutConnect \o CutWrites, "connect")
    BY <1>2, <1>8, <2>1, <2>2, JoinedKind
  <2> QED BY <1>1, <1>2, <1>3, <2>1, <2>3, JoinedKind
<1> QED BY <1>4, <1>6, <1>7, <1>8

\* Every action keeps the invariant of the socket.
LEMMA SockStep ==
  ASSUME WellUsed, ConnTypes, TestInv, SockInv, [Next]_vars
  PROVE  SockInv'
<1> USE DEF sockVars, peerVars, writeVars, readVars, callVars, msgVars
<1>1. ASSUME NEW m \in Msgs, Write(m) PROVE SockInv'
  <2>1. UNCHANGED <<running, sock, connects, writing, reads, served, wire, ready>>
    BY <1>1 DEF Write
  <2> QED BY <2>1 DEF SockInv, Idle, Connecting, Nil
<1>16. ASSUME NEW m \in Msgs, Post(m) PROVE SockInv'
  <2>1. UNCHANGED <<running, sock, connects, writing, reads, served, wire>>
    BY <1>16 DEF Post
  <2> DEFINE h == [op |-> IF m \in Calls THEN "await" ELSE "write", msg |-> m]
  <2>2. h \in AnyHandler /\ h.op # "connect" /\ h.op \in Posts
    BY Handlers DEF Posts
  <2>3. ready' = Append(ready, h) /\ connects # 0
    BY <1>16 DEF Post, TestInv
  <2>4. Idle => Idle'
    BY <2>1 DEF Idle
  <2> HIDE DEF h
  <2> QED BY <2>1, <2>2, <2>3, <2>4, SockAppend
<1>17. ASSUME NEW k \in CallIds, PeerSends(k) PROVE SockInv'
  <2>1. UNCHANGED <<running, sock, connects, writing, reads, served, wire, ready>>
    BY <1>17 DEF PeerSends
  <2> QED BY <2>1 DEF SockInv, Idle, Connecting, Nil
<1>2. CASE Close
  <2> DEFINE h == [op |-> "close"]
  <2>1. h \in AnyHandler /\ h.op = "close" /\ h.op \in Posts
    BY Handlers DEF Posts
  <2>2. UNCHANGED <<running, sock, connects, writing, reads, served, incoming, wire>>
        /\ ready' = Append(ready, h)
    BY <1>2 DEF Close
  <2>3. Idle => Idle'
    BY <2>2 DEF Idle
  <2> HIDE DEF h
  <2> QED BY <2>1, <2>2, <2>3, SockAppend
<1>3. CASE AsyncConnect
  <2>1. /\ ~running /\ ~Connecting /\ CloseSocket(ready) /\ sock' = "connecting" /\ wire' = <<>>
        /\ connects' = connects + 1 /\ running' = running
    BY <1>3 DEF AsyncConnect, WellUsed
  <2>2. ready \in Seq(AnyHandler) /\ connects \in Nat
    BY DEF ConnTypes
  <2>3. sock # "connecting" /\ Nil(ready, "connect")
    BY <2>1, ConnectingNil
  <2>4. Nil(ready', "connect") /\ writing' = <<>> /\ reads' = <<>> /\ served' = {} /\ incoming' = <<>>
    BY <2>1, <2>2, <2>3, ClosedSock, ClosedReady
  <2>5. connects' # 0
    BY <2>1, <2>2
  <2> QED BY <2>1, <2>4, <2>5 DEF SockInv, Idle, Nil
<1>4. CASE HandleConnect \/ Accept
  <2>1. /\ connects' # 0 /\ sock' # "connecting"
        /\ \A i \in DOMAIN ready' : ready'[i].op \in Posts
        /\ running' => sock' = "connected"
    BY <1>4, StartIdle
  <2>2. ~Connecting' /\ Nil(ready', "connect")
    BY <2>1 DEF Connecting, Nil, Posts
  <2> QED BY <2>1, <2>2 DEF SockInv
<1>5. CASE ConnectEnds
  <2>1. PICK ok \in BOOLEAN : /\ sock' = IF ok THEN "connected" ELSE "closed"
                              /\ ready' = Append(ready, [op |-> "connect", ok |-> ok])
    BY <1>5 DEF ConnectEnds
  <2>2. sock = "connecting" /\ UNCHANGED <<running, connects, writing, reads, served, incoming, wire>>
    BY <1>5 DEF ConnectEnds
  <2>3. Idle /\ Nil(ready, "connect") /\ connects # 0
    BY <2>2 DEF SockInv, Connecting
  <2> DEFINE h == [op |-> "connect", ok |-> ok]
  <2>4. h \in AnyHandler /\ h.op = "connect"
    BY Handlers
  <2> HIDE DEF h
  <2>5. ready' = Append(ready, h)
    BY <2>1 DEF h
  <2>6. /\ DOMAIN ready' = DOMAIN ready \union {Len(ready) + 1}
        /\ \A i \in DOMAIN ready : ready'[i] = ready[i] /\ i < Len(ready) + 1
        /\ DOMAIN ready \subseteq Nat /\ Len(ready) \in Nat
    BY <2>4, <2>5, Pushed, LenProperties DEF ConnTypes
  <2>7. ASSUME NEW i \in DOMAIN ready', NEW j \in DOMAIN ready', ready'[i].op = "connect", j > i
        PROVE  FALSE
    <3>1. i \notin DOMAIN ready
      BY <2>3, <2>6, <2>7 DEF Nil
    <3>2. i = Len(ready) + 1
      BY <2>6, <3>1
    <3> QED BY <2>6, <2>7, <3>2
  <2>8. sock' # "connecting" /\ connects' # 0 /\ Idle'
    BY <2>1, <2>2, <2>3 DEF Idle
  <2>9. ~running'
    BY <2>2, <2>3 DEF Idle
  <2> QED BY <2>7, <2>8, <2>9 DEF SockInv
<1>6. CASE ResetEarly
  <2>1. /\ sock = "connected" /\ sock' = "closed" /\ Connecting
        /\ UNCHANGED <<running, connects, writing, reads, served, incoming, wire, ready>>
    BY <1>6 DEF ResetEarly, Connecting
  <2>2. Idle
    BY <2>1 DEF SockInv
  <2> QED BY <2>1, <2>2 DEF SockInv, Idle
<1>7. CASE WriteEnds
  <2>1. PICK ok \in BOOLEAN :
          ready' = Append(ready, [op |-> "wrote", ok |-> ok, msgs |-> Head(writing)])
    BY <1>7 DEF WriteEnds
  <2>2. writing # <<>> /\ UNCHANGED <<running, sock, connects>>
    BY <1>7 DEF WriteEnds
  <2> DEFINE h == [op |-> "wrote", ok |-> ok, msgs |-> Head(writing)]
  <2>3. Head(writing) \in Seq(Msgs)
    BY <2>2, Popped DEF ConnTypes
  <2>4. h \in AnyHandler /\ h.op = "wrote" /\ ~Idle /\ connects # 0
    BY <2>2, <2>3, Handlers DEF Idle, SockInv
  <2> HIDE DEF h
  <2> QED BY <2>1, <2>2, <2>4, SockAppend DEF h
<1>8. ASSUME NEW m \in Calls, PeerReplies(m) PROVE SockInv'
  <2>1. ~Idle /\ UNCHANGED <<running, sock, connects, ready>>
    BY <1>8 DEF PeerReplies, Idle
  <2>2. ~Connecting /\ connects # 0
    BY <2>1 DEF SockInv
  <2> QED BY <2>1, <2>2 DEF SockInv, Connecting, Nil
<1>9. ASSUME NEW i \in DOMAIN reads, NEW n \in 1 .. BuffMax, NEW k \in 0 .. Len(incoming), ReadEnds(i, n, k)
      PROVE  SockInv'
  <2>1. UNCHANGED <<running, sock, connects>> /\ ~Idle
        /\ ready' = Append(ready, [op |-> "read", ok |-> TRUE, len |-> n, replies |-> SubSeq(incoming, 1, k)])
    BY <1>9 DEF ReadEnds, Idle
  <2>2. incoming \in Seq(CallReply) /\ Len(incoming) \in Nat /\ n \in Nat
    BY LenProperties, ConnectionAssumption DEF ConnTypes
  <2>3. SubSeq(incoming, 1, k) \in Seq(CallReply)
    BY <2>2, PartType
  <2> DEFINE h == [op |-> "read", ok |-> TRUE, len |-> n, replies |-> SubSeq(incoming, 1, k)]
  <2>4. h \in AnyHandler /\ h.op = "read" /\ connects # 0
    BY <2>1, <2>2, <2>3, Handlers DEF SockInv
  <2> HIDE DEF h
  <2> QED BY <2>1, <2>4, SockAppend DEF h
<1>10. ASSUME NEW i \in DOMAIN reads, ReadBreaks(i) PROVE SockInv'
  <2>1. UNCHANGED <<running, sock, connects>> /\ ~Idle /\ ready' = Append(ready, BrokenRead)
    BY <1>10 DEF ReadBreaks, Idle
  <2>2. BrokenRead \in AnyHandler /\ BrokenRead.op = "read" /\ connects # 0
    BY <2>1, Handlers DEF BrokenRead, SockInv
  <2> QED BY <2>1, <2>2, SockAppend
<1>11. CASE HandleClose
  <2>1. ready # <<>> /\ UNCHANGED <<connects, wire>>
    BY <1>11 DEF HandleClose, Runs
  <2>2. CASE forceClosed
    <3>1. ready' = Tail(ready) /\ UNCHANGED <<running, sock, served, incoming, writing, reads>>
      BY <1>11, <2>2 DEF HandleClose
    <3> QED BY <2>1, <3>1, SockTail DEF Idle
  <2>3. CASE ~forceClosed
    <3>1. CloseSocket(Tail(ready)) /\ sock' = "closed" /\ running' = FALSE
      BY <1>11, <2>3 DEF HandleClose
    <3>2. Tail(ready) \in Seq(AnyHandler)
      BY <2>1, HandlerTypes
    <3>3. writing' = <<>> /\ reads' = <<>> /\ served' = {} /\ incoming' = <<>>
      BY <3>1, <3>2, ClosedReady
    <3>4. Idle => Idle'
      BY <2>1, <3>1, <3>3 DEF Idle
    <3> DEFINE r == Tail(ready)
    <3>5. /\ DOMAIN ready \subseteq Nat \ {0} /\ DOMAIN r \subseteq Nat \ {0}
          /\ \A i \in DOMAIN r : i + 1 \in DOMAIN ready /\ r[i] = ready[i + 1]
      BY <2>1, Popped DEF ConnTypes
    <3>6. /\ Idle /\ sock # "connecting" => ready' = r
          /\ Idle /\ sock = "connecting" => ready' = r \o CutConnect
          /\ sock # "connecting" /\ Nil(r, "connect") => Nil(ready', "connect")
      BY <3>1, <3>2, ClosedSock
    <3> HIDE DEF r
    <3>7. CASE sock = "connecting"
      <4>1. Idle /\ Nil(ready, "connect") /\ connects # 0
        BY <3>7 DEF SockInv, Connecting
      <4>2. CutConnect \in Seq(AnyHandler) /\ Len(CutConnect) = 1 /\ r \in Seq(AnyHandler)
        BY <3>2, <3>7, CutKinds DEF r
      <4>3. /\ DOMAIN ready' = 1 .. Len(r) + 1 /\ Len(r) \in Nat /\ DOMAIN r = 1 .. Len(r)
            /\ \A i \in DOMAIN r : ready'[i] = r[i]
        <5>1. r \o CutConnect \in Seq(AnyHandler) /\ Len(r \o CutConnect) = Len(r) + 1
              /\ \A i \in DOMAIN r : (r \o CutConnect)[i] = r[i]
          <6>1. /\ r \o CutConnect \in Seq(AnyHandler)
                /\ Len(r \o CutConnect) = Len(r) + Len(CutConnect)
            BY <4>2, Joined
          <6>2. \A i \in DOMAIN r : (r \o CutConnect)[i] = r[i]
            BY <4>2, Joined
          <6>3. Len(r \o CutConnect) = Len(r) + 1
            BY <4>2, <6>1
          <6> QED BY <6>1, <6>2, <6>3
        <5> QED BY <3>6, <3>7, <4>1, <4>2, <5>1, LenProperties
      <4>4. ASSUME NEW i \in DOMAIN ready', NEW j \in DOMAIN ready', ready'[i].op = "connect", j > i
            PROVE  FALSE
        <5>1. i \in DOMAIN r
          BY <4>3, <4>4
        <5>2. r[i].op = "connect"
          BY <4>3, <4>4, <5>1
        <5> QED BY <3>5, <4>1, <5>1, <5>2 DEF Nil
      <4> QED BY <2>1, <3>1, <3>4, <4>1, <4>4 DEF SockInv
    <3>8. CASE sock # "connecting" /\ ~Nil(ready, "connect")
      <4>1. Idle
        BY <3>8, ConnectingNil DEF SockInv
      <4>2. ready' = r
        BY <3>6, <3>8, <4>1
      <4>3. ASSUME NEW i \in DOMAIN ready', NEW j \in DOMAIN ready', ready'[i].op = "connect", j > i
            PROVE  ready'[j].op \in Posts
        <5>1. i + 1 \in DOMAIN ready /\ j + 1 \in DOMAIN ready /\ j + 1 > i + 1
          BY <3>5, <4>2, <4>3
        <5>2. ready[i + 1].op = "connect" /\ ready'[j] = ready[j + 1]
          BY <3>5, <4>2, <4>3
        <5> QED BY <5>1, <5>2 DEF SockInv
      <4>4. connects = 0 => \A i \in DOMAIN ready' : ready'[i].op = "close"
        BY <3>5, <4>2 DEF SockInv
      <4> QED BY <2>1, <3>1, <3>4, <4>1, <4>3, <4>4 DEF SockInv
    <3>9. CASE sock # "connecting" /\ Nil(ready, "connect")
      <4>1. Nil(r, "connect")
        BY <2>1, <3>9, PoppedKind DEF r, ConnTypes
      <4>2. Nil(ready', "connect")
        BY <3>6, <3>9, <4>1
      <4>3. ~Connecting'
        BY <3>1, <4>2 DEF Connecting, Nil
      <4>4. connects = 0 => Idle /\ ready' = r
        BY <3>6, <3>9 DEF SockInv
      <4>5. connects = 0 => \A i \in DOMAIN ready' : ready'[i].op = "close"
        BY <3>5, <4>4 DEF SockInv
      <4> QED BY <2>1, <3>1, <3>4, <4>2, <4>3, <4>4, <4>5 DEF SockInv, Nil
    <3> QED BY <3>7, <3>8, <3>9
  <2> QED BY <2>2, <2>3
<1>12. CASE HandleWrite
  <2>1. /\ ready # <<>> /\ ready' = Tail(ready)
        /\ UNCHANGED <<running, sock, connects, served, incoming, wire, reads>>
    BY <1>12 DEF HandleWrite, Runs
  <2>2. ~running => writing' = writing
    BY <1>12 DEF HandleWrite
  <2> QED BY <2>1, <2>2, SockTail DEF Idle
<1>13. CASE HandleWrote
  <2>1. /\ ready # <<>> /\ ready' = Tail(ready)
        /\ UNCHANGED <<sock, connects, served, incoming, wire, reads>>
    BY <1>13 DEF HandleWrote, Runs
  <2>2. ~running => writing' = writing /\ running' = running
    BY <1>13 DEF HandleWrote
  <2> QED BY <2>1, <2>2, SockTail DEF Idle
<1>14. CASE HandleRead
  <2>1. /\ ready # <<>> /\ ready' = Tail(ready)
        /\ UNCHANGED <<sock, connects, served, incoming, wire, writing>>
    BY <1>14 DEF HandleRead, Runs
  <2>2. (running' = FALSE /\ reads' = reads) \/ (running' = running /\ \E left : reads' = NextRead(left))
    BY <1>14, ReadOutcome DEF ReadFails, ReadTaken, OnError
  <2>3. ~running => ~running' /\ reads' = reads
    BY <2>2 DEF NextRead
  <2> QED BY <2>1, <2>3, SockTail DEF Idle
<1>15. CASE UNCHANGED vars
  BY <1>15 DEF vars, SockInv, Idle, Connecting, Nil
<1> QED BY <1>1, <1>2, <1>3, <1>4, <1>5, <1>6, <1>7, <1>8, <1>9, <1>10, <1>11, <1>12, <1>13,
           <1>14, <1>15, <1>16, <1>17 DEF Next, Handle

-----------------------------------------------------------------------------
(* Reading *)

\* A handler of another kind is put in the queue.
LEMMA ReadAppend ==
  ASSUME ConnTypes, ReadInv, NEW h \in AnyHandler, h.op # "read", ready' = Append(ready, h),
         UNCHANGED <<running, reads, remainLen>>
  PROVE  ReadInv'
<1>1. /\ DOMAIN ready' = DOMAIN ready \union {Len(ready) + 1}
      /\ \A i \in DOMAIN ready : ready'[i] = ready[i]
      /\ ready'[Len(ready) + 1] = h
  BY Pushed DEF ConnTypes
<1>2. (Nil(ready, "read") => Nil(ready', "read")) /\ (One(ready, "read") => One(ready', "read"))
  BY PushedKind DEF ConnTypes
<1>3. \A i \in DOMAIN ready' : ready'[i].op = "read" => remainLen + ready'[i].len <= BuffMax
  BY <1>1 DEF ReadInv
<1> QED BY <1>2, <1>3 DEF ReadInv

\* A handler of another kind is taken from the queue.
LEMMA ReadTail ==
  ASSUME ConnTypes, ReadInv, ready # <<>>, Head(ready).op # "read", ready' = Tail(ready),
         UNCHANGED <<reads, remainLen>>, running' => running
  PROVE  ReadInv'
<1>1. \A i \in DOMAIN ready' : i + 1 \in DOMAIN ready /\ ready'[i] = ready[i + 1]
  BY Popped DEF ConnTypes
<1>2. (Nil(ready, "read") => Nil(ready', "read")) /\ (One(ready, "read") => One(ready', "read"))
  BY PoppedKind DEF ConnTypes
<1>3. \A i \in DOMAIN ready' : ready'[i].op = "read" => remainLen + ready'[i].len <= BuffMax
  BY <1>1 DEF ReadInv
<1> QED BY <1>2, <1>3 DEF ReadInv

\* The socket is closed, and the connection does not run.
LEMMA ReadClosed ==
  ASSUME ConnTypes, ReadInv, NEW r \in Seq(AnyHandler), CloseSocket(r), ~running', remainLen' = remainLen,
         Nil(ready, "read") => Nil(r, "read"), One(ready, "read") => One(r, "read"),
         \A i \in DOMAIN r : \E j \in DOMAIN ready : r[i] = ready[j]
  PROVE  ReadInv'
<1>0. BuffMax \in Nat /\ remainLen \in Nat /\ remainLen < BuffMax
  BY ConnectionAssumption DEF ConnTypes
<1> DEFINE a == r \o CutConnect
           b == a \o CutWrites
<1>1. ready' = b \o CutReads /\ reads' = <<>>
  BY ClosedReady
<1>2. CutConnect \in Seq(AnyHandler) /\ CutWrites \in Seq(AnyHandler) /\ CutReads \in Seq(AnyHandler)
  BY CutKinds
<1>3. a \in Seq(AnyHandler)
  BY <1>2, Joined
<1>4. b \in Seq(AnyHandler)
  <2> HIDE DEF a
  <2> QED BY <1>2, <1>3, Joined
<1>5. Nil(CutConnect, "read") /\ Nil(CutWrites, "read")
  BY CutKinds DEF Nil
<1>6. (Nil(r, "read") => Nil(a, "read")) /\ (One(r, "read") => One(a, "read"))
  BY <1>2, <1>5, JoinedKind
<1>7. (Nil(a, "read") => Nil(b, "read")) /\ (One(a, "read") => One(b, "read"))
  <2> HIDE DEF a
  <2> QED BY <1>2, <1>3, <1>5, JoinedKind
<1> HIDE DEF a, b
<1>8. \A i \in DOMAIN ready' : ready'[i].op = "read" =>
          (\E j \in DOMAIN ready : ready'[i] = ready[j]) \/ ready'[i] = BrokenRead
  BY ClosedFrom
<1>9. \A i \in DOMAIN ready' : ready'[i].op = "read" => remainLen + ready'[i].len <= BuffMax
  <2>1. remainLen + BrokenRead.len <= BuffMax
    BY <1>0 DEF BrokenRead
  <2> QED BY <1>8, <2>1 DEF ReadInv
<1>10. \/ One(ready', "read")
       \/ Nil(ready', "read")
  <2>1. CASE Len(reads) = 1 /\ Nil(ready, "read")
    <3>1. One(CutReads, "read") /\ Nil(b, "read")
      BY <1>6, <1>7, <2>1, CutKinds
    <3> QED BY <1>1, <1>2, <1>4, <3>1, JoinedKind
  <2>2. CASE reads = <<>> /\ (One(ready, "read") \/ Nil(ready, "read"))
    <3>1. CutReads = <<>>
      BY <2>2, CutKinds
    <3>2. ready' = b
      BY <1>1, <1>4, <3>1, ConcatEmptySeq
    <3> QED BY <1>6, <1>7, <2>2, <3>2
  <2> QED BY <2>1, <2>2 DEF ReadInv
<1>11. DOMAIN reads' = {}
  BY <1>1
<1> QED BY <1>1, <1>9, <1>10, <1>11 DEF ReadInv

\* A new connection has no read.
LEMMA InitRead == Init => ReadInv
  BY DEF Init, ReadInv, Nil

\* Every action keeps the invariant of the reads.
LEMMA ReadStep ==
  ASSUME WellUsed, ConnTypes, SockInv, ReadInv, [Next]_vars
  PROVE  ReadInv'
<1> USE DEF sockVars, peerVars, writeVars, readVars, callVars, msgVars
<1>0. /\ BuffMax \in Nat /\ remainLen \in Nat /\ reads \in Seq(Nat) /\ ready \in Seq(AnyHandler)
      /\ Len(reads) \in Nat /\ DOMAIN reads = 1 .. Len(reads)
  BY ConnectionAssumption, LenProperties DEF ConnTypes
<1>1. ASSUME NEW m \in Msgs, Write(m) PROVE ReadInv'
  BY <1>1 DEF Write, ReadInv
<1>17. ASSUME NEW m \in Msgs, Post(m) PROVE ReadInv'
  <2> DEFINE h == [op |-> IF m \in Calls THEN "await" ELSE "write", msg |-> m]
  <2>1. h \in AnyHandler /\ h.op # "read"
    BY Handlers
  <2>2. ready' = Append(ready, h) /\ UNCHANGED <<running, reads, remainLen>>
    BY <1>17 DEF Post
  <2> HIDE DEF h
  <2> QED BY <2>1, <2>2, ReadAppend
<1>18. ASSUME NEW k \in CallIds, PeerSends(k) PROVE ReadInv'
  BY <1>18 DEF PeerSends, ReadInv
<1>2. CASE Close
  <2> DEFINE h == [op |-> "close"]
  <2>1. h \in AnyHandler /\ h.op # "read"
    BY Handlers
  <2>2. UNCHANGED <<running, reads, remainLen>> /\ ready' = Append(ready, h)
    BY <1>2 DEF Close
  <2> HIDE DEF h
  <2> QED BY <2>1, <2>2, ReadAppend
<1>3. CASE AsyncConnect
  <2>1. CloseSocket(ready) /\ ~running' /\ remainLen' = remainLen
    BY <1>3 DEF AsyncConnect
  <2> QED BY <1>0, <2>1, ReadClosed
<1>4. CASE HandleConnect \/ Accept
  <2>1. /\ Idle /\ \A i \in DOMAIN ready' : ready'[i].op \in Posts
        /\ \/ sock' = "connected" /\ running'
           \/ sock' # "connected" /\ ~running'
    BY <1>4, StartIdle
  <2>2. Nil(ready', "read") /\ reads = <<>>
    BY <2>1 DEF Nil, Idle, Posts
  <2>3. Start(1)
    BY <1>4 DEF HandleConnect, Accept, WellUsed
  <2>4. CASE sock' = "connected"
    <3>1. remainLen' = 0 /\ reads' = <<>> \o [i \in 1 .. 1 |-> 0]
      BY <2>2, <2>3, <2>4 DEF Start
    <3>2. [i \in 1 .. 1 |-> 0] \in Seq(Nat) /\ Len([i \in 1 .. 1 |-> 0]) = 1
      OBVIOUS
    <3>3. reads' = [i \in 1 .. 1 |-> 0]
      BY <3>1, <3>2, ConcatEmptySeq
    <3>4. Len(reads') = 1 /\ \A i \in DOMAIN reads' : 0 <= reads'[i]
      BY <3>2, <3>3
    <3> QED BY <2>1, <2>2, <3>1, <3>4 DEF ReadInv, Nil
  <2>5. CASE sock' # "connected"
    <3>1. reads' = reads /\ ~running'
      BY <2>1, <2>3, <2>5 DEF Start
    <3>2. DOMAIN reads' = {}
      BY <2>2, <3>1
    <3> QED BY <2>1, <2>2, <3>1, <3>2 DEF ReadInv, Nil
  <2> QED BY <2>4, <2>5
<1>5. CASE ConnectEnds
  <2>1. PICK ok \in BOOLEAN : ready' = Append(ready, [op |-> "connect", ok |-> ok])
    BY <1>5 DEF ConnectEnds
  <2> DEFINE h == [op |-> "connect", ok |-> ok]
  <2>2. h \in AnyHandler /\ h.op # "read"
    BY Handlers
  <2>3. UNCHANGED <<running, reads, remainLen>>
    BY <1>5 DEF ConnectEnds
  <2> HIDE DEF h
  <2> QED BY <2>1, <2>2, <2>3, ReadAppend DEF h
<1>6. CASE ResetEarly
  BY <1>6 DEF ResetEarly, ReadInv
<1>7. CASE WriteEnds
  <2>1. PICK ok \in BOOLEAN :
          ready' = Append(ready, [op |-> "wrote", ok |-> ok, msgs |-> Head(writing)])
    BY <1>7 DEF WriteEnds
  <2>2. writing # <<>> /\ UNCHANGED <<running, reads, remainLen>>
    BY <1>7 DEF WriteEnds
  <2> DEFINE h == [op |-> "wrote", ok |-> ok, msgs |-> Head(writing)]
  <2>3. Head(writing) \in Seq(Msgs)
    BY <2>2, Popped DEF ConnTypes
  <2>4. h \in AnyHandler /\ h.op # "read"
    BY <2>3, Handlers
  <2> HIDE DEF h
  <2> QED BY <2>1, <2>2, <2>4, ReadAppend DEF h
<1>8. ASSUME NEW m \in Calls, PeerReplies(m) PROVE ReadInv'
  BY <1>8 DEF PeerReplies, ReadInv
<1>9. ASSUME NEW i \in DOMAIN reads, NEW h \in AnyHandler, h.op = "read", h.len <= BuffMax - reads[i],
             ready' = Append(ready, h), reads' = RemoveAt(reads, i), UNCHANGED <<running, remainLen>>
      PROVE  ReadInv'
  <2>1. Len(reads) = 1 /\ Nil(ready, "read")
    BY <1>0, <1>9 DEF ReadInv
  <2>2. reads' = <<>> /\ DOMAIN reads' = {}
    BY <1>0, <1>9, <2>1, Removed
  <2>3. One(ready', "read")
    BY <1>0, <1>9, <2>1, PushedKind
  <2>4. /\ DOMAIN ready' = DOMAIN ready \union {Len(ready) + 1}
        /\ \A j \in DOMAIN ready : ready'[j] = ready[j]
        /\ ready'[Len(ready) + 1] = h
    BY <1>0, <1>9, Pushed
  <2>5. remainLen + h.len <= BuffMax
    <3>1. remainLen <= reads[i] /\ reads[i] \in Nat /\ h.len \in Nat
      BY <1>0, <1>9, HandlerKinds DEF ReadInv
    <3> QED BY <1>0, <1>9, <3>1
  <2>6. \A j \in DOMAIN ready' : ready'[j].op = "read" => remainLen + ready'[j].len <= BuffMax
    BY <2>1, <2>4, <2>5 DEF Nil
  <2> QED BY <1>9, <2>2, <2>3, <2>6 DEF ReadInv
<1>10. ASSUME NEW i \in DOMAIN reads, NEW n \in 1 .. BuffMax, NEW k \in 0 .. Len(incoming), ReadEnds(i, n, k)
       PROVE  ReadInv'
  <2>1. /\ UNCHANGED <<running, remainLen>> /\ n <= BuffMax - reads[i] /\ reads' = RemoveAt(reads, i)
        /\ ready' = Append(ready, [op |-> "read", ok |-> TRUE, len |-> n, replies |-> SubSeq(incoming, 1, k)])
    BY <1>10 DEF ReadEnds
  <2>2. incoming \in Seq(CallReply) /\ Len(incoming) \in Nat /\ n \in Nat
    BY <1>0, LenProperties DEF ConnTypes
  <2>3. SubSeq(incoming, 1, k) \in Seq(CallReply)
    BY <2>2, PartType
  <2> DEFINE h == [op |-> "read", ok |-> TRUE, len |-> n, replies |-> SubSeq(incoming, 1, k)]
  <2>4. h \in AnyHandler /\ h.op = "read" /\ h.len = n
    BY <2>2, <2>3, Handlers
  <2> HIDE DEF h
  <2>5. ready' = Append(ready, h)
    BY <2>1 DEF h
  <2> QED BY <1>9, <2>1, <2>4, <2>5
<1>11. ASSUME NEW i \in DOMAIN reads, ReadBreaks(i) PROVE ReadInv'
  <2>1. /\ UNCHANGED <<running, remainLen>> /\ reads' = RemoveAt(reads, i)
        /\ ready' = Append(ready, BrokenRead)
    BY <1>11 DEF ReadBreaks
  <2>2. BrokenRead \in AnyHandler /\ BrokenRead.op = "read" /\ BrokenRead.len = 0
    BY Handlers DEF BrokenRead
  <2>3. Len(reads) = 1 /\ Nil(ready, "read")
    BY <1>0 DEF ReadInv
  <2>4. reads' = <<>> /\ DOMAIN reads' = {}
    BY <1>0, <2>1, <2>3, Removed
  <2>5. One(ready', "read")
    BY <1>0, <2>1, <2>2, <2>3, PushedKind
  <2>6. /\ DOMAIN ready' = DOMAIN ready \union {Len(ready) + 1}
        /\ \A j \in DOMAIN ready : ready'[j] = ready[j]
        /\ ready'[Len(ready) + 1] = BrokenRead
    BY <1>0, <2>1, <2>2, Pushed
  <2>7. remainLen + BrokenRead.len <= BuffMax
    BY <1>0, <2>2 DEF ConnTypes
  <2>8. \A j \in DOMAIN ready' : ready'[j].op = "read" => remainLen + ready'[j].len <= BuffMax
    BY <2>3, <2>6, <2>7 DEF Nil
  <2> QED BY <2>1, <2>4, <2>5, <2>8 DEF ReadInv
<1>12. CASE HandleClose
  <2>1. ready # <<>> /\ Head(ready).op = "close" /\ remainLen' = remainLen
    BY <1>12 DEF HandleClose, Runs
  <2>2. CASE forceClosed
    <3>1. ready' = Tail(ready) /\ UNCHANGED <<running, reads>>
      BY <1>12, <2>2 DEF HandleClose
    <3> QED BY <2>1, <3>1, ReadTail
  <2>3. CASE ~forceClosed
    <3> DEFINE r == Tail(ready)
    <3>1. CloseSocket(r) /\ ~running'
      BY <1>12, <2>3 DEF HandleClose
    <3>2. /\ Nil(ready, "read") => Nil(r, "read")
          /\ One(ready, "read") => One(r, "read")
      BY <1>0, <2>1, PoppedKind
    <3>3. r \in Seq(AnyHandler) /\ \A i \in DOMAIN r : \E j \in DOMAIN ready : r[i] = ready[j]
      BY <1>0, <2>1, Popped
    <3> HIDE DEF r
    <3> QED BY <2>1, <3>1, <3>2, <3>3, ReadClosed
  <2> QED BY <2>2, <2>3
<1>13. CASE HandleWrite
  <2>1. /\ ready # <<>> /\ ready' = Tail(ready) /\ Head(ready).op # "read"
        /\ UNCHANGED <<running, reads, remainLen>>
    BY <1>13 DEF HandleWrite, Runs
  <2> QED BY <2>1, ReadTail
<1>14. CASE HandleWrote
  <2>1. /\ ready # <<>> /\ ready' = Tail(ready) /\ Head(ready).op # "read"
        /\ UNCHANGED <<reads, remainLen>>
    BY <1>14 DEF HandleWrote, Runs
  <2>2. running' => running
    BY <1>14 DEF HandleWrote, OnError
  <2> QED BY <2>1, <2>2, ReadTail
<1>15. CASE HandleRead
  <2>1. ready # <<>> /\ ready' = Tail(ready) /\ Head(ready).op = "read"
    BY <1>15 DEF HandleRead, Runs
  <2>2. reads = <<>> /\ One(ready, "read") /\ Nil(ready', "read")
    <3>1. ~Nil(ready, "read") /\ (One(ready, "read") => Nil(ready', "read"))
      BY <1>0, <2>1, PoppedKind
    <3> QED BY <3>1 DEF ReadInv
  <2>3. \/ running' = FALSE /\ UNCHANGED <<reads, remainLen>>
        \/ running' = running /\ \E left \in 0 .. BuffMax - 1 : remainLen' = left /\ reads' = NextRead(left)
    BY <1>15, ReadOutcome DEF ReadFails, ReadTaken, OnError
  <2>4. CASE running' = FALSE /\ UNCHANGED <<reads, remainLen>>
    <3>1. DOMAIN reads' = {}
      BY <2>2, <2>4
    <3> QED BY <2>2, <2>4, <3>1 DEF ReadInv, Nil
  <2>5. ASSUME NEW left \in 0 .. BuffMax - 1, running' = running, remainLen' = left, reads' = NextRead(left)
        PROVE  ReadInv'
    <3>1. CASE running
      <4>1. reads' = <<left>> /\ Len(reads') = 1 /\ left \in Nat
        BY <1>0, <2>2, <2>5, <3>1 DEF NextRead
      <4>2. \A i \in DOMAIN reads' : remainLen' <= reads'[i]
        BY <2>5, <4>1
      <4> QED BY <2>2, <4>1, <4>2 DEF ReadInv, Nil
    <3>2. CASE ~running
      <4>1. reads' = <<>> /\ DOMAIN reads' = {} /\ ~running'
        BY <2>2, <2>5, <3>2 DEF NextRead
      <4> QED BY <2>2, <4>1 DEF ReadInv, Nil
    <3> QED BY <3>1, <3>2
  <2> QED BY <2>3, <2>4, <2>5
<1>16. CASE UNCHANGED vars
  BY <1>16 DEF vars, ReadInv
<1> QED BY <1>1, <1>2, <1>3, <1>4, <1>5, <1>6, <1>7, <1>8, <1>10, <1>11, <1>12, <1>13,
           <1>14, <1>15, <1>16, <1>17, <1>18 DEF Next, Handle

-----------------------------------------------------------------------------
(* Writing *)

\* A message behind a queue.
LEMMA AppendLast ==
  ASSUME NEW S, NEW q \in Seq(S), NEW m \in S
  PROVE  /\ Append(q, m) = q \o <<m>> /\ <<m>> \in Seq(S)
         /\ q # <<>> => Append(q, m) # <<>> /\ Head(Append(q, m)) = Head(q)
                        /\ Tail(Append(q, m)) = Append(Tail(q), m)
<1>1. <<m>> \in Seq(S) /\ Append(q, m) = q \o <<m>>
  BY AppendIsConcat
<1>2. ASSUME q # <<>>
      PROVE  Append(q, m) # <<>> /\ Head(Append(q, m)) = Head(q) /\ Tail(Append(q, m)) = Append(Tail(q), m)
  BY <1>2, HeadTailAppend
<1> QED BY <1>1, <1>2

\* A queue is its front and the rest.
LEMMA FrontRest ==
  ASSUME NEW S, NEW q \in Seq(S), q # <<>>
  PROVE  <<Head(q)>> \o Tail(q) = q /\ <<Head(q)>> \in Seq(S)
<1>1. /\ Head(q) = q[1] /\ Head(q) \in S /\ Tail(q) \in Seq(S) /\ Len(Tail(q)) = Len(q) - 1 /\ Len(q) \in Nat
      /\ \A i \in DOMAIN Tail(q) : Tail(q)[i] = q[i + 1]
  BY Popped
<1>2. <<Head(q)>> \in Seq(S) /\ Len(<<Head(q)>>) = 1 /\ <<Head(q)>>[1] = Head(q)
  BY <1>1
<1> DEFINE z == <<Head(q)>> \o Tail(q)
<1>3. /\ z \in Seq(S) /\ Len(z) = Len(q)
      /\ \A i \in 1 .. Len(q) : z[i] = IF i <= 1 THEN <<Head(q)>>[i] ELSE Tail(q)[i - 1]
  BY <1>1, <1>2, ConcatProperties
<1> HIDE DEF z
<1>4. ASSUME NEW i \in 1 .. Len(q) PROVE z[i] = q[i]
  <2>1. CASE i = 1
    BY <1>1, <1>2, <1>3, <2>1
  <2>2. CASE i # 1
    <3>1. i - 1 \in 1 .. Len(q) - 1 /\ i - 1 + 1 = i
      BY <1>1, <2>2
    <3>2. DOMAIN Tail(q) = 1 .. Len(q) - 1
      BY <1>1, LenProperties
    <3>3. Tail(q)[i - 1] = q[i]
      BY <1>1, <3>1, <3>2
    <3> QED BY <1>1, <1>3, <2>2, <3>3
  <2> QED BY <2>1, <2>2
<1>5. z = q
  BY <1>3, <1>4, SeqEqual
<1> QED BY <1>2, <1>5 DEF z

\* Joining is associative.
LEMMA JoinMsgs == \A x, y, z \in Seq(Msgs) : (x \o y) \o z = x \o (y \o z)
  BY ConcatAssociative

\* The types of what is being written and of what waits.
LEMMA WritingTypes ==
  ASSUME ConnTypes
  PROVE  Current \in Seq(Msgs) /\ InFlight \in Seq(Msgs) /\ Waiting \in Seq(Msgs)
<1>1. queue \in Seq(Msgs) /\ batch \in Seq(Msgs) /\ writing \in Seq(Seq(Msgs)) /\ <<>> \in Seq(Msgs)
  BY DEF ConnTypes
<1>2. queue # <<>> => <<Head(queue)>> \in Seq(Msgs) /\ Tail(queue) \in Seq(Msgs)
  BY <1>1, FrontRest, Popped
<1>3. writing # <<>> => Head(writing) \in Seq(Msgs)
  BY <1>1, Popped
<1> QED BY <1>1, <1>2, <1>3 DEF Current, InFlight, Waiting

\* async_write_msg, with no write in flight: it writes the front of q, or all of it.
LEMMA AsyncWritten ==
  ASSUME ConnTypes, NEW q \in Seq(Msgs), AsyncWrite(q, <<>>), writing = <<>>, Nil(ready', "wrote")
  PROVE  WriteInv' /\ InFlight' \o Waiting' = q /\ InFlight' \in Seq(Msgs) /\ Waiting' \in Seq(Msgs)
         /\ queue' \in {q, <<>>} /\ batch' \in {q, <<>>} /\ (writing' = <<>> \/ writing' = <<InFlight'>>)
<1>0. <<>> \in Seq(Msgs) /\ \A z \in Seq(Msgs) : z \o <<>> = z
  BY ConcatEmptySeq
<1>1. \A z : Append(<<>>, z) = <<z>> /\ <<z>> # <<>> /\ Head(<<z>>) = z
  OBVIOUS
<1>2. CASE q = <<>>
  <2>1. queue' = <<>> /\ batch' = <<>> /\ writing' = <<>>
    BY <1>2 DEF AsyncWrite
  <2>2. Current' = <<>> /\ InFlight' = <<>> /\ Waiting' = <<>>
    BY <2>1 DEF Current, InFlight, Waiting
  <2>3. WriteInv'
    BY <2>1, <2>2 DEF WriteInv
  <2> QED BY <1>0, <1>2, <2>1, <2>2, <2>3
<1>3. CASE q # <<>> /\ (~BatchSend \/ Len(q) = 1)
  <2>1. queue' = q /\ batch' = <<>> /\ writing' = <<<<Head(q)>>>>
    BY <1>1, <1>3 DEF AsyncWrite
  <2>2. Current' = <<Head(q)>> /\ InFlight' = <<Head(q)>> /\ Waiting' = Tail(q)
    BY <1>1, <1>3, <2>1 DEF Current, InFlight, Waiting
  <2>3. WriteInv'
    <3>1. Current' # <<>> /\ writing' = <<Current'>> /\ batch' = <<>>
      BY <1>1, <2>1, <2>2
    <3> QED BY <3>1 DEF WriteInv
  <2>4. <<Head(q)>> \o Tail(q) = q /\ <<Head(q)>> \in Seq(Msgs) /\ Tail(q) \in Seq(Msgs)
    BY <1>3, FrontRest, Popped
  <2> QED BY <2>1, <2>2, <2>3, <2>4
<1>4. CASE q # <<>> /\ ~(~BatchSend \/ Len(q) = 1)
  <2>1. queue' = <<>> /\ batch' = q /\ writing' = <<q>>
    BY <1>1, <1>4 DEF AsyncWrite
  <2>2. Current' = q /\ InFlight' = q /\ Waiting' = <<>>
    BY <1>1, <1>4, <2>1 DEF Current, InFlight, Waiting
  <2>3. Len(q) > 1
    <3>1. Len(q) \in Nat \ {0} /\ Len(q) # 1
      BY <1>4, EmptySeq
    <3> QED BY <3>1
  <2>4. WriteInv'
    <3>1. Current' # <<>> /\ writing' = <<Current'>> /\ Len(batch') > 1
      BY <1>4, <2>1, <2>2, <2>3
    <3> QED BY <3>1 DEF WriteInv
  <2> QED BY <1>0, <2>1, <2>2, <2>4
<1> QED BY <1>2, <1>3, <1>4

\* The writes are left alone, and no handler of a write is put in the queue or taken from it.
LEMMA WriteFrame ==
  ASSUME WriteInv, OrderInv, running' => running, UNCHANGED <<queue, batch, writing, accepted, wire>>,
         Nil(ready, "wrote") => Nil(ready', "wrote"), One(ready, "wrote") => One(ready', "wrote"),
         \A i \in DOMAIN ready' : ready'[i].op = "wrote" => \E j \in DOMAIN ready : ready'[i] = ready[j],
         \A j \in DOMAIN ready : ready[j].op = "wrote" => \E i \in DOMAIN ready' : ready'[i] = ready[j]
  PROVE  WriteInv' /\ OrderInv'
<1>1. Current' = Current /\ InFlight' = InFlight /\ Waiting' = Waiting
  BY DEF Current, InFlight, Waiting
<1>2. WriteInv'
  <2>1. CASE ~running
    BY <2>1 DEF WriteInv
  <2>2. CASE running /\ Nil(ready, "wrote")
    BY <1>1, <2>2 DEF WriteInv, One, Nil
  <2>3. CASE running /\ ~Nil(ready, "wrote")
    <3>1. /\ Current # <<>> /\ writing = <<>> /\ One(ready, "wrote") /\ (batch # <<>> => Len(batch) > 1)
          /\ \A i \in DOMAIN ready : ready[i].op = "wrote" => ready[i].msgs = Current
      BY <2>3 DEF WriteInv
    <3>2. \A i \in DOMAIN ready' : ready'[i].op = "wrote" => ready'[i].msgs = Current
      BY <3>1
    <3> QED BY <1>1, <3>1, <3>2 DEF WriteInv
  <2> QED BY <2>1, <2>2, <2>3
<1>3. OrderInv'
  <2>1. (\A i \in DOMAIN ready' : ready'[i].op = "wrote" => ready'[i].ok)
          => (\A i \in DOMAIN ready : ready[i].op = "wrote" => ready[i].ok)
    OBVIOUS
  <2> QED BY <1>1, <2>1 DEF OrderInv
<1> QED BY <1>2, <1>3

\* A handler of another kind is put in the queue.
LEMMA WriteAppend ==
  ASSUME ConnTypes, WriteInv, OrderInv, NEW h \in AnyHandler, h.op # "wrote", ready' = Append(ready, h),
         UNCHANGED <<running, queue, batch, writing, accepted, wire>>
  PROVE  WriteInv' /\ OrderInv'
<1>1. /\ DOMAIN ready' = DOMAIN ready \union {Len(ready) + 1}
      /\ \A i \in DOMAIN ready : ready'[i] = ready[i]
      /\ ready'[Len(ready) + 1] = h
  <2>1. ready \in Seq(AnyHandler)
    BY DEF ConnTypes
  <2> QED BY <2>1, Pushed
<1>2. (Nil(ready, "wrote") => Nil(ready', "wrote")) /\ (One(ready, "wrote") => One(ready', "wrote"))
  BY PushedKind DEF ConnTypes
<1>3. \A i \in DOMAIN ready' : ready'[i].op = "wrote" => \E j \in DOMAIN ready : ready'[i] = ready[j]
  BY <1>1
<1>4. \A j \in DOMAIN ready : ready[j].op = "wrote" => \E i \in DOMAIN ready' : ready'[i] = ready[j]
  BY <1>1
<1> QED BY <1>2, <1>3, <1>4, WriteFrame

\* A handler of another kind is taken from the queue.
LEMMA WriteTail ==
  ASSUME ConnTypes, WriteInv, OrderInv, ready # <<>>, Head(ready).op # "wrote", ready' = Tail(ready),
         UNCHANGED <<queue, batch, writing, accepted, wire>>, running' => running
  PROVE  WriteInv' /\ OrderInv'
<1>1. /\ \A i \in DOMAIN ready' : i + 1 \in DOMAIN ready /\ ready'[i] = ready[i + 1]
      /\ \A i \in DOMAIN ready : i # 1 => i - 1 \in DOMAIN ready' /\ ready'[i - 1] = ready[i]
      /\ Head(ready) = ready[1]
  BY Popped DEF ConnTypes
<1>2. (Nil(ready, "wrote") => Nil(ready', "wrote")) /\ (One(ready, "wrote") => One(ready', "wrote"))
  BY PoppedKind DEF ConnTypes
<1>3. \A i \in DOMAIN ready' : ready'[i].op = "wrote" => \E j \in DOMAIN ready : ready'[i] = ready[j]
  BY <1>1
<1>4. ASSUME NEW j \in DOMAIN ready, ready[j].op = "wrote" PROVE \E i \in DOMAIN ready' : ready'[i] = ready[j]
  <2>1. j - 1 \in DOMAIN ready' /\ ready'[j - 1] = ready[j]
    BY <1>1, <1>4
  <2> QED BY <2>1
<1> QED BY <1>2, <1>3, <1>4, WriteFrame

\* A write ends.
LEMMA WriteEnded ==
  ASSUME ConnTypes, WriteInv, OrderInv, WriteEnds
  PROVE  WriteInv' /\ OrderInv'
<1>1. PICK ok \in BOOLEAN :
        /\ ready' = Append(ready, [op |-> "wrote", ok |-> ok, msgs |-> Head(writing)])
        /\ wire' = IF ok THEN wire \o Head(writing) ELSE wire
  BY DEF WriteEnds
<1>2. /\ writing # <<>> /\ writing' = Tail(writing) /\ UNCHANGED <<running, queue, batch, accepted>>
  BY DEF WriteEnds, writeVars
<1>3. CASE ~running
  BY <1>2, <1>3 DEF WriteInv, OrderInv
<1>4. CASE running
  <2>1. Current # <<>> /\ writing = <<Current>> /\ Nil(ready, "wrote") /\ (batch # <<>> => Len(batch) > 1)
    BY <1>2, <1>4 DEF WriteInv
  <2>2. PICK h : h = [op |-> "wrote", ok |-> ok, msgs |-> Head(writing)]
    OBVIOUS
  <2>3. Current \in Seq(Msgs) /\ Waiting \in Seq(Msgs) /\ wire \in Seq(Msgs) /\ ready \in Seq(AnyHandler)
    BY WritingTypes DEF ConnTypes
  <2>4. Head(writing) = Current /\ Tail(writing) = <<>>
    BY <2>1
  <2>5. h \in AnyHandler /\ h.op = "wrote" /\ h.msgs = Current /\ h.ok = ok
    BY <2>2, <2>3, <2>4, Handlers
  <2>6. ready' = Append(ready, h)
    BY <1>1, <2>2
  <2>7. /\ DOMAIN ready' = DOMAIN ready \union {Len(ready) + 1}
        /\ \A i \in DOMAIN ready : ready'[i] = ready[i]
        /\ ready'[Len(ready) + 1] = h
    BY <2>3, <2>5, <2>6, Pushed
  <2>8. One(ready', "wrote")
    BY <2>1, <2>3, <2>5, <2>6, PushedKind
  <2>9. Current' = Current /\ Waiting' = Waiting /\ InFlight' = <<>> /\ InFlight = Current /\ writing' = <<>>
    BY <1>2, <2>1, <2>4 DEF Current, Waiting, InFlight
  <2>10. \A i \in DOMAIN ready' : ready'[i].op = "wrote" => ready'[i].msgs = Current
    BY <2>1, <2>5, <2>7 DEF Nil
  <2>11. WriteInv'
    BY <1>2, <2>1, <2>8, <2>9, <2>10 DEF WriteInv
  <2>12. CASE ok
    <3>1. accepted = wire \o Current \o Waiting
      BY <1>4, <2>1, <2>9 DEF OrderInv, Nil
    <3>2. wire' = wire \o Current
      BY <1>1, <2>4, <2>12
    <3>3. wire' \in Seq(Msgs)
      BY <2>3, <3>2, ConcatProperties
    <3>4. wire' \o <<>> = wire'
      BY <3>3, ConcatEmptySeq
    <3>5. accepted' = wire' \o InFlight' \o Waiting'
      BY <1>2, <2>9, <3>1, <3>2, <3>4
    <3> QED BY <2>11, <3>5 DEF OrderInv
  <2>13. CASE ~ok
    <3>1. Len(ready) + 1 \in DOMAIN ready' /\ ready'[Len(ready) + 1].op = "wrote" /\ ~ready'[Len(ready) + 1].ok
      BY <2>5, <2>7, <2>13
    <3>2. OrderInv'
      BY <3>1 DEF OrderInv
    <3> QED BY <2>11, <3>2
  <2> QED BY <2>12, <2>13
<1> QED BY <1>3, <1>4

\* do_write, of a running connection.
LEMMA WriteDone ==
  ASSUME ConnTypes, WriteInv, OrderInv, running, NEW m \in Msgs, DoWrite(m),
         ready # <<>>, Head(ready).op # "wrote", ready' = Tail(ready), UNCHANGED <<running, wire>>
  PROVE  WriteInv' /\ OrderInv'
<1>1. /\ queue \in Seq(Msgs) /\ batch \in Seq(Msgs) /\ wire \in Seq(Msgs) /\ InFlight \in Seq(Msgs)
      /\ Waiting \in Seq(Msgs) /\ ready \in Seq(AnyHandler) /\ accepted \in Seq(Msgs)
  BY WritingTypes DEF ConnTypes
<1>2. (Nil(ready, "wrote") => Nil(ready', "wrote")) /\ (One(ready, "wrote") => One(ready', "wrote"))
  BY <1>1, PoppedKind
<1>3. /\ \A i \in DOMAIN ready' : i + 1 \in DOMAIN ready /\ ready'[i] = ready[i + 1]
      /\ \A i \in DOMAIN ready : i # 1 => i - 1 \in DOMAIN ready' /\ ready'[i - 1] = ready[i]
      /\ Head(ready) = ready[1]
  BY <1>1, Popped
<1>4. ASSUME \A i \in DOMAIN ready' : ready'[i].op = "wrote" => ready'[i].ok
      PROVE  accepted = wire \o InFlight \o Waiting
  <2>1. ASSUME NEW i \in DOMAIN ready, ready[i].op = "wrote" PROVE ready[i].ok
    <3>1. i - 1 \in DOMAIN ready' /\ ready'[i - 1] = ready[i]
      BY <1>3, <2>1
    <3> QED BY <1>4, <2>1, <3>1
  <2> QED BY <2>1 DEF OrderInv
<1>5. accepted' = Append(accepted, m)
  BY DEF DoWrite
<1>6. CASE WriteInProgress
  <2>1. queue' = Append(queue, m) /\ UNCHANGED <<batch, writing>>
    BY <1>6 DEF DoWrite
  <2>2. queue # <<>> \/ batch # <<>>
    BY <1>6 DEF WriteInProgress
  <2>3. /\ queue # <<>> => queue' # <<>> /\ Head(queue') = Head(queue) /\ Tail(queue') = Append(Tail(queue), m)
    BY <1>1, <2>1, AppendLast
  <2>4. Current' = Current /\ InFlight' = InFlight
    BY <2>1, <2>2, <2>3 DEF Current, InFlight
  <2>5. Waiting' = Append(Waiting, m)
    <3>1. CASE batch = <<>>
      BY <2>1, <2>2, <2>3, <3>1 DEF Waiting
    <3>2. CASE batch # <<>>
      BY <2>1, <3>2 DEF Waiting
    <3> QED BY <3>1, <3>2
  <2>6. WriteInv'
    <3>1. CASE Nil(ready, "wrote")
      BY <1>2, <2>1, <2>4, <3>1 DEF WriteInv, One, Nil
    <3>2. CASE ~Nil(ready, "wrote")
      <4>1. /\ Current # <<>> /\ writing = <<>> /\ One(ready, "wrote") /\ (batch # <<>> => Len(batch) > 1)
            /\ \A i \in DOMAIN ready : ready[i].op = "wrote" => ready[i].msgs = Current
        BY <3>2 DEF WriteInv
      <4>2. \A i \in DOMAIN ready' : ready'[i].op = "wrote" => ready'[i].msgs = Current
        BY <1>3, <4>1
      <4> QED BY <1>2, <2>1, <2>4, <4>1, <4>2 DEF WriteInv
    <3> QED BY <3>1, <3>2
  <2>7. ASSUME \A i \in DOMAIN ready' : ready'[i].op = "wrote" => ready'[i].ok
        PROVE  accepted' = wire' \o InFlight' \o Waiting'
    <3>1. PICK x : x = wire \o InFlight
      OBVIOUS
    <3>2. x \in Seq(Msgs) /\ accepted = x \o Waiting
      BY <1>1, <1>4, <2>7, <3>1, ConcatProperties
    <3>3. Append(x \o Waiting, m) = (x \o Waiting) \o <<m>> /\ Append(Waiting, m) = Waiting \o <<m>>
          /\ <<m>> \in Seq(Msgs)
      BY <1>1, <3>2, AppendLast
    <3>4. (x \o Waiting) \o <<m>> = x \o (Waiting \o <<m>>)
      <4>1. x \in Seq(Msgs) /\ Waiting \in Seq(Msgs) /\ <<m>> \in Seq(Msgs)
        BY <1>1, <3>2, <3>3
      <4> QED BY <4>1, JoinMsgs, Zenon
    <3>5. accepted' = x \o Append(Waiting, m)
      BY <1>5, <3>2, <3>3, <3>4
    <3> QED BY <2>4, <2>5, <3>1, <3>5
  <2> QED BY <2>6, <2>7 DEF OrderInv
<1>7. CASE ~WriteInProgress
  <2>1. queue = <<>> /\ batch = <<>> /\ AsyncWrite(Append(queue, m), batch)
    BY <1>7 DEF WriteInProgress, DoWrite
  <2>2. AsyncWrite(<<m>>, <<>>) /\ <<m>> \in Seq(Msgs)
    BY <2>1
  <2>3. Current = <<>> /\ Waiting = <<>>
    BY <2>1 DEF Current, Waiting
  <2>4. writing = <<>> /\ Nil(ready, "wrote")
    BY <2>3 DEF WriteInv
  <2>5. WriteInv' /\ InFlight' \o Waiting' = <<m>> /\ InFlight' \in Seq(Msgs) /\ Waiting' \in Seq(Msgs)
    BY <1>2, <2>2, <2>4, AsyncWritten
  <2>6. accepted = wire
    <3>1. Nil(ready', "wrote")
      BY <1>2, <2>4
    <3>2. InFlight = <<>>
      BY <2>4 DEF InFlight
    <3>3. accepted = wire \o <<>> \o <<>>
      BY <1>4, <2>3, <3>1, <3>2 DEF Nil
    <3> QED BY <1>1, <3>3, ConcatEmptySeq
  <2>7. accepted' = wire' \o InFlight' \o Waiting'
    <3>1. accepted' = wire \o <<m>>
      BY <1>1, <1>5, <2>6, AppendLast
    <3>2. (wire \o InFlight') \o Waiting' = wire \o (InFlight' \o Waiting')
      <4>1. wire \in Seq(Msgs) /\ InFlight' \in Seq(Msgs) /\ Waiting' \in Seq(Msgs)
        BY <1>1, <2>5
      <4> QED BY <4>1, JoinMsgs, Zenon
    <3> QED BY <2>5, <3>1, <3>2
  <2> QED BY <2>5, <2>7 DEF OrderInv
<1> QED BY <1>6, <1>7

\* handle_write and handle_write_batch take what was written away, and go on with the rest.
LEMMA WroteAgain ==
  ASSUME ConnTypes, WriteInv, HandleWrote, running, Head(ready).ok
  PROVE  /\ AsyncWrite(Waiting, <<>>) /\ running' /\ writing = <<>> /\ Nil(ready', "wrote")
         /\ \A i \in DOMAIN ready : ready[i].op = "wrote" => ready[i].ok
<1>1. /\ ready # <<>> /\ Head(ready).op = "wrote" /\ ready' = Tail(ready)
  BY DEF HandleWrote, Runs
<1>2. /\ IF Len(Head(ready).msgs) = 1 THEN AsyncWrite(FrontPopped, batch) ELSE AsyncWrite(queue, <<>>)
      /\ running' = running
  BY DEF HandleWrote
<1>3. queue \in Seq(Msgs) /\ batch \in Seq(Msgs) /\ ready \in Seq(AnyHandler)
  BY DEF ConnTypes
<1>4. /\ ~Nil(ready, "wrote") /\ (One(ready, "wrote") => Nil(ready', "wrote"))
      /\ Head(ready) = ready[1] /\ 1 \in DOMAIN ready
  BY <1>1, <1>3, PoppedKind, Popped
<1>5. /\ Current # <<>> /\ writing = <<>> /\ One(ready, "wrote") /\ (batch # <<>> => Len(batch) > 1)
      /\ Head(ready).msgs = Current
  BY <1>1, <1>4 DEF WriteInv
<1>6. \A i \in DOMAIN ready : ready[i].op = "wrote" => ready[i].ok
  <2>1. PICK j \in DOMAIN ready : \A i \in DOMAIN ready : ready[i].op = "wrote" => i = j
    BY <1>5 DEF One
  <2> QED BY <1>1, <1>4, <2>1
<1>7. CASE batch = <<>>
  <2>1. queue # <<>> /\ Current = <<Head(queue)>> /\ Waiting = Tail(queue)
    BY <1>5, <1>7 DEF Current, Waiting
  <2>2. Len(Head(ready).msgs) = 1
    BY <1>5, <2>1
  <2>3. FrontPopped = Tail(queue)
    BY <1>3, <2>1, TailIsSubSeq DEF FrontPopped
  <2>4. AsyncWrite(Waiting, <<>>)
    BY <1>2, <1>7, <2>1, <2>2, <2>3
  <2> QED BY <1>2, <1>4, <1>5, <1>6, <2>4
<1>8. CASE batch # <<>>
  <2>1. Current = batch /\ Waiting = queue
    BY <1>8 DEF Current, Waiting
  <2>2. Len(batch) \in Nat /\ Len(batch) > 1
    BY <1>3, <1>5, <1>8, LenProperties
  <2>3. Head(ready).msgs = batch
    BY <1>5, <2>1
  <2>4. Len(batch) # 1
    <3>1. \A n \in Nat : n > 1 => n # 1
      OBVIOUS
    <3> QED BY <2>2, <3>1
  <2>5. AsyncWrite(Waiting, <<>>)
    BY <1>2, <2>1, <2>3, <2>4
  <2> QED BY <1>2, <1>4, <1>5, <1>6, <2>5
<1> QED BY <1>7, <1>8

\* handle_write and handle_write_batch.
LEMMA WroteDone ==
  ASSUME ConnTypes, WriteInv, OrderInv, HandleWrote
  PROVE  WriteInv' /\ OrderInv'
<1>1. UNCHANGED <<accepted, wire>> /\ wire \in Seq(Msgs) /\ Waiting \in Seq(Msgs)
  BY WritingTypes DEF HandleWrote, ConnTypes
<1>2. CASE ~running \/ ~Head(ready).ok
  <2>1. ~running'
    BY <1>2 DEF HandleWrote, OnError
  <2> QED BY <2>1 DEF WriteInv, OrderInv
<1>3. CASE running /\ Head(ready).ok
  <2>1. /\ AsyncWrite(Waiting, <<>>) /\ writing = <<>> /\ Nil(ready', "wrote")
        /\ \A i \in DOMAIN ready : ready[i].op = "wrote" => ready[i].ok
    BY <1>3, WroteAgain
  <2>2. accepted = wire \o Waiting
    <3>1. InFlight = <<>>
      BY <2>1 DEF InFlight
    <3>2. wire \o <<>> = wire
      BY <1>1, ConcatEmptySeq
    <3> QED BY <1>3, <2>1, <3>1, <3>2 DEF OrderInv
  <2>3. PICK q : q = Waiting
    OBVIOUS
  <2>4. WriteInv' /\ InFlight' \o Waiting' = q /\ InFlight' \in Seq(Msgs) /\ Waiting' \in Seq(Msgs)
    <3>1. q \in Seq(Msgs) /\ AsyncWrite(q, <<>>)
      BY <1>1, <2>1, <2>3
    <3> QED BY <2>1, <3>1, AsyncWritten
  <2>5. accepted' = wire' \o InFlight' \o Waiting'
    <3>1. (wire \o InFlight') \o Waiting' = wire \o (InFlight' \o Waiting')
      BY <1>1, <2>4, JoinMsgs
    <3> QED BY <1>1, <2>2, <2>3, <2>4, <3>1
  <2> QED BY <2>4, <2>5 DEF OrderInv
<1> QED BY <1>2, <1>3

\* A new connection has no write, and nothing was accepted.
LEMMA InitWrite == Init => WriteInv /\ OrderInv
  BY DEF Init, WriteInv, OrderInv

\* Every action keeps the invariants of the writes.
LEMMA WriteStep ==
  ASSUME ConnTypes, SockInv, WriteInv, OrderInv, [Next]_vars
  PROVE  WriteInv' /\ OrderInv'
<1> USE DEF sockVars, peerVars, writeVars, readVars, callVars, msgVars
<1>0. \A r : \A i \in DOMAIN r : \E j \in DOMAIN r : r[i] = r[j]
  OBVIOUS
<1>6. ASSUME UNCHANGED <<running, queue, batch, writing, accepted, wire, ready>> PROVE WriteInv' /\ OrderInv'
  BY <1>0, <1>6, WriteFrame
<1>1. ASSUME NEW m \in Msgs, Write(m) PROVE WriteInv' /\ OrderInv'
  BY <1>1, <1>6 DEF Write
<1>17. ASSUME NEW m \in Msgs, Post(m) PROVE WriteInv' /\ OrderInv'
  <2> DEFINE h == [op |-> IF m \in Calls THEN "await" ELSE "write", msg |-> m]
  <2>1. h \in AnyHandler /\ h.op # "wrote"
    BY Handlers
  <2>2. ready' = Append(ready, h) /\ UNCHANGED <<running, queue, batch, writing, accepted, wire>>
    BY <1>17 DEF Post
  <2> HIDE DEF h
  <2> QED BY <2>1, <2>2, WriteAppend
<1>18. ASSUME NEW k \in CallIds, PeerSends(k) PROVE WriteInv' /\ OrderInv'
  BY <1>6, <1>18 DEF PeerSends
<1>2. CASE Close
  <2> DEFINE h == [op |-> "close"]
  <2>1. h \in AnyHandler /\ h.op # "wrote"
    BY Handlers
  <2>2. UNCHANGED <<running, queue, batch, writing, accepted, wire>> /\ ready' = Append(ready, h)
    BY <1>2 DEF Close
  <2> HIDE DEF h
  <2> QED BY <2>1, <2>2, WriteAppend
<1>3. CASE AsyncConnect
  <2>1. ~running'
    BY <1>3 DEF AsyncConnect
  <2> QED BY <2>1 DEF WriteInv, OrderInv
<1>4. CASE HandleConnect \/ Accept
  <2>1. CASE ~running'
    BY <2>1 DEF WriteInv, OrderInv
  <2>2. CASE running'
    <3>1. /\ writing' = <<>> /\ wire' = <<>> /\ sock' = "connected"
          /\ \A i \in DOMAIN ready' : ready'[i].op \in Posts
      BY <1>4, <2>2, StartIdle
    <3>2. queue' = <<>> /\ batch' = <<>> /\ accepted' = <<>>
      BY <1>4, <3>1 DEF HandleConnect, Accept, Start, Cleared
    <3>3. Current' = <<>> /\ InFlight' = <<>> /\ Waiting' = <<>> /\ Nil(ready', "wrote")
      BY <3>1, <3>2 DEF Current, InFlight, Waiting, Nil, Posts
    <3>4. <<>> \o <<>> \o <<>> = <<>>
      OBVIOUS
    <3>5. accepted' = wire' \o InFlight' \o Waiting'
      BY <3>1, <3>2, <3>3, <3>4
    <3> QED BY <3>1, <3>2, <3>3, <3>5 DEF WriteInv, OrderInv
  <2> QED BY <2>1, <2>2
<1>5. CASE ConnectEnds
  <2>1. PICK ok \in BOOLEAN : ready' = Append(ready, [op |-> "connect", ok |-> ok])
    BY <1>5 DEF ConnectEnds
  <2> DEFINE h == [op |-> "connect", ok |-> ok]
  <2>2. h \in AnyHandler /\ h.op # "wrote"
    BY Handlers
  <2>3. UNCHANGED <<running, queue, batch, writing, accepted, wire>>
    BY <1>5 DEF ConnectEnds
  <2> HIDE DEF h
  <2> QED BY <2>1, <2>2, <2>3, WriteAppend DEF h
<1>7. CASE ResetEarly
  BY <1>6, <1>7 DEF ResetEarly
<1>8. CASE WriteEnds
  BY <1>8, WriteEnded
<1>9. ASSUME NEW m \in Calls, PeerReplies(m) PROVE WriteInv' /\ OrderInv'
  BY <1>6, <1>9 DEF PeerReplies
<1>10. ASSUME NEW i \in DOMAIN reads, NEW n \in 1 .. BuffMax, NEW k \in 0 .. Len(incoming), ReadEnds(i, n, k)
       PROVE  WriteInv' /\ OrderInv'
  <2>1. /\ UNCHANGED <<running, queue, batch, writing, accepted, wire>>
        /\ ready' = Append(ready, [op |-> "read", ok |-> TRUE, len |-> n, replies |-> SubSeq(incoming, 1, k)])
    BY <1>10 DEF ReadEnds
  <2>2. incoming \in Seq(CallReply) /\ Len(incoming) \in Nat /\ n \in Nat
    BY ConnectionAssumption, LenProperties DEF ConnTypes
  <2>3. SubSeq(incoming, 1, k) \in Seq(CallReply)
    BY <2>2, PartType
  <2> DEFINE h == [op |-> "read", ok |-> TRUE, len |-> n, replies |-> SubSeq(incoming, 1, k)]
  <2>4. h \in AnyHandler /\ h.op # "wrote"
    BY <2>2, <2>3, Handlers
  <2> HIDE DEF h
  <2>5. ready' = Append(ready, h)
    BY <2>1 DEF h
  <2> QED BY <2>1, <2>4, <2>5, WriteAppend
<1>11. ASSUME NEW i \in DOMAIN reads, ReadBreaks(i) PROVE WriteInv' /\ OrderInv'
  <2>1. UNCHANGED <<running, queue, batch, writing, accepted, wire>> /\ ready' = Append(ready, BrokenRead)
    BY <1>11 DEF ReadBreaks
  <2>2. BrokenRead \in AnyHandler /\ BrokenRead.op # "wrote"
    BY Handlers DEF BrokenRead
  <2> QED BY <2>1, <2>2, WriteAppend
<1>12. CASE HandleClose
  <2>1. CASE forceClosed
    <3>1. /\ ready # <<>> /\ Head(ready).op # "wrote" /\ ready' = Tail(ready)
          /\ UNCHANGED <<running, queue, batch, writing, accepted, wire>>
      BY <1>12, <2>1 DEF HandleClose, Runs
    <3> QED BY <3>1, WriteTail
  <2>2. CASE ~forceClosed
    <3>1. ~running'
      BY <1>12, <2>2 DEF HandleClose
    <3> QED BY <3>1 DEF WriteInv, OrderInv
  <2> QED BY <2>1, <2>2
<1>13. CASE HandleWrite
  <2>1. ready # <<>> /\ Head(ready).op \in {"write", "await"} /\ ready' = Tail(ready) /\ UNCHANGED <<running, wire>>
    BY <1>13 DEF HandleWrite, Runs
  <2>2. CASE running
    <3>1. DoWrite(Head(ready).msg)
      BY <1>13, <2>2 DEF HandleWrite
    <3>2. Head(ready) \in AnyHandler
      BY <2>1, Popped DEF ConnTypes
    <3>3. Head(ready).msg \in Msgs
      BY <2>1, <3>2, HandlerKinds, ConnectionAssumption
    <3> QED BY <2>1, <2>2, <3>1, <3>3, WriteDone
  <2>3. CASE ~running
    BY <2>1, <2>3 DEF WriteInv, OrderInv
  <2> QED BY <2>2, <2>3
<1>14. CASE HandleWrote
  BY <1>14, WroteDone
<1>15. CASE HandleRead
  <2>1. /\ ready # <<>> /\ Head(ready).op # "wrote" /\ ready' = Tail(ready)
        /\ UNCHANGED <<queue, batch, writing, accepted, wire>>
    BY <1>15 DEF HandleRead, Runs
  <2>2. running' => running
    BY <1>15, ReadOutcome DEF ReadFails, ReadTaken, OnError
  <2> QED BY <2>1, <2>2, WriteTail
<1>16. CASE UNCHANGED vars
  BY <1>6, <1>16 DEF vars
<1> QED BY <1>1, <1>2, <1>3, <1>4, <1>5, <1>7, <1>8, <1>9, <1>10, <1>11, <1>12, <1>13,
           <1>14, <1>15, <1>16, <1>17, <1>18 DEF Next, Handle

-----------------------------------------------------------------------------
(* Where the messages of the connection are from *)

\* Messages of q, one more, or some of them.
LEMMA OfParts ==
  ASSUME NEW S, NEW X, NEW q \in Seq(S), Of(q, X)
  PROVE  /\ \A m \in X \intersect S : Of(Append(q, m), X) /\ Of(<<m>>, X)
         /\ q # <<>> => Of(Tail(q), X) /\ Head(q) \in X
         /\ Of(<<>>, X)
<1>1. ASSUME NEW m \in X \intersect S PROVE Of(Append(q, m), X) /\ Of(<<m>>, X)
  <2>1. /\ DOMAIN Append(q, m) = DOMAIN q \union {Len(q) + 1}
        /\ \A i \in DOMAIN q : Append(q, m)[i] = q[i]
        /\ Append(q, m)[Len(q) + 1] = m
    BY Pushed
  <2> DEFINE z == Append(q, m)
  <2> HIDE DEF z
  <2>2. Of(z, X)
    BY <2>1 DEF Of, z
  <2>3. Of(<<m>>, X)
    BY DEF Of
  <2> QED BY <2>2, <2>3 DEF z
<1>2. ASSUME q # <<>> PROVE Of(Tail(q), X) /\ Head(q) \in X
  <2>1. /\ \A i \in DOMAIN Tail(q) : i + 1 \in DOMAIN q /\ Tail(q)[i] = q[i + 1]
        /\ Head(q) = q[1] /\ 1 \in DOMAIN q
    BY <1>2, Popped
  <2> QED BY <2>1 DEF Of
<1>3. Of(<<>>, X)
  BY DEF Of
<1> QED BY <1>1, <1>2, <1>3

\* Messages of two queues.
LEMMA OfJoined ==
  ASSUME NEW S, NEW X, NEW q \in Seq(S), NEW z \in Seq(S), Of(q, X), Of(z, X)
  PROVE  Of(q \o z, X)
<1>1. PICK y : y = q \o z
  OBVIOUS
<1>2. \A i \in DOMAIN y : (i \in DOMAIN q /\ y[i] = q[i]) \/ (\E j \in DOMAIN z : y[i] = z[j])
  BY <1>1, JoinedFrom
<1>3. Of(y, X)
  BY <1>2 DEF Of
<1> QED BY <1>1, <1>3

\* async_write_msg writes messages of the queue.
LEMMA AsyncWriteOf ==
  ASSUME ConnTypes, NEW X, NEW q \in Seq(Msgs), NEW b, AsyncWrite(q, b), Of(q, X), Of(b, X),
         \A i \in DOMAIN writing : Of(writing[i], X)
  PROVE  Written(X)'
<1>1. writing \in Seq(Seq(Msgs))
  BY DEF ConnTypes
<1>2. ASSUME NEW z \in Seq(Msgs), Of(z, X), writing' = Append(writing, z)
      PROVE  \A i \in DOMAIN writing' : Of(writing'[i], X)
  <2>1. /\ DOMAIN writing' = DOMAIN writing \union {Len(writing) + 1}
        /\ \A i \in DOMAIN writing : writing'[i] = writing[i]
        /\ writing'[Len(writing) + 1] = z
    BY <1>1, <1>2, Pushed
  <2> QED BY <1>2, <2>1
<1>3. CASE q = <<>>
  BY <1>3 DEF AsyncWrite, Written
<1>4. CASE q # <<>> /\ (~BatchSend \/ Len(q) = 1)
  <2>1. queue' = q /\ batch' = b /\ writing' = Append(writing, <<Head(q)>>)
    BY <1>4 DEF AsyncWrite
  <2>2. Head(q) \in Msgs /\ Head(q) \in X
    BY <1>4, OfParts, Popped
  <2>3. <<Head(q)>> \in Seq(Msgs) /\ Of(<<Head(q)>>, X)
    BY <2>2 DEF Of
  <2>4. \A i \in DOMAIN writing' : Of(writing'[i], X)
    BY <1>2, <2>1, <2>3
  <2> QED BY <2>1, <2>4 DEF Written
<1>5. CASE q # <<>> /\ ~(~BatchSend \/ Len(q) = 1)
  <2>1. queue' = <<>> /\ batch' = q /\ writing' = Append(writing, q)
    BY <1>5 DEF AsyncWrite
  <2>2. \A i \in DOMAIN writing' : Of(writing'[i], X)
    BY <1>2, <2>1
  <2> QED BY <2>1, <2>2, OfParts DEF Written
<1> QED BY <1>3, <1>4, <1>5

\* do_write adds its message to them.
LEMMA DoWriteOf ==
  ASSUME ConnTypes, NEW X, NEW m \in Msgs, m \in X, DoWrite(m), Written(X)
  PROVE  Written(X)'
<1>1. queue \in Seq(Msgs) /\ Of(queue, X) /\ Of(batch, X)
  BY DEF ConnTypes, Written
<1>2. Append(queue, m) \in Seq(Msgs) /\ Of(Append(queue, m), X)
  BY <1>1, OfParts, Pushed
<1>3. CASE WriteInProgress
  <2>1. queue' = Append(queue, m) /\ UNCHANGED <<batch, writing>>
    BY <1>3 DEF DoWrite
  <2> QED BY <1>2, <2>1 DEF Written
<1>4. CASE ~WriteInProgress
  <2>1. AsyncWrite(Append(queue, m), batch)
    BY <1>4 DEF DoWrite
  <2>2. \A i \in DOMAIN writing : Of(writing[i], X)
    BY DEF Written
  <2> QED BY <1>1, <1>2, <2>1, <2>2, AsyncWriteOf
<1> QED BY <1>3, <1>4

\* handle_write and handle_write_batch add nothing.
LEMMA WroteOf ==
  ASSUME ConnTypes, NEW X, HandleWrote, Written(X)
  PROVE  Written(X)'
<1>1. /\ queue \in Seq(Msgs) /\ Of(queue, X) /\ Of(batch, X) /\ Of(<<>>, X)
      /\ \A i \in DOMAIN writing : Of(writing[i], X)
  BY DEF ConnTypes, Written, Of
<1>2. CASE UNCHANGED <<queue, batch, writing>>
  BY <1>2 DEF Written
<1>3. CASE AsyncWrite(queue, <<>>)
  BY <1>1, <1>3, AsyncWriteOf
<1>4. CASE AsyncWrite(FrontPopped, batch)
  <2>1. FrontPopped \in Seq(Msgs) /\ Of(FrontPopped, X)
    <3>1. CASE queue = <<>>
      <4>1. FrontPopped = <<>>
        BY <3>1, SubSeqEmpty DEF FrontPopped
      <4> QED BY <1>1, <4>1
    <3>2. CASE queue # <<>>
      <4>1. FrontPopped = Tail(queue)
        BY <1>1, <3>2, TailIsSubSeq DEF FrontPopped
      <4> QED BY <1>1, <3>2, <4>1, OfParts, Popped
    <3> QED BY <3>1, <3>2
  <2> QED BY <1>1, <1>4, <2>1, AsyncWriteOf
<1> QED BY <1>2, <1>3, <1>4 DEF HandleWrote

\* Steps of the network and calls of close that only put a handler in the queue.
Quiet(h) ==
    /\ h \in AnyHandler /\ ready' = Append(ready, h)
    /\ h.op \in {"close", "connect"} \/ h = BrokenRead
    /\ UNCHANGED <<running, connects, queue, batch, accepted, writing, wire, served, incoming,
                   callId, id, keyed, calls, status, givenTo, answer, outOfStep>>

\* Which steps these are.
LEMMA QuietSteps ==
  /\ Close => Quiet([op |-> "close"])
  /\ ConnectEnds => \E ok \in BOOLEAN : Quiet([op |-> "connect", ok |-> ok])
  /\ \A i \in DOMAIN reads : ReadBreaks(i) => Quiet(BrokenRead)
<1> USE DEF sockVars, peerVars, writeVars, readVars, callVars, msgVars
<1>1. ASSUME Close PROVE Quiet([op |-> "close"])
  <2> DEFINE h == [op |-> "close"]
  <2>1. h \in AnyHandler /\ h.op \in {"close", "connect"}
    BY Handlers
  <2>2. /\ ready' = Append(ready, h)
        /\ UNCHANGED <<running, connects, queue, batch, accepted, writing, wire, served, incoming,
                       callId, id, keyed, calls, status, givenTo, answer, outOfStep>>
    BY <1>1 DEF Close
  <2> HIDE DEF h
  <2>3. Quiet(h)
    BY <2>1, <2>2 DEF Quiet
  <2> QED BY <2>3 DEF h
<1>2. ASSUME ConnectEnds PROVE \E ok \in BOOLEAN : Quiet([op |-> "connect", ok |-> ok])
  <2>1. PICK ok \in BOOLEAN : ready' = Append(ready, [op |-> "connect", ok |-> ok])
    BY <1>2 DEF ConnectEnds
  <2> DEFINE h == [op |-> "connect", ok |-> ok]
  <2>2. h \in AnyHandler /\ h.op \in {"close", "connect"}
    BY Handlers
  <2>3. UNCHANGED <<running, connects, queue, batch, accepted, writing, wire, served, incoming,
                    callId, id, keyed, calls, status, givenTo, answer, outOfStep>>
    BY <1>2 DEF ConnectEnds
  <2>4. ready' = Append(ready, h)
    BY <2>1
  <2> HIDE DEF h
  <2>5. Quiet(h)
    BY <2>2, <2>3, <2>4 DEF Quiet
  <2> QED BY <2>5 DEF h
<1>3. ASSUME NEW i \in DOMAIN reads, ReadBreaks(i) PROVE Quiet(BrokenRead)
  <2>1. /\ ready' = Append(ready, BrokenRead)
        /\ UNCHANGED <<running, connects, queue, batch, accepted, writing, wire, served, incoming,
                       callId, id, keyed, calls, status, givenTo, answer, outOfStep>>
    BY <1>3 DEF ReadBreaks
  <2> QED BY <2>1, Handlers DEF Quiet
<1> QED BY <1>1, <1>2, <1>3

\* A handler that is no message is put in the queue, or one is taken from it.
LEMMA BehindAppend ==
  ASSUME NEW X, NEW r \in Seq(AnyHandler), NEW h \in AnyHandler, Behind(r, X),
         h.op \notin {"write", "await"} \/ h.msg \in X
  PROVE  Behind(Append(r, h), X)
<1> DEFINE q == Append(r, h)
<1>1. /\ DOMAIN q = DOMAIN r \union {Len(r) + 1} /\ DOMAIN r \subseteq Nat /\ Len(r) \in Nat
      /\ \A i \in DOMAIN r : q[i] = r[i] /\ i < Len(r) + 1
      /\ q[Len(r) + 1] = h
  BY Pushed, LenProperties
<1> HIDE DEF q
<1>2. ASSUME NEW i \in DOMAIN q, NEW j \in DOMAIN q, q[i].op = "connect", j > i, q[j].op \in {"write", "await"}
      PROVE  q[j].msg \in X
  <2>1. CASE j = Len(r) + 1
    BY <1>1, <1>2, <2>1
  <2>2. CASE j \in DOMAIN r
    <3>1. i \in DOMAIN r
      BY <1>1, <1>2, <2>2
    <3>2. r[i].op = "connect" /\ r[j].op \in {"write", "await"} /\ q[j] = r[j]
      BY <1>1, <1>2, <2>2, <3>1
    <3> QED BY <1>2, <2>2, <3>1, <3>2 DEF Behind
  <2> QED BY <1>1, <2>1, <2>2
<1> QED BY <1>2 DEF Behind, q

LEMMA BehindTail ==
  ASSUME NEW X, NEW r \in Seq(AnyHandler), r # <<>>, Behind(r, X)
  PROVE  /\ Behind(Tail(r), X)
         /\ Head(r).op = "connect" => \A i \in DOMAIN Tail(r) :
               Tail(r)[i].op \in {"write", "await"} => Tail(r)[i].msg \in X
<1> DEFINE q == Tail(r)
<1>1. /\ DOMAIN r \subseteq Nat \ {0} /\ DOMAIN q \subseteq Nat \ {0} /\ Head(r) = r[1] /\ 1 \in DOMAIN r
      /\ \A i \in DOMAIN q : i + 1 \in DOMAIN r /\ q[i] = r[i + 1]
  BY Popped
<1> HIDE DEF q
<1>2. ASSUME NEW i \in DOMAIN q, NEW j \in DOMAIN q, q[i].op = "connect", j > i, q[j].op \in {"write", "await"}
      PROVE  q[j].msg \in X
  <2>1. i + 1 \in DOMAIN r /\ j + 1 \in DOMAIN r /\ j + 1 > i + 1
    BY <1>1, <1>2
  <2>2. r[i + 1].op = "connect" /\ r[j + 1].op \in {"write", "await"} /\ q[j] = r[j + 1]
    BY <1>1, <1>2
  <2> QED BY <2>1, <2>2 DEF Behind
<1>3. ASSUME Head(r).op = "connect", NEW i \in DOMAIN q, q[i].op \in {"write", "await"}
      PROVE  q[i].msg \in X
  <2>1. i + 1 \in DOMAIN r /\ i + 1 > 1 /\ q[i] = r[i + 1] /\ r[1].op = "connect"
    BY <1>1, <1>3
  <2> QED BY <1>1, <1>3, <2>1 DEF Behind
<1> QED BY <1>2, <1>3 DEF Behind, q

\* What a close of the socket cuts off is no message.
LEMMA BehindClosed ==
  ASSUME ConnTypes, NEW X, NEW r \in Seq(AnyHandler), CloseSocket(r), Behind(r, X)
  PROVE  Behind(ready', X)
<1>1. PICK q : q = ready'
  OBVIOUS
<1>2. /\ q \in Seq(AnyHandler) /\ \A i \in DOMAIN r : i \in DOMAIN q /\ q[i] = r[i]
      /\ \A i \in DOMAIN q : \/ i \in DOMAIN r /\ q[i] = r[i]
                             \/ q[i].op \in {"connect", "wrote"} \/ q[i] = BrokenRead
  BY <1>1, ClosedFrom, ClosedReady
<1>3. DOMAIN q = 1 .. Len(q) /\ DOMAIN r = 1 .. Len(r) /\ Len(r) \in Nat
  BY <1>2, LenProperties
<1>4. ASSUME NEW i \in DOMAIN q, NEW j \in DOMAIN q, q[i].op = "connect", j > i, q[j].op \in {"write", "await"}
      PROVE  q[j].msg \in X
  <2>1. j \in DOMAIN r /\ q[j] = r[j]
    BY <1>2, <1>4 DEF BrokenRead
  <2>2. i \in DOMAIN r
    BY <1>3, <1>4, <2>1
  <2>3. r[i].op = "connect"
    BY <1>2, <1>4, <2>2
  <2> QED BY <1>4, <2>1, <2>2, <2>3 DEF Behind
<1> QED BY <1>1, <1>4 DEF Behind

\* What the connection holds stays with the connection it was given to.
LEMMA GivenFrame ==
  ASSUME GivenInv, UNCHANGED <<givenTo, connects>>, running' => running,
         running' => (Written(GivenHere) /\ Of(wire, GivenHere))',
         Behind(ready', GivenHere),
         running' => \A i \in DOMAIN ready' : ready'[i].op \in {"write", "await"} =>
                        \E j \in DOMAIN ready : ready'[i] = ready[j]
  PROVE  GivenInv'
<1>1. GivenHere' = GivenHere
  BY DEF GivenHere
<1>2. running' => \A i \in DOMAIN ready' : ready'[i].op \in {"write", "await"} => ready'[i].msg \in GivenHere'
  BY <1>1 DEF GivenInv
<1> QED BY <1>1, <1>2 DEF GivenInv

\* A handler other than do_write is put in the queue.
LEMMA GivenAppend ==
  ASSUME ConnTypes, GivenInv, UNCHANGED <<givenTo, connects, running>>,
         running => (Written(GivenHere) /\ Of(wire, GivenHere))',
         NEW h \in AnyHandler, h.op \notin {"write", "await"}, ready' = Append(ready, h)
  PROVE  GivenInv'
<1>1. /\ DOMAIN ready' = DOMAIN ready \union {Len(ready) + 1}
      /\ \A i \in DOMAIN ready : ready'[i] = ready[i]
      /\ ready'[Len(ready) + 1] = h
  BY Pushed DEF ConnTypes
<1>2. \A i \in DOMAIN ready' : ready'[i].op \in {"write", "await"} => \E j \in DOMAIN ready : ready'[i] = ready[j]
  BY <1>1
<1>3. PICK X : X = GivenHere
  OBVIOUS
<1>4. Behind(ready', X)
  <2>1. ready \in Seq(AnyHandler) /\ Behind(ready, X)
    BY <1>3 DEF ConnTypes, GivenInv
  <2> QED BY <2>1, BehindAppend
<1> QED BY <1>2, <1>3, <1>4, GivenFrame

\* A handler is taken from the queue.
LEMMA GivenTail ==
  ASSUME ConnTypes, GivenInv, UNCHANGED <<givenTo, connects>>, running' => running,
         running' => (Written(GivenHere) /\ Of(wire, GivenHere))',
         ready # <<>>, ready' = Tail(ready)
  PROVE  GivenInv'
<1>1. \A i \in DOMAIN ready' : i + 1 \in DOMAIN ready /\ ready'[i] = ready[i + 1]
  BY Popped DEF ConnTypes
<1>2. \A i \in DOMAIN ready' : ready'[i].op \in {"write", "await"} => \E j \in DOMAIN ready : ready'[i] = ready[j]
  BY <1>1
<1>3. PICK X : X = GivenHere
  OBVIOUS
<1>4. Behind(ready', X)
  <2>1. ready \in Seq(AnyHandler) /\ Behind(ready, X)
    BY <1>3 DEF ConnTypes, GivenInv
  <2> QED BY <2>1, BehindTail
<1> QED BY <1>2, <1>3, <1>4, GivenFrame

\* No message was given to a new connection.
LEMMA InitGiven == Init => GivenInv
  BY DEF Init, GivenInv, Behind

\* Every action keeps a message with the connection it was given to.
LEMMA GivenStep ==
  ASSUME WellUsed, ConnTypes, SockInv, GivenInv, [Next]_vars
  PROVE  GivenInv'
<1> USE DEF sockVars, peerVars, writeVars, readVars, callVars, msgVars
<1>0. /\ ready \in Seq(AnyHandler) /\ connects \in Nat /\ givenTo \in [Msgs -> Nat]
      /\ wire \in Seq(Msgs) /\ writing \in Seq(Seq(Msgs))
  BY DEF ConnTypes
<1>1. PICK X : X = GivenHere
  OBVIOUS
<1>2. running => /\ Written(X) /\ Of(wire, X)
                 /\ \A i \in DOMAIN ready : ready[i].op \in {"write", "await"} => ready[i].msg \in X
  BY <1>1 DEF GivenInv
<1>22. Behind(ready, X)
  BY <1>1 DEF GivenInv
<1>3. ASSUME UNCHANGED <<givenTo, connects>> PROVE GivenHere' = X
  BY <1>1, <1>3 DEF GivenHere
<1>4. ASSUME UNCHANGED <<givenTo, connects, queue, batch, writing, wire>>, running
      PROVE  (Written(GivenHere) /\ Of(wire, GivenHere))'
  BY <1>2, <1>3, <1>4 DEF Written
<1>5. ASSUME UNCHANGED <<givenTo, connects, running, queue, batch, writing, wire, ready>>
      PROVE  GivenInv'
  <2>1. running' => (Written(GivenHere) /\ Of(wire, GivenHere))'
    BY <1>4, <1>5
  <2>2. Behind(ready', GivenHere)
    BY <1>5 DEF GivenInv
  <2> QED BY <1>5, <2>1, <2>2, GivenFrame
<1>20. ASSUME NEW m \in Msgs, Write(m) PROVE GivenInv'
  BY <1>5, <1>20 DEF Write
<1>21. ASSUME NEW m \in Msgs, Post(m) PROVE GivenInv'
  <2>1. /\ UNCHANGED <<running, connects, queue, batch, writing, wire>>
        /\ ready' = Append(ready, [op |-> IF m \in Calls THEN "await" ELSE "write", msg |-> m])
        /\ givenTo' = [givenTo EXCEPT ![m] = connects]
    BY <1>21 DEF Post
  <2>2. PICK h : h = [op |-> IF m \in Calls THEN "await" ELSE "write", msg |-> m]
    OBVIOUS
  <2>3. h \in AnyHandler /\ h.msg = m /\ ready' = Append(ready, h)
    BY <2>1, <2>2, Handlers
  <2>4. givenTo'[m] = connects /\ \A n \in Msgs : n # m => givenTo'[n] = givenTo[n]
    BY <1>0, <2>1
  <2>5. PICK Y : Y = GivenHere'
    OBVIOUS
  <2>6. X \subseteq Y /\ m \in Y
    BY <1>1, <2>1, <2>4, <2>5 DEF GivenHere
  <2>7. running => Written(Y)' /\ Of(wire', Y)
    BY <1>2, <2>1, <2>6 DEF Written, Of
  <2>8. /\ DOMAIN ready' = DOMAIN ready \union {Len(ready) + 1}
        /\ \A i \in DOMAIN ready : ready'[i] = ready[i]
        /\ ready'[Len(ready) + 1] = h
    BY <1>0, <2>3, Pushed
  <2>9. running => \A i \in DOMAIN ready' : ready'[i].op \in {"write", "await"} => ready'[i].msg \in Y
    BY <1>2, <2>3, <2>6, <2>8
  <2>10. Behind(ready, Y)
    BY <1>22, <2>6 DEF Behind
  <2>11. Behind(ready', Y)
    BY <1>0, <2>3, <2>6, <2>10, BehindAppend
  <2>12. (Written(GivenHere) /\ Of(wire, GivenHere))' <=> Written(Y)' /\ Of(wire', Y)
    BY <2>5 DEF Written
  <2> QED BY <2>1, <2>5, <2>7, <2>9, <2>11, <2>12 DEF GivenInv
<1>23. ASSUME NEW k \in CallIds, PeerSends(k) PROVE GivenInv'
  BY <1>5, <1>23 DEF PeerSends
<1>6. ASSUME NEW h, Quiet(h) PROVE GivenInv'
  <2>1. /\ h \in AnyHandler /\ ready' = Append(ready, h)
        /\ UNCHANGED <<givenTo, connects, running, queue, batch, writing, wire>>
    BY <1>6 DEF Quiet
  <2>2. h.op \notin {"write", "await"}
    BY <1>6 DEF Quiet, BrokenRead
  <2> QED BY <1>4, <2>1, <2>2, GivenAppend
<1>7. CASE AsyncConnect
  <2>1. ~running' /\ ~Connecting /\ CloseSocket(ready)
    BY <1>7 DEF AsyncConnect, WellUsed
  <2>2. Nil(ready, "connect") /\ sock # "connecting"
    BY <2>1, ConnectingNil
  <2>3. Nil(ready', "connect")
    BY <1>0, <2>1, <2>2, ClosedSock
  <2> QED BY <2>1, <2>3 DEF GivenInv, Behind, Nil
<1>8. CASE HandleConnect \/ Accept
  <2>1. /\ writing' = <<>> /\ wire' = <<>> /\ \A i \in DOMAIN ready' : ready'[i].op \in Posts
        /\ running' => sock' = "connected"
    BY <1>8, StartIdle
  <2>2. Behind(ready', GivenHere')
    BY <2>1 DEF Behind, Posts
  <2>3. running' => queue' = <<>> /\ batch' = <<>>
    BY <1>8, <2>1 DEF HandleConnect, Accept, Start, Cleared
  <2>4. \A i \in DOMAIN ready' : ready'[i].op \in {"write", "await"} => ready'[i].msg \in GivenHere'
    <3>1. CASE HandleConnect
      <4>1. ready # <<>> /\ Head(ready).op = "connect" /\ ready' = Tail(ready) /\ UNCHANGED <<givenTo, connects>>
        BY <3>1 DEF HandleConnect, Runs
      <4>2. \A i \in DOMAIN ready' : ready'[i].op \in {"write", "await"} => ready'[i].msg \in X
        BY <1>0, <1>22, <4>1, BehindTail
      <4> QED BY <1>3, <4>1, <4>2
    <3>2. CASE Accept
      <4>1. ready' = ready /\ connects = 0
        BY <3>2 DEF Accept
      <4> QED BY <4>1 DEF SockInv
    <3> QED BY <1>8, <3>1, <3>2
  <2>5. running' => (Written(GivenHere) /\ Of(wire, GivenHere))'
    BY <2>1, <2>3 DEF Written, Of
  <2> QED BY <2>2, <2>4, <2>5 DEF GivenInv
<1>9. CASE ResetEarly
  BY <1>5, <1>9 DEF ResetEarly
<1>10. CASE WriteEnds
  <2>1. PICK ok \in BOOLEAN :
          /\ ready' = Append(ready, [op |-> "wrote", ok |-> ok, msgs |-> Head(writing)])
          /\ wire' = IF ok THEN wire \o Head(writing) ELSE wire
    BY <1>10 DEF WriteEnds
  <2>2. writing # <<>> /\ writing' = Tail(writing) /\ UNCHANGED <<givenTo, connects, running, queue, batch>>
    BY <1>10 DEF WriteEnds
  <2>3. /\ Head(writing) \in Seq(Msgs) /\ Head(writing) = writing[1] /\ 1 \in DOMAIN writing
        /\ \A i \in DOMAIN Tail(writing) : i + 1 \in DOMAIN writing /\ Tail(writing)[i] = writing[i + 1]
    BY <1>0, <2>2, Popped
  <2>4. PICK h : h = [op |-> "wrote", ok |-> ok, msgs |-> Head(writing)]
    OBVIOUS
  <2>5. h \in AnyHandler /\ h.op \notin {"write", "await"} /\ ready' = Append(ready, h)
    BY <2>1, <2>3, <2>4, Handlers
  <2>6. ASSUME running PROVE (Written(GivenHere) /\ Of(wire, GivenHere))'
    <3>1. Written(X) /\ Of(wire, X) /\ GivenHere' = X
      BY <1>2, <1>3, <2>2, <2>6
    <3>2. Of(Head(writing), X)
      BY <2>3, <3>1 DEF Written
    <3>3. Of(wire \o Head(writing), X)
      BY <1>0, <2>3, <3>1, <3>2, OfJoined
    <3>4. Of(wire', X)
      BY <2>1, <3>1, <3>3
    <3>5. Written(X)'
      BY <2>2, <2>3, <3>1 DEF Written
    <3> QED BY <3>1, <3>4, <3>5 DEF Written
  <2> QED BY <2>2, <2>5, <2>6, GivenAppend
<1>11. ASSUME NEW m \in Calls, PeerReplies(m) PROVE GivenInv'
  BY <1>5, <1>11 DEF PeerReplies
<1>12. ASSUME NEW i \in DOMAIN reads, NEW n \in 1 .. BuffMax, NEW k \in 0 .. Len(incoming), ReadEnds(i, n, k)
       PROVE  GivenInv'
  <2>1. /\ UNCHANGED <<givenTo, connects, running, queue, batch, writing, wire>>
        /\ ready' = Append(ready, [op |-> "read", ok |-> TRUE, len |-> n, replies |-> SubSeq(incoming, 1, k)])
    BY <1>12 DEF ReadEnds
  <2>2. incoming \in Seq(CallReply) /\ Len(incoming) \in Nat /\ n \in Nat
    BY ConnectionAssumption, LenProperties DEF ConnTypes
  <2>3. SubSeq(incoming, 1, k) \in Seq(CallReply)
    BY <2>2, PartType
  <2>4. PICK h : h = [op |-> "read", ok |-> TRUE, len |-> n, replies |-> SubSeq(incoming, 1, k)]
    OBVIOUS
  <2>5. h \in AnyHandler /\ h.op \notin {"write", "await"} /\ ready' = Append(ready, h)
    BY <2>1, <2>2, <2>3, <2>4, Handlers
  <2>6. running => (Written(GivenHere) /\ Of(wire, GivenHere))'
    BY <1>4, <2>1
  <2> QED BY <2>1, <2>5, <2>6, GivenAppend
<1>13. CASE HandleClose
  <2>1. UNCHANGED <<givenTo, connects, batch, wire>>
    BY <1>13 DEF HandleClose
  <2>2. CASE forceClosed
    <3>1. ready # <<>> /\ ready' = Tail(ready) /\ UNCHANGED <<running, queue, writing>>
      BY <1>13, <2>2 DEF HandleClose, Runs
    <3>2. running' => (Written(GivenHere) /\ Of(wire, GivenHere))'
      BY <1>4, <2>1, <3>1
    <3> QED BY <2>1, <3>1, <3>2, GivenTail
  <2>3. CASE ~forceClosed
    <3>1. ~running' /\ ready # <<>> /\ CloseSocket(Tail(ready))
      BY <1>13, <2>3 DEF HandleClose, Runs
    <3>2. Tail(ready) \in Seq(AnyHandler) /\ Behind(Tail(ready), X)
      BY <1>0, <1>22, <3>1, BehindTail, Popped
    <3>3. Behind(ready', X)
      BY <3>1, <3>2, BehindClosed
    <3> QED BY <1>1, <2>1, <3>1, <3>3, GivenFrame
  <2> QED BY <2>2, <2>3
<1>14. CASE HandleWrite
  <2>1. /\ ready # <<>> /\ Head(ready).op \in {"write", "await"} /\ ready' = Tail(ready)
        /\ UNCHANGED <<givenTo, connects, running, wire>>
    BY <1>14 DEF HandleWrite, Runs
  <2>2. ASSUME running PROVE (Written(GivenHere) /\ Of(wire, GivenHere))'
    <3>1. DoWrite(Head(ready).msg)
      BY <1>14, <2>2 DEF HandleWrite
    <3>2. Head(ready) = ready[1] /\ 1 \in DOMAIN ready
      BY <1>0, <2>1, Popped
    <3>3. PICK m : m = Head(ready).msg
      OBVIOUS
    <3>4. m \in X /\ X \subseteq Msgs /\ Written(X) /\ Of(wire, X)
      <4>1. Written(X) /\ Of(wire, X) /\ m \in X
        BY <1>2, <2>1, <2>2, <3>2, <3>3
      <4>2. X \subseteq Msgs
        BY <1>1 DEF GivenHere
      <4> QED BY <4>1, <4>2
    <3>5. Written(X)'
      BY <3>1, <3>3, <3>4, DoWriteOf
    <3>6. GivenHere' = X
      BY <1>3, <2>1
    <3> QED BY <2>1, <3>4, <3>5, <3>6 DEF Written
  <2> QED BY <2>1, <2>2, GivenTail
<1>15. CASE HandleWrote
  <2>1. /\ ready # <<>> /\ ready' = Tail(ready) /\ UNCHANGED <<givenTo, connects, wire>>
    BY <1>15 DEF HandleWrote, Runs
  <2>2. running' => running
    BY <1>15 DEF HandleWrote, OnError
  <2>3. ASSUME running PROVE (Written(GivenHere) /\ Of(wire, GivenHere))'
    <3>1. Written(X) /\ Of(wire, X)
      BY <1>2, <2>3
    <3>2. Written(X)'
      BY <1>15, <3>1, WroteOf
    <3>3. GivenHere' = X
      BY <1>3, <2>1
    <3> QED BY <2>1, <3>1, <3>2, <3>3 DEF Written
  <2> QED BY <2>1, <2>2, <2>3, GivenTail
<1>16. CASE HandleRead
  <2>1. /\ ready # <<>> /\ ready' = Tail(ready)
        /\ UNCHANGED <<givenTo, connects, queue, batch, writing, wire>>
    BY <1>16 DEF HandleRead, Runs
  <2>2. running' => running
    BY <1>16, ReadOutcome DEF ReadFails, ReadTaken, OnError
  <2>3. running' => (Written(GivenHere) /\ Of(wire, GivenHere))'
    BY <1>4, <2>1, <2>2
  <2> QED BY <2>1, <2>2, <2>3, GivenTail
<1>17. CASE UNCHANGED vars
  BY <1>5, <1>17 DEF vars
<1>18. CASE Close \/ ConnectEnds \/ \E i \in DOMAIN reads : ReadBreaks(i)
  BY <1>6, <1>18, QuietSteps
<1> QED BY <1>7, <1>8, <1>9, <1>10, <1>11, <1>12, <1>13, <1>14, <1>15, <1>16, <1>17, <1>18, <1>20,
           <1>21, <1>23
        DEF Next, Handle

-----------------------------------------------------------------------------
(* The ids of the calls *)

\* do_await_write is posted once for a call.
LEMMA OnceQueue ==
  ASSUME NEW r \in Seq(AnyHandler), Once(r)
  PROVE  /\ \A h \in AnyHandler : (h.op = "await" => ~Posted(h.msg, r)) => Once(Append(r, h))
         /\ r # <<>> => Once(Tail(r))
         /\ r # <<>> /\ Head(r).op = "await" => ~Posted(Head(r).msg, Tail(r))
<1>1. ASSUME NEW h \in AnyHandler, h.op = "await" => ~Posted(h.msg, r) PROVE Once(Append(r, h))
  <2>1. PICK q : q = Append(r, h)
    OBVIOUS
  <2>2. /\ DOMAIN q = DOMAIN r \union {Len(r) + 1}
        /\ \A i \in DOMAIN r : q[i] = r[i]
        /\ q[Len(r) + 1] = h
    BY <2>1, Pushed
  <2>3. Once(q)
    BY <1>1, <2>2 DEF Once, Posted
  <2> QED BY <2>1, <2>3
<1>2. ASSUME r # <<>> PROVE Once(Tail(r)) /\ (Head(r).op = "await" => ~Posted(Head(r).msg, Tail(r)))
  <2>1. PICK q : q = Tail(r)
    OBVIOUS
  <2>2. /\ DOMAIN q \subseteq Nat \ {0} /\ 1 \in DOMAIN r /\ Head(r) = r[1]
        /\ \A i \in DOMAIN q : i + 1 \in DOMAIN r /\ q[i] = r[i + 1]
    BY <1>2, <2>1, Popped
  <2>3. ASSUME NEW i \in DOMAIN q, NEW j \in DOMAIN q, q[i].op = "await", q[j].op = "await", q[i].msg = q[j].msg
        PROVE  i = j
    <3>1. i + 1 = j + 1
      BY <2>2, <2>3 DEF Once
    <3>2. i \in Nat /\ j \in Nat
      BY <2>2
    <3> QED BY <3>1, <3>2
  <2>4. ASSUME NEW i \in DOMAIN q, Head(r).op = "await", q[i].op = "await", q[i].msg = Head(r).msg PROVE FALSE
    <3>1. i + 1 = 1
      BY <2>2, <2>4 DEF Once
    <3>2. i \in Nat \ {0}
      BY <2>2
    <3> QED BY <3>1, <3>2
  <2>5. Once(q)
    BY <2>3 DEF Once
  <2>6. Head(r).op = "await" => ~Posted(Head(r).msg, q)
    BY <2>4 DEF Posted
  <2> QED BY <2>1, <2>5, <2>6
<1> QED BY <1>1, <1>2

\* No call gets another id.
LEMMA IdFrame ==
  ASSUME ConnTypes, ready' \in Seq(AnyHandler), IdInv, UNCHANGED <<id, keyed>>, NumInv',
         calls' \subseteq Genuine, Of(incoming', Genuine), served' \subseteq Numbered,
         Written(Numbered)', Once(ready'),
         \A i \in DOMAIN ready' : ready'[i].op = "read" =>
            (\E j \in DOMAIN ready : ready'[i] = ready[j]) \/ Of(ready'[i].replies, Genuine),
         \A i \in DOMAIN ready' : ready'[i].op = "await" =>
            \/ \E j \in DOMAIN ready : ready'[i] = ready[j]
            \/ /\ status'[ready'[i].msg] \notin Early
               /\ ready'[i].msg \in keyed \/ id[ready'[i].msg] = 0,
         \A m \in Calls : status'[m] \in Early => status[m] \in Early
  PROVE  IdInv'
<1>1. Genuine' = Genuine /\ Numbered' = Numbered
  BY DEF Genuine, Numbered
<1>2. \A i \in DOMAIN ready' : ready'[i].op = "read" => Of(ready'[i].replies, Genuine)
  BY DEF IdInv
<1>3. ASSUME NEW i \in DOMAIN ready', ready'[i].op = "await"
      PROVE  status'[ready'[i].msg] \notin Early /\ (ready'[i].msg \in keyed \/ id[ready'[i].msg] = 0)
  <2>1. ready'[i] \in AnyHandler
    OBVIOUS
  <2>2. ready'[i].msg \in Calls
    BY <1>3, <2>1, HandlerKinds
  <2> QED BY <1>3, <2>2 DEF IdInv
<1> QED BY <1>1, <1>2, <1>3 DEF IdInv

\* Neither the ids nor the answers change.
LEMMA NumFrame ==
  ASSUME NumInv, UNCHANGED <<id, keyed, callId, answer>>,
         \A m \in Calls : status'[m] \in Early => status[m] \in Early
  PROVE  NumInv'
  BY DEF NumInv, Unkeyed

\* A handler is put in the queue.
LEMMA IdAppend ==
  ASSUME ConnTypes, IdInv, UNCHANGED <<id, keyed, callId, calls, answer>>, NEW h \in AnyHandler, ready' = Append(ready, h),
         Of(incoming', Genuine), served' \subseteq Numbered, Written(Numbered)',
         \A m \in Calls : status'[m] \in Early => status[m] \in Early,
         h.op = "read" => Of(h.replies, Genuine),
         h.op = "await" => ~Posted(h.msg, ready) /\ id[h.msg] = 0 /\ status'[h.msg] \notin Early
  PROVE  IdInv'
<1>0. ready \in Seq(AnyHandler) /\ Once(ready)
  BY DEF ConnTypes, IdInv
<1>1. /\ DOMAIN ready' = DOMAIN ready \union {Len(ready) + 1}
      /\ \A i \in DOMAIN ready : ready'[i] = ready[i]
      /\ ready'[Len(ready) + 1] = h
      /\ ready' \in Seq(AnyHandler)
  BY <1>0, Pushed
<1>2. Once(ready')
  BY <1>0, OnceQueue
<1>3. \A i \in DOMAIN ready' : ready'[i].op = "read" =>
         (\E j \in DOMAIN ready : ready'[i] = ready[j]) \/ Of(ready'[i].replies, Genuine)
  BY <1>1
<1>4. \A i \in DOMAIN ready' : ready'[i].op = "await" =>
         \/ \E j \in DOMAIN ready : ready'[i] = ready[j]
         \/ /\ status'[ready'[i].msg] \notin Early
            /\ ready'[i].msg \in keyed \/ id[ready'[i].msg] = 0
  BY <1>1
<1>5. NumInv' /\ calls' \subseteq Genuine
  BY NumFrame DEF IdInv
<1> QED BY <1>1, <1>2, <1>3, <1>4, <1>5, IdFrame

\* A handler is taken from the queue.
LEMMA IdTail ==
  ASSUME ConnTypes, IdInv, UNCHANGED <<id, keyed>>, ready # <<>>, ready' = Tail(ready), calls' \subseteq Genuine,
         Of(incoming', Genuine), served' \subseteq Numbered, Written(Numbered)', NumInv',
         \A m \in Calls : status'[m] \in Early => status[m] \in Early
  PROVE  IdInv'
<1>0. ready \in Seq(AnyHandler) /\ Once(ready)
  BY DEF ConnTypes, IdInv
<1>1. /\ \A i \in DOMAIN ready' : i + 1 \in DOMAIN ready /\ ready'[i] = ready[i + 1]
      /\ ready' \in Seq(AnyHandler)
  BY <1>0, Popped
<1>2. Once(ready')
  BY <1>0, OnceQueue
<1>3. \A i \in DOMAIN ready' : \E j \in DOMAIN ready : ready'[i] = ready[j]
  BY <1>1
<1> QED BY <1>1, <1>2, <1>3, IdFrame

\* The socket is closed.
LEMMA IdClosed ==
  ASSUME ConnTypes, IdInv, UNCHANGED <<id, keyed, callId, calls, answer, status>>, NEW r \in Seq(AnyHandler),
         CloseSocket(r), Once(r), \A i \in DOMAIN r : \E j \in DOMAIN ready : r[i] = ready[j],
         queue' = queue \/ queue' = <<>>, batch' = batch
  PROVE  IdInv'
<1>1. /\ \A i \in DOMAIN ready' : \/ i \in DOMAIN r /\ ready'[i] = r[i]
                                  \/ ready'[i].op \in {"connect", "wrote"}
                                  \/ ready'[i] = BrokenRead
      /\ ready' \in Seq(AnyHandler) /\ writing' = <<>> /\ served' = {} /\ incoming' = <<>>
  BY ClosedFrom, ClosedReady
<1>2. BrokenRead.op = "read" /\ Of(BrokenRead.replies, Genuine)
  BY DEF BrokenRead, Of
<1>3. \A i \in DOMAIN ready' : ready'[i].op = "await" => i \in DOMAIN r /\ ready'[i] = r[i]
  BY <1>1, <1>2
<1>4. Once(ready')
  BY <1>3 DEF Once
<1>5. \A i \in DOMAIN ready' : ready'[i].op = "read" =>
         (\E j \in DOMAIN ready : ready'[i] = ready[j]) \/ Of(ready'[i].replies, Genuine)
  BY <1>1, <1>2
<1>6. \A i \in DOMAIN ready' : ready'[i].op = "await" => \E j \in DOMAIN ready : ready'[i] = ready[j]
  BY <1>3
<1>7. NumInv' /\ calls' \subseteq Genuine
  BY NumFrame DEF IdInv
<1>8. Written(Numbered)'
  <2>1. Numbered' = Numbered /\ Written(Numbered)
    BY DEF Numbered, IdInv
  <2>2. Of(queue', Numbered) /\ Of(batch', Numbered) /\ \A i \in DOMAIN writing' : Of(writing'[i], Numbered)
    BY <1>1, <2>1 DEF Written, Of
  <2> QED BY <2>1, <2>2 DEF Written
<1>9. Of(incoming', Genuine) /\ served' \subseteq Numbered
  BY <1>1 DEF Of
<1> QED BY <1>1, <1>4, <1>5, <1>6, <1>7, <1>8, <1>9, IdFrame

\* A call without an id gets one, m the call and k the id: what had its id keeps it.
LEMMA IdGrows ==
  ASSUME ConnTypes, IdInv, NEW m \in Calls, NEW k \in Nat, id[m] = 0, id' = [id EXCEPT ![m] = k],
         answer' = answer
  PROVE  /\ id'[m] = k /\ \A n \in Calls : n # m => id'[n] = id[n]
         /\ Genuine \subseteq Genuine' /\ Numbered \subseteq Numbered'
         /\ \A a, b \in Calls : b \in answer'[a] => id'[b] = id'[a] /\ id'[a] # 0
<1>1. id'[m] = k /\ \A n \in Calls : n # m => id'[n] = id[n]
  BY DEF ConnTypes
<1>2. \A n \in Calls : id[n] # 0 => id'[n] = id[n]
  BY <1>1
<1>3. Genuine \subseteq Genuine'
  <2>1. ASSUME NEW r \in CallReply, r.msg \in Calls, r.id # 0, r.id = id[r.msg] PROVE r.id = id'[r.msg]
    BY <1>2, <2>1
  <2> QED BY <2>1 DEF Genuine
<1>4. Numbered \subseteq Numbered'
  BY <1>2 DEF Numbered
<1>5. \A a, b \in Calls : b \in answer'[a] => id'[b] = id'[a] /\ id'[a] # 0
  BY <1>2 DEF IdInv, NumInv
<1> QED BY <1>1, <1>3, <1>4, <1>5

\* What carries an id, when a call that had none has got one and the queue of handlers has
\* lost its front or got another end.
LEMMA IdCarried ==
  ASSUME ConnTypes, IdInv, Genuine \subseteq Genuine', Numbered \subseteq Numbered',
         UNCHANGED <<served, incoming>>,
         \A i \in DOMAIN ready' : ready'[i].op = "read" => \E j \in DOMAIN ready : ready'[i] = ready[j]
  PROVE  /\ (Of(incoming, Genuine) /\ served \subseteq Numbered)' /\ calls \subseteq Genuine'
         /\ \A i \in DOMAIN ready' : ready'[i].op = "read" => Of(ready'[i].replies, Genuine')
         /\ Written(Numbered')
<1>1. PICK X : X = Numbered'
  OBVIOUS
<1>2. PICK G : G = Genuine'
  OBVIOUS
<1>3. Of(incoming', G) /\ served' \subseteq X /\ calls \subseteq G
  BY <1>1, <1>2 DEF IdInv, Of
<1>4. \A i \in DOMAIN ready' : ready'[i].op = "read" => Of(ready'[i].replies, Genuine)
  BY DEF IdInv
<1>5. \A i \in DOMAIN ready' : ready'[i].op = "read" => Of(ready'[i].replies, G)
  BY <1>2, <1>4 DEF Of
<1>6. Written(Numbered)
  BY DEF IdInv
<1>7. Written(X)
  BY <1>1, <1>6 DEF Written, Of
<1> QED BY <1>1, <1>2, <1>3, <1>5, <1>7

\* do_await_write gives a call that has no id the next one, which no other has got from it.
LEMMA IdNew ==
  ASSUME ConnTypes, IdInv, HandleWrite, running, Head(ready).op = "await"
  PROVE  IdInv'
<1> USE DEF sockVars, peerVars, writeVars, readVars, callVars, msgVars
<1>0. ready \in Seq(AnyHandler) /\ id \in [Calls -> Nat] /\ callId \in Nat /\ calls \subseteq CallEntry
  BY DEF ConnTypes
<1>1. PICK m : m = Head(ready).msg
  OBVIOUS
<1>2. ready # <<>> /\ ready' = Tail(ready) /\ UNCHANGED <<served, incoming, status, answer, keyed>>
  BY DEF HandleWrite, Runs
<1>3. /\ DoWrite(m) /\ callId' = (IF id[m] > 0 THEN callId ELSE callId + 1)
      /\ id' = [id EXCEPT ![m] = CallIdOf(m)] /\ calls' = Emplaced([id |-> CallIdOf(m), msg |-> m])
  BY <1>1 DEF HandleWrite, Runs, NextCallId
<1>4. /\ Head(ready) \in AnyHandler /\ Head(ready) = ready[1] /\ 1 \in DOMAIN ready
      /\ \A i \in DOMAIN ready' : i + 1 \in DOMAIN ready /\ ready'[i] = ready[i + 1]
      /\ ready' \in Seq(AnyHandler)
  BY <1>0, <1>2, Popped
<1>5. m \in Calls /\ m \in Msgs
  BY <1>1, <1>4, HandlerKinds, ConnectionAssumption
<1>6. status[m] \notin Early /\ (m \in keyed \/ id[m] = 0) /\ id[m] \in Nat
  BY <1>0, <1>1, <1>4, <1>5 DEF IdInv
<1>7. Once(ready') /\ ~Posted(m, ready')
  <2>1. Once(ready)
    BY DEF IdInv
  <2> QED BY <1>0, <1>1, <1>2, <2>1, OnceQueue
<1>8. PICK k : k = CallIdOf(m)
  OBVIOUS
<1>9. /\ k \in Nat /\ k # 0 /\ (id[m] # 0 => k = id[m] /\ callId' = callId)
      /\ id[m] = 0 => k = callId + 1 /\ callId' = callId + 1
  BY <1>0, <1>3, <1>6, <1>8 DEF CallIdOf, NextCallId
<1>10. PICK c : c = [id |-> k, msg |-> m]
  OBVIOUS
<1>11. c \in CallReply /\ c.id = k /\ c.msg = m /\ calls' \subseteq calls \union {c}
  BY <1>3, <1>5, <1>8, <1>9, <1>10 DEF CallReply, Emplaced
<1>12. \A i \in DOMAIN ready' : \E j \in DOMAIN ready : ready'[i] = ready[j]
  BY <1>4
<1>13. CASE id[m] # 0
  <2>1. id' = id
    BY <1>0, <1>3, <1>5, <1>8, <1>9, <1>13
  <2>2. NumInv'
    BY <1>2, <1>9, <1>13, <2>1, NumFrame DEF IdInv
  <2>3. c \in Genuine
    BY <1>9, <1>11, <1>13 DEF Genuine
  <2>4. calls' \subseteq Genuine /\ Of(incoming', Genuine) /\ served' \subseteq Numbered
    BY <1>2, <1>11, <2>3 DEF IdInv
  <2>5. m \in Numbered /\ Written(Numbered)
    BY <1>5, <1>13 DEF Numbered, IdInv
  <2>6. PICK X : X = Numbered
    OBVIOUS
  <2>7. Written(X)'
    BY <1>3, <1>5, <2>5, <2>6, DoWriteOf
  <2>8. Numbered' = X
    BY <2>1, <2>6 DEF Numbered
  <2>9. Written(Numbered)'
    BY <2>7, <2>8 DEF Written
  <2> QED BY <1>2, <2>1, <2>2, <2>4, <2>9, IdTail
<1>14. CASE id[m] = 0
  <2>1. id' = [id EXCEPT ![m] = k] /\ k = callId + 1 /\ callId' = callId + 1
    BY <1>3, <1>8, <1>9, <1>14
  <2>2. /\ id'[m] = k /\ \A n \in Calls : n # m => id'[n] = id[n]
        /\ Genuine \subseteq Genuine' /\ Numbered \subseteq Numbered'
        /\ \A a, b \in Calls : b \in answer'[a] => id'[b] = id'[a] /\ id'[a] # 0
    BY <1>2, <1>5, <1>9, <1>14, <2>1, IdGrows
  <2>3. /\ \A n \in Unkeyed : id[n] <= callId /\ id[n] \in Nat /\ n \in Calls
        /\ Unkeyed' = Unkeyed /\ m \notin keyed /\ keyed \subseteq Calls
    BY <1>0, <1>2, <1>14 DEF IdInv, NumInv, Unkeyed, ConnTypes
  <2>4. \A n \in Unkeyed : id'[n] <= callId + 1 /\ (n # m => id'[n] < callId + 1)
    BY <1>0, <2>1, <2>2, <2>3
  <2>5. \A a, b \in Unkeyed : id'[a] = id'[b] /\ id'[a] # 0 => a = b
    <3>1. ASSUME NEW a \in Unkeyed, NEW b \in Unkeyed, id'[a] = id'[b], id'[a] # 0 PROVE a = b
      <4>1. CASE a # m /\ b # m
        BY <2>2, <2>3, <3>1, <4>1 DEF IdInv, NumInv
      <4>2. \A n \in Unkeyed : n # m => id'[n] # callId + 1
        BY <1>0, <2>2, <2>3, <2>4
      <4>3. CASE a = m \/ b = m
        BY <2>1, <2>2, <3>1, <4>2, <4>3
      <4> QED BY <4>1, <4>3
    <3> QED BY <3>1
  <2>6. \A n \in keyed : id'[n] # 0
    BY <2>2, <2>3 DEF IdInv, NumInv
  <2>7. \A n \in Calls : status'[n] \in Early => id'[n] = 0
    BY <1>2, <1>6, <2>2 DEF IdInv, NumInv
  <2>8. NumInv'
    BY <1>2, <2>1, <2>2, <2>3, <2>4, <2>5, <2>6, <2>7 DEF NumInv
  <2>9. /\ (Of(incoming, Genuine) /\ served \subseteq Numbered)' /\ calls \subseteq Genuine'
        /\ \A i \in DOMAIN ready' : ready'[i].op = "read" => Of(ready'[i].replies, Genuine')
        /\ Written(Numbered')
    BY <1>2, <1>12, <2>2, IdCarried
  <2>10. c \in Genuine' /\ m \in Numbered'
    BY <1>5, <1>9, <1>11, <2>2 DEF Genuine, Numbered
  <2>11. calls' \subseteq Genuine'
    BY <1>11, <2>9, <2>10
  <2>12. PICK X : X = Numbered'
    OBVIOUS
  <2>13. Written(X)'
    BY <1>3, <1>5, <2>9, <2>10, <2>12, DoWriteOf
  <2>14. Written(Numbered)'
    BY <2>12, <2>13 DEF Written
  <2>15. ASSUME NEW i \in DOMAIN ready', ready'[i].op = "await"
         PROVE  /\ status'[ready'[i].msg] \notin Early
                /\ ready'[i].msg \in keyed' \/ id'[ready'[i].msg] = 0
    <3>1. ready'[i] \in AnyHandler /\ ready'[i].msg # m
      BY <1>4, <1>7, <2>15 DEF Posted
    <3>2. ready'[i].msg \in Calls
      BY <2>15, <3>1, HandlerKinds
    <3>3. status[ready'[i].msg] \notin Early /\ (ready'[i].msg \in keyed \/ id[ready'[i].msg] = 0)
      BY <1>4, <2>15 DEF IdInv
    <3> QED BY <1>2, <2>2, <3>1, <3>2, <3>3
  <2> QED BY <1>7, <2>8, <2>9, <2>11, <2>14, <2>15 DEF IdInv
<1> QED BY <1>13, <1>14

\* A call is posted, and may come with an id of its own.
LEMMA IdPosted ==
  ASSUME ConnTypes, IdInv, NEW m \in Calls, Post(m)
  PROVE  IdInv'
<1> USE DEF sockVars, peerVars, writeVars, readVars, callVars, msgVars
<1>0. /\ ready \in Seq(AnyHandler) /\ id \in [Calls -> Nat] /\ status \in [Msgs -> Statuses]
      /\ m \in Msgs /\ CallIds \subseteq Nat /\ keyed \subseteq Calls
  BY ConnectionAssumption DEF ConnTypes
<1>1. PICK k \in {0} \union CallIds :
         id' = [id EXCEPT ![m] = k] /\ keyed' = IF k = 0 THEN keyed ELSE keyed \union {m}
  BY DEF Post
<1>2. /\ status[m] = "tested" /\ status' = [status EXCEPT ![m] = "given"]
      /\ ready' = Append(ready, [op |-> "await", msg |-> m])
      /\ UNCHANGED <<served, incoming, calls, callId, answer, queue, batch, writing>>
  BY DEF Post
<1>3. id[m] = 0 /\ m \notin keyed
  BY <1>2 DEF IdInv, NumInv, Early
<1>4. /\ id'[m] = k /\ \A n \in Calls : n # m => id'[n] = id[n]
      /\ Genuine \subseteq Genuine' /\ Numbered \subseteq Numbered'
      /\ \A a, b \in Calls : b \in answer'[a] => id'[b] = id'[a] /\ id'[a] # 0
  BY <1>0, <1>1, <1>2, <1>3, IdGrows
<1>5. status'[m] = "given" /\ \A n \in Calls : n # m => status'[n] = status[n]
  BY <1>0, <1>2, ConnectionAssumption
<1>6. PICK h : h = [op |-> "await", msg |-> m]
  OBVIOUS
<1>7. h \in AnyHandler /\ h.op = "await" /\ h.msg = m /\ ready' = Append(ready, h)
  BY <1>2, <1>6, Handlers
<1>8. /\ DOMAIN ready' = DOMAIN ready \union {Len(ready) + 1}
      /\ \A i \in DOMAIN ready : ready'[i] = ready[i]
      /\ ready'[Len(ready) + 1] = h
  BY <1>0, <1>7, Pushed
<1>9. ~Posted(m, ready)
  BY <1>2 DEF IdInv, Posted, Early
<1>10. Once(ready')
  <2>1. Once(ready)
    BY DEF IdInv
  <2> QED BY <1>0, <1>7, <1>9, <2>1, OnceQueue
<1>11. \A n \in Unkeyed' : n \in Unkeyed /\ (n # m \/ k = 0)
  BY <1>0, <1>1, <1>3 DEF Unkeyed
<1>12. \A n \in Unkeyed' : id'[n] = id[n]
  BY <1>3, <1>4, <1>11 DEF Unkeyed
<1>13. \A n \in keyed' : id'[n] # 0
  <2>1. \A n \in keyed : n # m /\ id[n] # 0 /\ n \in Calls
    BY <1>0, <1>3 DEF IdInv, NumInv
  <2> QED BY <1>1, <1>4, <2>1
<1>14. \A n \in Calls : status'[n] \in Early => id'[n] = 0
  BY <1>4, <1>5 DEF IdInv, NumInv, Early
<1>15. NumInv'
  <2>1. \A n \in Unkeyed' : id'[n] <= callId'
    BY <1>2, <1>11, <1>12 DEF IdInv, NumInv
  <2>2. \A a, b \in Unkeyed' : id'[a] = id'[b] /\ id'[a] # 0 => a = b
    BY <1>11, <1>12 DEF IdInv, NumInv
  <2> QED BY <1>4, <1>13, <1>14, <2>1, <2>2 DEF NumInv
<1>16. \A i \in DOMAIN ready' : ready'[i].op = "read" => \E j \in DOMAIN ready : ready'[i] = ready[j]
  BY <1>7, <1>8
<1>17. /\ (Of(incoming, Genuine) /\ served \subseteq Numbered)' /\ calls \subseteq Genuine'
       /\ \A i \in DOMAIN ready' : ready'[i].op = "read" => Of(ready'[i].replies, Genuine')
       /\ Written(Numbered')
  BY <1>2, <1>4, <1>16, IdCarried
<1>18. PICK X : X = Numbered'
  OBVIOUS
<1>19. Written(Numbered)'
  BY <1>2, <1>17, <1>18 DEF Written
<1>20. ASSUME NEW i \in DOMAIN ready', ready'[i].op = "await"
       PROVE  /\ status'[ready'[i].msg] \notin Early
              /\ ready'[i].msg \in keyed' \/ id'[ready'[i].msg] = 0
  <2>1. CASE i \in DOMAIN ready
    <3>1. ready'[i] = ready[i] /\ ready[i] \in AnyHandler
      BY <1>0, <1>8, <2>1
    <3>2. ready[i].msg \in Calls /\ ready[i].msg # m
      BY <1>9, <1>20, <2>1, <3>1, HandlerKinds DEF Posted
    <3>3. status[ready[i].msg] \notin Early /\ (ready[i].msg \in keyed \/ id[ready[i].msg] = 0)
      BY <1>20, <2>1, <3>1 DEF IdInv
    <3> QED BY <1>1, <1>4, <1>5, <3>1, <3>2, <3>3
  <2>2. CASE i = Len(ready) + 1
    <3>1. ready'[i].msg = m
      BY <1>7, <1>8, <2>2
    <3>2. m \in keyed' \/ id'[m] = 0
      BY <1>1, <1>4
    <3> QED BY <1>5, <3>1, <3>2 DEF Early
  <2> QED BY <1>8, <2>1, <2>2
<1>21. calls' \subseteq Genuine'
  BY <1>2, <1>17
<1> QED BY <1>10, <1>15, <1>17, <1>19, <1>20, <1>21 DEF IdInv

\* An await_write is handed what has the id of its message.
LEMMA AnswersRight ==
  ASSUME ConnTypes, IdInv, HandleRead
  PROVE  /\ NumInv' /\ calls' \subseteq calls
         /\ \A m \in Calls : status'[m] \in Early => status[m] \in Early
<1> USE DEF sockVars, peerVars, writeVars, readVars, callVars, msgVars
<1>0. UNCHANGED <<id, keyed, callId>> /\ ready # <<>> /\ Head(ready).op = "read"
  BY DEF HandleRead, Runs
<1>1. CASE ReadFails
  <2>1. UNCHANGED <<status, answer, calls>>
    BY <1>1 DEF ReadFails
  <2> QED BY <1>0, <2>1, NumFrame DEF IdInv
<1>2. ASSUME NEW r \in Seq(CallReply), ReadTaken(r)
      PROVE  /\ NumInv' /\ calls' \subseteq calls
             /\ \A m \in Calls : status'[m] \in Early => status[m] \in Early
  <2>1. /\ status' = [m \in Msgs |-> IF \E c \in Answered(r) : c.msg = m THEN "answered" ELSE status[m]]
        /\ answer' = [m \in Calls |-> answer[m] \union
                         {r[i].msg : i \in {j \in DOMAIN r :
                             \E c \in Answered(r) : c.msg = m /\ c.id = r[j].id}}]
        /\ calls' = calls \ Answered(r)
    BY <1>2 DEF ReadTaken, OnReceiveMsgs
  <2>2. \A m \in Calls : status'[m] \in Early => status[m] \in Early
    BY <2>1, ConnectionAssumption DEF Early
  <2>3. Of(r, Genuine) /\ calls \subseteq Genuine
    <3>1. ready \in Seq(AnyHandler)
      BY DEF ConnTypes
    <3>2. Head(ready) = ready[1] /\ 1 \in DOMAIN ready
      BY <1>0, <3>1, Popped
    <3>3. Of(Head(ready).replies, Genuine) /\ Of(<<>>, Genuine)
      BY <1>0, <3>2 DEF IdInv, Of
    <3> QED BY <1>2, <3>3 DEF IdInv, ReadTaken
  <2>4. ASSUME NEW m \in Calls, NEW j \in DOMAIN r, NEW c \in Answered(r), c.msg = m, c.id = r[j].id,
               r[j].msg \in Calls
        PROVE  id[r[j].msg] = id[m] /\ id[m] # 0
    <3>1. c \in Genuine /\ r[j] \in Genuine
      BY <2>3 DEF Answered, Of
    <3> QED BY <2>4, <3>1 DEF Genuine
  <2>5. ASSUME NEW m \in Calls, NEW n \in Calls, n \in answer'[m] PROVE id[n] = id[m] /\ id[m] # 0
    <3>1. answer'[m] = answer[m] \union {r[i].msg : i \in {j \in DOMAIN r :
                             \E c \in Answered(r) : c.msg = m /\ c.id = r[j].id}}
      BY <2>1
    <3>2. CASE n \in answer[m]
      BY <3>2 DEF IdInv, NumInv
    <3>3. CASE \E j \in DOMAIN r : n = r[j].msg /\ \E c \in Answered(r) : c.msg = m /\ c.id = r[j].id
      BY <2>4, <3>3
    <3> QED BY <2>5, <3>1, <3>2, <3>3
  <2>6. \A m \in Calls : status'[m] \in Early => id[m] = 0
    BY <2>2 DEF IdInv, NumInv
  <2>7. NumInv'
    BY <1>0, <2>5, <2>6 DEF IdInv, NumInv, Unkeyed
  <2> QED BY <2>1, <2>2, <2>7
<1> QED BY <1>1, <1>2, ReadOutcome

\* No call has an id yet.
LEMMA InitIds == Init => IdInv
<1> SUFFICES ASSUME Init PROVE IdInv
  OBVIOUS
<1>1. /\ ready = <<>> /\ incoming = <<>> /\ calls = {} /\ served = {} /\ queue = <<>> /\ batch = <<>>
      /\ writing = <<>> /\ callId = 0 /\ id = [m \in Calls |-> 0] /\ answer = [m \in Calls |-> {}]
      /\ keyed = {}
  BY DEF Init
<1>2. Written(Numbered) /\ Of(incoming, Genuine)
  BY <1>1 DEF Written, Of
<1>3. NumInv
  BY <1>1 DEF NumInv, Unkeyed
<1> QED BY <1>1, <1>2, <1>3 DEF IdInv, Once

\* Every action keeps the ids.
LEMMA IdStep ==
  ASSUME ConnTypes, IdInv, [Next]_vars
  PROVE  IdInv'
<1> USE DEF sockVars, peerVars, writeVars, readVars, callVars, msgVars
<1>0. /\ ready \in Seq(AnyHandler) /\ incoming \in Seq(CallReply) /\ writing \in Seq(Seq(Msgs))
      /\ Len(incoming) \in Nat /\ DOMAIN incoming = 1 .. Len(incoming) /\ status \in [Msgs -> Statuses]
      /\ id \in [Calls -> Nat]
  BY LenProperties DEF ConnTypes
<1>1. PICK X : X = Numbered
  OBVIOUS
<1>2. /\ Written(X) /\ Of(incoming, Genuine) /\ served \subseteq X /\ X \subseteq Msgs
      /\ Once(ready) /\ \A i \in DOMAIN ready : \E j \in DOMAIN ready : ready[i] = ready[j]
  BY <1>1 DEF IdInv, Numbered
<1>3. ASSUME id' = id PROVE Numbered' = X
  BY <1>1, <1>3 DEF Numbered
<1>4. ASSUME UNCHANGED <<id, queue, batch, writing>> PROVE Written(Numbered)'
  BY <1>2, <1>3, <1>4 DEF Written
<1>5. ASSUME NEW m \in Msgs, Write(m) PROVE IdInv'
  <2>1. /\ UNCHANGED <<id, keyed, callId, calls, answer, queue, batch, writing, served, incoming, ready>>
        /\ status[m] = "new" /\ status' \in {[status EXCEPT ![m] = "tested"], [status EXCEPT ![m] = "refused"]}
    BY <1>5 DEF Write
  <2>2. \A n \in Msgs : n # m => status'[n] = status[n]
    BY <1>0, <2>1
  <2>3. \A n \in Calls : status'[n] \in Early => status[n] \in Early
    BY <2>1, <2>2, ConnectionAssumption DEF Early
  <2>4. Written(Numbered)' /\ NumInv' /\ calls' \subseteq Genuine
    BY <1>4, <2>1, <2>3, NumFrame DEF IdInv
  <2>5. Of(incoming', Genuine) /\ served' \subseteq Numbered
    BY <1>1, <1>2, <2>1
  <2> QED BY <1>0, <1>2, <2>1, <2>3, <2>4, <2>5, IdFrame
<1>20. ASSUME NEW m \in Msgs, Post(m) PROVE IdInv'
  <2>1. CASE m \in Calls
    BY <1>20, <2>1, IdPosted
  <2>2. CASE m \notin Calls
    <3>1. /\ UNCHANGED <<id, keyed, callId, calls, answer, queue, batch, writing, served, incoming>>
          /\ ready' = Append(ready, [op |-> "write", msg |-> m]) /\ status' = [status EXCEPT ![m] = "given"]
      BY <1>20, <2>2 DEF Post
    <3>2. \A n \in Calls : status'[n] = status[n]
      BY <1>0, <2>2, <3>1, ConnectionAssumption
    <3>3. PICK h : h = [op |-> "write", msg |-> m]
      OBVIOUS
    <3>4. h \in AnyHandler /\ h.op = "write" /\ ready' = Append(ready, h)
      BY <2>2, <3>1, <3>3, Handlers
    <3>5. Written(Numbered)' /\ Of(incoming', Genuine) /\ served' \subseteq Numbered
      BY <1>1, <1>2, <1>4, <3>1
    <3> QED BY <3>1, <3>2, <3>4, <3>5, IdAppend
  <2> QED BY <2>1, <2>2
<1>6. ASSUME NEW h, Quiet(h) PROVE IdInv'
  <2>1. /\ h \in AnyHandler /\ ready' = Append(ready, h)
        /\ UNCHANGED <<id, keyed, callId, calls, answer, queue, batch, writing, served, incoming, status>>
    BY <1>6 DEF Quiet
  <2>2. h.op # "await" /\ (h.op = "read" => Of(h.replies, Genuine))
    BY <1>6 DEF Quiet, BrokenRead, Of
  <2>3. Written(Numbered)'
    BY <1>4, <2>1
  <2>4. Of(incoming', Genuine) /\ served' \subseteq Numbered
    BY <1>1, <1>2, <2>1
  <2> QED BY <2>1, <2>2, <2>3, <2>4, IdAppend
<1>7. CASE AsyncConnect
  <2>1. CloseSocket(ready) /\ UNCHANGED <<id, keyed, callId, calls, answer, status, queue, batch>>
    BY <1>7 DEF AsyncConnect
  <2> QED BY <1>0, <1>2, <2>1, IdClosed
<1>8. ASSUME UNCHANGED <<id, keyed, callId, calls, answer, status, served, incoming>>, Written(Numbered)',
             ready' = ready \/ (ready # <<>> /\ ready' = Tail(ready))
      PROVE  IdInv'
  <2>1. Of(incoming', Genuine) /\ served' \subseteq Numbered
    BY <1>1, <1>2, <1>8
  <2>4. NumInv' /\ calls' \subseteq Genuine
    BY <1>8, NumFrame DEF IdInv
  <2>2. CASE ready' = ready
    BY <1>0, <1>2, <1>8, <2>1, <2>2, <2>4, IdFrame
  <2>3. CASE ready # <<>> /\ ready' = Tail(ready)
    BY <1>8, <2>1, <2>3, <2>4, IdTail
  <2> QED BY <1>8, <2>2, <2>3
<1>9. CASE HandleConnect \/ Accept
  <2>1. /\ UNCHANGED <<id, keyed, callId, calls, answer, status, served, incoming, writing>>
        /\ ready' = ready \/ (ready # <<>> /\ ready' = Tail(ready))
    BY <1>9 DEF HandleConnect, Accept, Runs
  <2>2. (queue' = queue /\ batch' = batch) \/ (queue' = <<>> /\ batch' = <<>>)
    BY <1>9 DEF HandleConnect, Accept, Start, Cleared
  <2>3. Of(queue', X) /\ Of(batch', X)
    BY <1>2, <2>2 DEF Written, Of
  <2>4. Written(Numbered)'
    BY <1>2, <1>3, <2>1, <2>3 DEF Written
  <2> QED BY <1>8, <2>1, <2>4
<1>10. CASE ResetEarly
  <2>1. UNCHANGED <<id, keyed, callId, calls, answer, status, served, incoming, queue, batch, writing, ready>>
    BY <1>10 DEF ResetEarly
  <2> QED BY <1>4, <1>8, <2>1
<1>11. CASE WriteEnds
  <2>1. PICK ok \in BOOLEAN :
          /\ ready' = Append(ready, [op |-> "wrote", ok |-> ok, msgs |-> Head(writing)])
          /\ served' = IF ok THEN served \union (Range(Head(writing)) \intersect Calls) ELSE served
    BY <1>11 DEF WriteEnds
  <2>2. /\ writing # <<>> /\ writing' = Tail(writing)
        /\ UNCHANGED <<id, keyed, callId, calls, answer, status, incoming, queue, batch>>
    BY <1>11 DEF WriteEnds
  <2>3. /\ Head(writing) \in Seq(Msgs) /\ Head(writing) = writing[1] /\ 1 \in DOMAIN writing
        /\ \A i \in DOMAIN Tail(writing) : i + 1 \in DOMAIN writing /\ Tail(writing)[i] = writing[i + 1]
    BY <1>0, <2>2, Popped
  <2>4. PICK h : h = [op |-> "wrote", ok |-> ok, msgs |-> Head(writing)]
    OBVIOUS
  <2>5. h \in AnyHandler /\ h.op \notin {"read", "await"} /\ ready' = Append(ready, h)
    BY <2>1, <2>3, <2>4, Handlers
  <2>6. Of(Head(writing), X)
    BY <1>2, <2>3 DEF Written
  <2>7. Range(Head(writing)) \subseteq X
    BY <2>6 DEF Range, Of
  <2>8. served' \subseteq Numbered
    BY <1>1, <1>2, <2>1, <2>7
  <2>9. Written(Numbered)'
    <3>1. \A i \in DOMAIN writing' : Of(writing'[i], X)
      BY <1>2, <2>2, <2>3 DEF Written
    <3> QED BY <1>2, <1>3, <2>2, <3>1 DEF Written
  <2>10. Of(incoming', Genuine)
    BY <1>2, <2>2
  <2> QED BY <2>2, <2>5, <2>8, <2>9, <2>10, IdAppend
<1>12. ASSUME NEW m \in Calls, PeerReplies(m) PROVE IdInv'
  <2>1. /\ m \in served /\ served' = served \ {m} /\ incoming' = Append(incoming, [id |-> id[m], msg |-> m])
        /\ UNCHANGED <<id, keyed, callId, calls, answer, status, queue, batch, writing, ready>>
    BY <1>12 DEF PeerReplies
  <2>2. PICK r : r = [id |-> id[m], msg |-> m]
    OBVIOUS
  <2>3. r \in CallReply /\ r.id = id[m] /\ r.msg = m
    BY <1>0, <2>2 DEF CallReply
  <2>4. id[m] # 0
    BY <1>1, <1>2, <2>1 DEF Numbered
  <2>5. r \in Genuine
    BY <2>3, <2>4 DEF Genuine
  <2>6. Of(incoming', Genuine)
    <3>1. incoming' = Append(incoming, r)
      BY <2>1, <2>2
    <3>2. r \in Genuine \intersect CallReply
      BY <2>3, <2>5
    <3> QED BY <1>0, <1>2, <3>1, <3>2, OfParts
  <2>7. served' \subseteq Numbered /\ Written(Numbered)'
    BY <1>1, <1>2, <1>4, <2>1
  <2>8. NumInv' /\ calls' \subseteq Genuine
    BY <2>1, NumFrame DEF IdInv
  <2> QED BY <1>0, <1>2, <2>1, <2>6, <2>7, <2>8, IdFrame
<1>21. ASSUME NEW k \in CallIds, PeerSends(k) PROVE IdInv'
  <2>1. /\ incoming' = Append(incoming, [id |-> k, msg |-> Request])
        /\ UNCHANGED <<id, keyed, callId, calls, answer, status, queue, batch, writing, ready, served>>
    BY <1>21 DEF PeerSends
  <2>2. PICK r : r = [id |-> k, msg |-> Request]
    OBVIOUS
  <2>3. r \in CallReply /\ r.msg \notin Calls
    BY <2>2, ConnectionAssumption DEF CallReply
  <2>4. r \in Genuine \intersect CallReply /\ incoming' = Append(incoming, r)
    BY <2>1, <2>2, <2>3 DEF Genuine
  <2>5. Of(incoming', Genuine)
    BY <1>0, <1>2, <2>4, OfParts
  <2>6. served' \subseteq Numbered /\ Written(Numbered)'
    BY <1>1, <1>2, <1>4, <2>1
  <2>7. NumInv' /\ calls' \subseteq Genuine
    BY <2>1, NumFrame DEF IdInv
  <2> QED BY <1>0, <1>2, <2>1, <2>5, <2>6, <2>7, IdFrame
<1>13. ASSUME NEW i \in DOMAIN reads, NEW n \in 1 .. BuffMax, NEW k \in 0 .. Len(incoming), ReadEnds(i, n, k)
       PROVE  IdInv'
  <2>1. /\ UNCHANGED <<id, keyed, callId, calls, answer, status, served, queue, batch, writing>>
        /\ ready' = Append(ready, [op |-> "read", ok |-> TRUE, len |-> n, replies |-> SubSeq(incoming, 1, k)])
        /\ incoming' = SubSeq(incoming, k + 1, Len(incoming))
    BY <1>13 DEF ReadEnds
  <2>2. k \in Nat /\ k <= Len(incoming) /\ n \in Nat
    BY <1>0, ConnectionAssumption
  <2>3. ASSUME NEW a \in Nat, a >= 1, NEW b \in Nat, b <= Len(incoming) PROVE Of(SubSeq(incoming, a, b), Genuine)
    <3>1. ASSUME NEW j \in a .. b PROVE incoming[j] \in Genuine
      <4>1. j \in DOMAIN incoming
        BY <1>0, <2>3
      <4> QED BY <1>2, <4>1 DEF Of
    <3>2. SubSeq(incoming, a, b) \in Seq(Genuine)
      <4>1. a \in Int /\ b \in Int
        OBVIOUS
      <4> QED BY <3>1, <4>1, SubSeqProperties
    <3> QED BY <3>2 DEF Of
  <2>4. Of(incoming', Genuine) /\ Of(SubSeq(incoming, 1, k), Genuine)
    BY <1>0, <2>1, <2>2, <2>3
  <2>5. SubSeq(incoming, 1, k) \in Seq(CallReply)
    BY <1>0, <2>2, PartType
  <2>6. PICK h : h = [op |-> "read", ok |-> TRUE, len |-> n, replies |-> SubSeq(incoming, 1, k)]
    OBVIOUS
  <2>7. h \in AnyHandler /\ h.op # "await" /\ ready' = Append(ready, h) /\ Of(h.replies, Genuine)
    BY <2>1, <2>2, <2>4, <2>5, <2>6, Handlers
  <2>8. served' \subseteq Numbered /\ Written(Numbered)'
    BY <1>1, <1>2, <1>4, <2>1
  <2> QED BY <2>1, <2>4, <2>7, <2>8, IdAppend
<1>14. CASE HandleClose
  <2>1. ready # <<>> /\ UNCHANGED <<id, keyed, callId, calls, answer, status, batch>>
    BY <1>14 DEF HandleClose, Runs
  <2>2. CASE forceClosed
    <3>1. ready' = Tail(ready) /\ UNCHANGED <<queue, writing, served, incoming>>
      BY <1>14, <2>2 DEF HandleClose
    <3> QED BY <1>4, <1>8, <2>1, <3>1
  <2>3. CASE ~forceClosed
    <3>1. CloseSocket(Tail(ready)) /\ queue' = <<>>
      BY <1>14, <2>3 DEF HandleClose
    <3>2. PICK r : r = Tail(ready)
      OBVIOUS
    <3>3. /\ r \in Seq(AnyHandler) /\ \A i \in DOMAIN r : i + 1 \in DOMAIN ready /\ r[i] = ready[i + 1]
      BY <1>0, <2>1, <3>2, Popped
    <3>4. Once(r)
      BY <1>0, <1>2, <2>1, <3>2, OnceQueue
    <3>5. \A i \in DOMAIN r : \E j \in DOMAIN ready : r[i] = ready[j]
      BY <3>3
    <3> QED BY <2>1, <3>1, <3>2, <3>3, <3>4, <3>5, IdClosed
  <2> QED BY <2>2, <2>3
<1>15. CASE HandleWrite
  <2>1. /\ ready # <<>> /\ Head(ready).op \in {"write", "await"} /\ ready' = Tail(ready)
        /\ UNCHANGED <<served, incoming, status, answer>>
    BY <1>15 DEF HandleWrite, Runs
  <2>2. CASE running /\ Head(ready).op = "await"
    BY <1>15, <2>2, IdNew
  <2>3. CASE running /\ Head(ready).op = "write"
    <3>1. DoWrite(Head(ready).msg) /\ UNCHANGED <<callId, id, keyed, calls>>
      BY <1>15, <2>3 DEF HandleWrite, Runs
    <3>2. PICK m : m = Head(ready).msg
      OBVIOUS
    <3>3. m \in Msgs \ Calls
      <4>1. Head(ready) \in AnyHandler
        BY <1>0, <2>1, Popped
      <4> QED BY <2>3, <3>2, <4>1, HandlerKinds
    <3>4. m \in X
      BY <1>1, <3>3 DEF Numbered
    <3>5. Written(X)'
      BY <1>2, <3>1, <3>2, <3>3, <3>4, DoWriteOf
    <3>6. Written(Numbered)'
      BY <1>3, <3>1, <3>5 DEF Written
    <3> QED BY <1>8, <2>1, <3>1, <3>6
  <2>4. CASE ~running
    <3>1. UNCHANGED <<queue, batch, writing, callId, id, keyed, calls>>
      BY <1>15, <2>4 DEF HandleWrite
    <3> QED BY <1>4, <1>8, <2>1, <3>1
  <2> QED BY <2>1, <2>2, <2>3, <2>4
<1>16. CASE HandleWrote
  <2>1. /\ ready # <<>> /\ ready' = Tail(ready)
        /\ UNCHANGED <<id, keyed, callId, calls, answer, status, served, incoming>>
    BY <1>16 DEF HandleWrote, Runs
  <2>2. Written(X)'
    BY <1>2, <1>16, WroteOf
  <2>3. Written(Numbered)'
    BY <1>3, <2>1, <2>2 DEF Written
  <2> QED BY <1>8, <2>1, <2>3
<1>17. CASE HandleRead
  <2>1. /\ ready # <<>> /\ ready' = Tail(ready)
        /\ UNCHANGED <<id, keyed, callId, served, incoming, queue, batch, writing>>
    BY <1>17 DEF HandleRead, Runs
  <2>2. calls' \subseteq Genuine
    BY <1>17, AnswersRight DEF IdInv
  <2>3. NumInv' /\ \A m \in Calls : status'[m] \in Early => status[m] \in Early
    BY <1>17, AnswersRight
  <2>4. Of(incoming', Genuine) /\ served' \subseteq Numbered /\ Written(Numbered)'
    BY <1>1, <1>2, <1>4, <2>1
  <2> QED BY <2>1, <2>2, <2>3, <2>4, IdTail DEF IdInv
<1>18. CASE UNCHANGED vars
  <2>1. UNCHANGED <<id, keyed, callId, calls, answer, status, served, incoming, queue, batch, writing, ready>>
    BY <1>18 DEF vars
  <2> QED BY <1>4, <1>8, <2>1
<1>19. CASE Close \/ ConnectEnds \/ \E i \in DOMAIN reads : ReadBreaks(i)
  BY <1>6, <1>19, QuietSteps
<1> QED BY <1>5, <1>7, <1>9, <1>10, <1>11, <1>12, <1>13, <1>14, <1>15, <1>16, <1>17, <1>18, <1>19,
           <1>20, <1>21 DEF Next, Handle

-----------------------------------------------------------------------------
(* The calls that wait *)

\* What is evident stays so, as long as its handler is in the queue.
LEMMA QueueKeeps ==
  ASSUME NEW r \in Seq(AnyHandler), NEW m
  PROVE  /\ \A h \in AnyHandler : Evident(m, r) \/ Evident(m, <<h>>) => Evident(m, Append(r, h))
         /\ r # <<>> /\ Evident(m, r) => Evident(m, Tail(r)) \/ Evident(m, <<Head(r)>>)
<1>1. ASSUME NEW h \in AnyHandler PROVE Evident(m, r) \/ Evident(m, <<h>>) => Evident(m, Append(r, h))
  <2>1. PICK q : q = Append(r, h)
    OBVIOUS
  <2>2. /\ DOMAIN q = DOMAIN r \union {Len(r) + 1}
        /\ \A i \in DOMAIN r : q[i] = r[i]
        /\ q[Len(r) + 1] = h
    BY <2>1, Pushed
  <2>4. Evident(m, r) => Evident(m, q)
    BY <2>2 DEF Evident
  <2>5. Evident(m, <<h>>) => Evident(m, q)
    <3>1. DOMAIN <<h>> = {1} /\ <<h>>[1] = h
      OBVIOUS
    <3> QED BY <2>2, <3>1 DEF Evident
  <2> QED BY <2>1, <2>4, <2>5
<1>2. ASSUME r # <<>>, Evident(m, r) PROVE Evident(m, Tail(r)) \/ Evident(m, <<Head(r)>>)
  <2>1. PICK q : q = Tail(r)
    OBVIOUS
  <2>2. /\ Head(r) = r[1]
        /\ \A i \in DOMAIN r : i # 1 => i - 1 \in DOMAIN q /\ q[i - 1] = r[i]
    BY <1>2, <2>1, Popped
  <2>3. PICK i \in DOMAIN r : \/ r[i].op = "read" /\ (r[i].ok => Replied(m, r[i].replies))
                              \/ r[i].op = "wrote" /\ ~r[i].ok
    BY <1>2 DEF Evident
  <2>4. CASE i = 1
    <3>1. DOMAIN <<Head(r)>> = {1} /\ <<Head(r)>>[1] = r[i]
      BY <2>2, <2>4
    <3> QED BY <2>3, <3>1 DEF Evident
  <2>5. CASE i # 1
    <3>1. i - 1 \in DOMAIN q /\ q[i - 1] = r[i]
      BY <2>2, <2>5
    <3> QED BY <2>1, <2>3, <3>1 DEF Evident
  <2> QED BY <2>4, <2>5
<1> QED BY <1>1, <1>2

\* Which handlers are evidence.
LEMMA Evidence ==
  ASSUME NEW h, NEW m
  PROVE  Evident(m, <<h>>) <=> \/ h.op = "read" /\ (h.ok => Replied(m, h.replies))
                               \/ h.op = "wrote" /\ ~h.ok
<1>1. DOMAIN <<h>> = {1} /\ <<h>>[1] = h
  OBVIOUS
<1> QED BY <1>1 DEF Evident

\* A message of two queues is in one of them.
LEMMA WithinJoined ==
  ASSUME NEW S, NEW q \in Seq(S), NEW z \in Seq(S), NEW m
  PROVE  Within(m, q \o z) <=> Within(m, q) \/ Within(m, z)
<1>1. PICK y : y = q \o z
  OBVIOUS
<1>2. /\ \A i \in DOMAIN q : i \in DOMAIN y /\ y[i] = q[i]
      /\ \A i \in DOMAIN y : (i \in DOMAIN q /\ y[i] = q[i]) \/ (\E j \in DOMAIN z : y[i] = z[j])
  BY <1>1, JoinedFrom
<1>3. \A i \in DOMAIN z : Len(q) + i \in DOMAIN y /\ y[Len(q) + i] = z[i]
  BY <1>1, Joined
<1>4. Within(m, y) <=> Within(m, q) \/ Within(m, z)
  BY <1>2, <1>3 DEF Within
<1> QED BY <1>1, <1>4

\* Ids are not taken back, so that calls that share one go on to do so.
LEMMA SharedKept ==
  ASSUME ConnTypes, IdInv, [Next]_vars, NEW m \in Calls, NEW n \in Calls, Shared(m, n)
  PROVE  Shared(m, n)'
<1> USE DEF sockVars, peerVars, writeVars, readVars, callVars, msgVars
<1>1. id[m] = id[n] /\ id[m] # 0 /\ id[n] # 0 /\ {m, n} \intersect keyed # {}
  BY DEF Shared, IdInv, NumInv
<1>2. id \in [Calls -> Nat]
  BY DEF ConnTypes
<1>3. CASE UNCHANGED <<id, keyed>>
  BY <1>1, <1>3 DEF Shared
<1>4. ASSUME NEW a \in Msgs, Post(a) PROVE Shared(m, n)'
  <2>1. CASE a \notin Calls
    BY <1>3, <1>4, <2>1 DEF Post
  <2>2. CASE a \in Calls
    <3>1. status[a] = "tested"
      BY <1>4 DEF Post
    <3>2. PICK k \in {0} \union CallIds :
            id' = [id EXCEPT ![a] = k] /\ keyed' = IF k = 0 THEN keyed ELSE keyed \union {a}
      BY <1>4, <2>2 DEF Post
    <3>3. id[a] = 0
      BY <2>2, <3>1 DEF IdInv, NumInv, Early
    <3>4. id'[m] = id[m] /\ id'[n] = id[n] /\ keyed \subseteq keyed'
      BY <1>1, <1>2, <3>2, <3>3
    <3> QED BY <1>1, <3>4 DEF Shared
  <2> QED BY <2>1, <2>2
<1>5. CASE HandleWrite
  <2>1. keyed' = keyed
    BY <1>5 DEF HandleWrite
  <2>2. id' = id \/ \E a : id' = [id EXCEPT ![a] = CallIdOf(a)]
    BY <1>5 DEF HandleWrite
  <2>3. ASSUME NEW a, id' = [id EXCEPT ![a] = CallIdOf(a)], NEW b \in Calls, id[b] # 0 PROVE id'[b] = id[b]
    <3>1. CASE a = b
      <4>1. CallIdOf(a) = id[b]
        BY <1>2, <2>3, <3>1 DEF CallIdOf
      <4> QED BY <1>2, <2>3, <3>1, <4>1
    <3>2. CASE a # b
      BY <1>2, <2>3, <3>2
    <3> QED BY <3>1, <3>2
  <2>4. id'[m] = id[m] /\ id'[n] = id[n]
    BY <1>1, <2>2, <2>3
  <2> QED BY <1>1, <2>1, <2>4 DEF Shared
<1>6. (\E a \in Msgs : Post(a)) \/ HandleWrite \/ UNCHANGED <<id, keyed>>
  BY DEF Next, Handle, vars, Write, Close, AsyncConnect, Accept, ConnectEnds, ResetEarly, WriteEnds,
     PeerReplies, PeerSends, ReadEnds, ReadBreaks, HandleConnect, HandleClose, HandleWrote, HandleRead
<1> QED BY <1>3, <1>4, <1>5, <1>6

\* A call that was tracked is tracked, if what speaks for it is still there.
LEMMA TrackFrame ==
  ASSUME ConnTypes, IdInv, [Next]_vars, NEW m \in Calls, Tracked(m),
         running' => running, outOfStep' = outOfStep,
         status'[m] = "given" /\ Within(m, accepted') => status[m] = "given" /\ Within(m, accepted),
         running /\ Underway(m) => Underway(m)', \A c \in calls : c.msg = m => c \in calls'
  PROVE  Tracked(m)'
<1>1. SUFFICES ASSUME Waits(m)' PROVE Underway(m)' /\ \E c \in calls' : c.msg = m
  BY DEF Tracked
<1>2. running /\ ~outOfStep /\ status[m] = "given" /\ Within(m, accepted)
  BY <1>1 DEF Waits, Within
<1>3. \A n \in Calls : Shared(m, n) => n = m
  BY <1>1, SharedKept DEF Waits
<1> QED BY <1>2, <1>3 DEF Tracked, Waits

\* do_write takes its message, and loses none.
LEMMA DoWriteHolds ==
  ASSUME ConnTypes, WriteInv, running, NEW m \in Msgs, DoWrite(m), Nil(ready, "wrote") => Nil(ready', "wrote"),
         NEW n, n = m \/ Within(n, Waiting) \/ Within(n, InFlight)
  PROVE  Within(n, Waiting)' \/ Within(n, InFlight)'
<1>1. queue \in Seq(Msgs) /\ Waiting \in Seq(Msgs)
  BY WritingTypes DEF ConnTypes
<1>2. CASE WriteInProgress
  <2>1. queue' = Append(queue, m) /\ UNCHANGED <<batch, writing>>
    BY <1>2 DEF DoWrite
  <2>2. queue # <<>> \/ batch # <<>>
    BY <1>2 DEF WriteInProgress
  <2>3. queue # <<>> => queue' # <<>> /\ Tail(queue') = Append(Tail(queue), m)
    BY <1>1, <2>1, AppendLast
  <2>4. InFlight' = InFlight
    BY <2>1 DEF InFlight
  <2>5. Waiting' = Append(Waiting, m)
    <3>1. CASE batch = <<>>
      BY <2>1, <2>2, <2>3, <3>1 DEF Waiting
    <3>2. CASE batch # <<>>
      BY <2>1, <3>2 DEF Waiting
    <3> QED BY <3>1, <3>2
  <2>6. PICK q : q = Waiting
    OBVIOUS
  <2>7. PICK w : w = Append(q, m)
    OBVIOUS
  <2>10. /\ DOMAIN w = DOMAIN q \union {Len(q) + 1}
         /\ \A i \in DOMAIN q : w[i] = q[i]
         /\ w[Len(q) + 1] = m
    BY <1>1, <2>6, <2>7, Pushed
  <2>11. Within(n, q) \/ n = m => Within(n, w)
    BY <2>10 DEF Within
  <2>8. Within(n, q) \/ n = m => Within(n, Waiting)'
    BY <2>5, <2>6, <2>7, <2>11 DEF Within
  <2>9. Within(n, InFlight) => Within(n, InFlight)'
    BY <2>4 DEF Within
  <2> QED BY <2>6, <2>8, <2>9
<1>3. CASE ~WriteInProgress
  <2>1. queue = <<>> /\ batch = <<>> /\ AsyncWrite(Append(queue, m), batch)
    BY <1>3 DEF WriteInProgress, DoWrite
  <2>2. AsyncWrite(<<m>>, <<>>) /\ <<m>> \in Seq(Msgs)
    BY <2>1
  <2>3. Current = <<>> /\ Waiting = <<>>
    BY <2>1 DEF Current, Waiting
  <2>4. writing = <<>> /\ Nil(ready, "wrote")
    BY <2>3 DEF WriteInv
  <2>5. InFlight = <<>>
    BY <2>4 DEF InFlight
  <2>6. n = m
    BY <2>3, <2>5 DEF Within
  <2>7. InFlight' \o Waiting' = <<m>> /\ InFlight' \in Seq(Msgs) /\ Waiting' \in Seq(Msgs)
    BY <2>2, <2>4, AsyncWritten
  <2>8. Within(m, <<m>>)
    BY DEF Within
  <2>9. PICK f, w : f = InFlight' /\ w = Waiting'
    OBVIOUS
  <2>10. Within(m, f) \/ Within(m, w)
    <3>1. f \in Seq(Msgs) /\ w \in Seq(Msgs) /\ f \o w = <<m>>
      BY <2>7, <2>9
    <3>2. Within(m, f \o w)
      BY <2>8, <3>1
    <3> QED BY <3>1, <3>2, WithinJoined
  <2> QED BY <2>6, <2>9, <2>10 DEF Within
<1> QED BY <1>2, <1>3

\* handle_write loses none of what waits.
LEMMA WroteHolds ==
  ASSUME ConnTypes, WriteInv, running, HandleWrote, Head(ready).ok, NEW n, Within(n, Waiting) \/ Within(n, InFlight)
  PROVE  Within(n, Waiting)' \/ Within(n, InFlight)'
<1>1. AsyncWrite(Waiting, <<>>) /\ writing = <<>> /\ Nil(ready', "wrote")
  BY WroteAgain
<1>2. InFlight = <<>>
  BY <1>1 DEF InFlight
<1>3. Within(n, Waiting)
  BY <1>2 DEF Within
<1>4. PICK q : q = Waiting
  OBVIOUS
<1>5. q \in Seq(Msgs) /\ AsyncWrite(q, <<>>) /\ Within(n, q)
  BY <1>1, <1>3, <1>4, WritingTypes
<1>6. InFlight' \o Waiting' = q /\ InFlight' \in Seq(Msgs) /\ Waiting' \in Seq(Msgs)
  BY <1>1, <1>5, AsyncWritten
<1>7. PICK f, w : f = InFlight' /\ w = Waiting'
  OBVIOUS
<1>8. Within(n, f) \/ Within(n, w)
  BY <1>5, <1>6, <1>7, WithinJoined
<1> QED BY <1>7, <1>8 DEF Within

\* What is written and what waits are not touched by other steps.
LEMMA WritingKept ==
  ASSUME UNCHANGED <<queue, batch, writing>>
  PROVE  Waiting' = Waiting /\ InFlight' = InFlight
BY DEF Waiting, InFlight

\* A write that ends leaves its calls with the peer, or a failure that tells of them.
LEMMA TrackWritten ==
  ASSUME ConnTypes, WriteInv, WriteEnds, running, NEW m \in Calls, Underway(m)
  PROVE  Underway(m)'
<1>1. PICK ok \in BOOLEAN :
        /\ ready' = Append(ready, [op |-> "wrote", ok |-> ok, msgs |-> Head(writing)])
        /\ served' = IF ok THEN served \union (Range(Head(writing)) \intersect Calls) ELSE served
  BY DEF WriteEnds
<1>2. writing # <<>> /\ writing' = Tail(writing) /\ UNCHANGED <<queue, batch, incoming>>
  BY DEF WriteEnds, writeVars
<1>3. ready \in Seq(AnyHandler) /\ writing \in Seq(Seq(Msgs))
  BY DEF ConnTypes
<1>4. Head(writing) \in Seq(Msgs)
  BY <1>2, <1>3, Popped
<1>5. PICK h : h = [op |-> "wrote", ok |-> ok, msgs |-> Head(writing)]
  OBVIOUS
<1>6. h \in AnyHandler /\ h.op = "wrote" /\ h.ok = ok /\ ready' = Append(ready, h)
  BY <1>1, <1>4, <1>5, Handlers
<1>7. Evident(m, ready) \/ ~ok => Evident(m, ready')
  BY <1>3, <1>6, QueueKeeps, Evidence
<1>8. Waiting' = Waiting
  BY <1>2 DEF Waiting
<1>9. InFlight = Head(writing)
  BY <1>2 DEF InFlight
<1>10. Within(m, InFlight) => m \in Range(Head(writing))
  BY <1>9 DEF Within, Range
<1>11. CASE ~ok
  BY <1>7, <1>11 DEF Underway
<1>12. CASE ok
  BY <1>1, <1>2, <1>7, <1>8, <1>10, <1>12 DEF Underway
<1> QED BY <1>11, <1>12

\* A read takes the first replies, and leaves the others.
LEMMA TrackRead ==
  ASSUME ConnTypes, NEW i \in DOMAIN reads, NEW n \in 1 .. BuffMax, NEW k \in 0 .. Len(incoming), ReadEnds(i, n, k),
         NEW m \in Calls, Underway(m)
  PROVE  Underway(m)'
<1>0. /\ ready \in Seq(AnyHandler) /\ incoming \in Seq(CallReply) /\ Len(incoming) \in Nat /\ n \in Nat
      /\ DOMAIN incoming = 1 .. Len(incoming) /\ k \in Nat /\ k <= Len(incoming)
  BY ConnectionAssumption, LenProperties DEF ConnTypes
<1>1. /\ UNCHANGED <<queue, batch, writing, served>>
      /\ ready' = Append(ready, [op |-> "read", ok |-> TRUE, len |-> n, replies |-> SubSeq(incoming, 1, k)])
      /\ incoming' = SubSeq(incoming, k + 1, Len(incoming))
  BY DEF ReadEnds, writeVars
<1>2. PICK q : q = SubSeq(incoming, 1, k)
  OBVIOUS
<1>3. PICK z : z = SubSeq(incoming, k + 1, Len(incoming))
  OBVIOUS
<1>4. q \in Seq(CallReply) /\ z \in Seq(CallReply)
  BY <1>0, <1>2, <1>3, PartType
<1>5. PICK h : h = [op |-> "read", ok |-> TRUE, len |-> n, replies |-> q]
  OBVIOUS
<1>6. h \in AnyHandler /\ h.op = "read" /\ h.replies = q /\ ready' = Append(ready, h)
  BY <1>0, <1>1, <1>2, <1>4, <1>5, Handlers
<1>7. Evident(m, ready) \/ Replied(m, q) => Evident(m, ready')
  BY <1>0, <1>6, QueueKeeps, Evidence
<1>8. Replied(m, incoming) => Replied(m, q) \/ Replied(m, z)
  <2>1. SUFFICES ASSUME NEW j \in DOMAIN incoming, incoming[j].msg = m PROVE Replied(m, q) \/ Replied(m, z)
    BY DEF Replied
  <2>2. CASE j <= k
    <3>1. Len(q) = k /\ \A l \in 1 .. k : q[l] = incoming[l]
      <4>1. \A l \in 1 .. k : incoming[l] \in CallReply
        BY <1>0, ElementOfSeq
      <4>2. 1 \in Int /\ k \in Int
        BY <1>0
      <4>3. /\ Len(q) = IF 1 <= k THEN k - 1 + 1 ELSE 0
            /\ \A l \in 1 .. k - 1 + 1 : q[l] = incoming[1 + l - 1]
        BY <1>2, <4>1, <4>2, SubSeqProperties
      <4> QED BY <1>0, <4>3
    <3>2. j \in 1 .. k /\ DOMAIN q = 1 .. Len(q)
      BY <1>0, <1>4, <2>2, LenProperties
    <3> QED BY <2>1, <3>1, <3>2 DEF Replied
  <2>3. CASE ~(j <= k)
    <3>1. Len(z) = Len(incoming) - k /\ \A l \in 1 .. Len(incoming) - k : z[l] = incoming[k + l]
      <4>1. \A l \in k + 1 .. Len(incoming) : incoming[l] \in CallReply
        BY <1>0, ElementOfSeq
      <4>2. k + 1 \in Int /\ Len(incoming) \in Int
        BY <1>0
      <4>3. /\ Len(z) = IF k + 1 <= Len(incoming) THEN Len(incoming) - (k + 1) + 1 ELSE 0
            /\ \A l \in 1 .. Len(incoming) - (k + 1) + 1 : z[l] = incoming[k + 1 + l - 1]
        BY <1>3, <4>1, <4>2, SubSeqProperties
      <4>4. Len(z) = Len(incoming) - k
        <5>1. k + 1 <= Len(incoming)
          BY <1>0, <2>3
        <5>2. Len(z) = Len(incoming) - (k + 1) + 1
          BY <4>3, <5>1
        <5>3. \A a, b \in Nat : a - (b + 1) + 1 = a - b
          OBVIOUS
        <5> QED BY <1>0, <5>2, <5>3
      <4>5. ASSUME NEW l \in 1 .. Len(incoming) - k PROVE z[l] = incoming[k + l]
        <5>1. l \in 1 .. Len(incoming) - (k + 1) + 1 /\ k + 1 + l - 1 = k + l
          BY <1>0
        <5> QED BY <4>3, <5>1
      <4> QED BY <4>4, <4>5
    <3>2. j - k \in 1 .. Len(incoming) - k /\ k + (j - k) = j /\ DOMAIN z = 1 .. Len(z)
      BY <1>0, <1>4, <2>3, LenProperties
    <3>3. z[j - k].msg = m /\ j - k \in DOMAIN z
      BY <2>1, <3>1, <3>2
    <3> QED BY <3>3 DEF Replied
  <2> QED BY <2>2, <2>3
<1>9. Waiting' = Waiting /\ InFlight' = InFlight
  BY <1>1, WritingKept
<1>10. incoming' = z
  BY <1>1, <1>3
<1> QED BY <1>1, <1>7, <1>8, <1>9, <1>10 DEF Underway

\* handle_sequence_read: a call whose reply is among those read is answered.
LEMMA TrackReceived ==
  ASSUME ConnTypes, IdInv, [Next]_vars, HandleRead, NEW m \in Calls, Tracked(m)
  PROVE  Tracked(m)'
<1> USE DEF sockVars, peerVars, writeVars, readVars, callVars, msgVars
<1>1. PICK h : h = Head(ready)
  OBVIOUS
<1>2. /\ ready # <<>> /\ h.op = "read" /\ ready' = Tail(ready)
      /\ UNCHANGED <<queue, batch, writing, served, incoming, accepted>>
  BY <1>1 DEF HandleRead, Runs
<1>3. CASE ReadFails
  BY <1>3 DEF ReadFails, OnError, Tracked, Waits
<1>4. ASSUME NEW r \in Seq(CallReply), ReadTaken(r) PROVE Tracked(m)'
  <2>1. CASE outOfStep'
    BY <2>1 DEF Tracked, Waits
  <2>2. CASE ~outOfStep'
    <3>1. h.ok /\ running' = running /\ r = h.replies /\ ~outOfStep
      BY <1>1, <1>4, <2>2 DEF ReadTaken
    <3>2. /\ calls' = calls \ Answered(r)
          /\ status' = [n \in Msgs |-> IF \E c \in Answered(r) : c.msg = n THEN "answered" ELSE status[n]]
      BY <1>4 DEF ReadTaken, OnReceiveMsgs
    <3>3. CASE \E c \in Answered(r) : c.msg = m
      <4>1. status'[m] = "answered"
        BY <3>2, <3>3, ConnectionAssumption
      <4> QED BY <4>1 DEF Tracked, Waits
    <3>4. CASE ~\E c \in Answered(r) : c.msg = m
      <4>1. status'[m] = status[m]
        BY <3>2, <3>4, ConnectionAssumption
      <4>2. \A c \in calls : c.msg = m => c \in calls'
        BY <3>2, <3>4
      <4>3. ready \in Seq(AnyHandler)
        BY DEF ConnTypes
      <4>4. h = ready[1] /\ 1 \in DOMAIN ready
        BY <1>1, <1>2, <4>3, Popped
      <4>5. calls \subseteq Genuine /\ Of(r, Genuine)
        BY <1>2, <3>1, <4>4 DEF IdInv
      <4>6. ASSUME NEW c \in calls, c.msg = m PROVE ~Replied(m, r)
        <5>1. SUFFICES ASSUME NEW j \in DOMAIN r, r[j].msg = m PROVE FALSE
          BY DEF Replied
        <5>2. r[j] \in Genuine /\ c \in Genuine
          BY <4>5 DEF Of
        <5>3. r[j].id = c.id
          BY <4>6, <5>1, <5>2 DEF Genuine
        <5>4. c \in Answered(r)
          BY <5>3 DEF Answered
        <5> QED BY <3>4, <4>6, <5>4
      <4>7. ASSUME NEW c \in calls, c.msg = m, Evident(m, ready) PROVE Evident(m, ready')
        <5>1. ~Evident(m, <<h>>)
          BY <1>2, <3>1, <4>6, <4>7, Evidence
        <5> QED BY <1>1, <1>2, <4>3, <4>7, <5>1, QueueKeeps
      <4>8. Waiting' = Waiting /\ InFlight' = InFlight
        BY <1>2, WritingKept
      <4>9. ASSUME NEW c \in calls, c.msg = m, Underway(m) PROVE Underway(m)'
        BY <1>2, <4>7, <4>8, <4>9 DEF Underway
      <4>10. Waits(m)' => Waits(m)
        <5>1. \A n \in Calls : Shared(m, n) => Shared(m, n)'
          BY SharedKept
        <5> QED BY <1>2, <3>1, <4>1, <5>1 DEF Waits, Within
      <4> QED BY <4>2, <4>9, <4>10 DEF Tracked
    <3> QED BY <3>3, <3>4
  <2> QED BY <2>1, <2>2
<1> QED BY <1>3, <1>4, ReadOutcome

\* do_write and do_await_write: the call is in calls_, and in the queue of the messages.
LEMMA TrackWrite ==
  ASSUME ConnTypes, WriteInv, IdInv, [Next]_vars, HandleWrite, NEW m \in Calls, Tracked(m)
  PROVE  Tracked(m)'
<1> USE DEF sockVars, peerVars, writeVars, readVars, callVars, msgVars
<1>1. PICK h : h = Head(ready)
  OBVIOUS
<1>2. /\ ready # <<>> /\ h.op \in {"write", "await"} /\ ready' = Tail(ready)
      /\ UNCHANGED <<running, outOfStep, status, served, incoming, keyed>>
  BY <1>1 DEF HandleWrite, Runs
<1>3. CASE ~running
  BY <1>2, <1>3 DEF Tracked, Waits
<1>4. CASE running
  <2>1. ready \in Seq(AnyHandler) /\ callId \in Nat /\ id \in [Calls -> Nat] /\ accepted \in Seq(Msgs)
    BY DEF ConnTypes
  <2>2. h \in AnyHandler /\ h = ready[1] /\ 1 \in DOMAIN ready
    BY <1>1, <1>2, <2>1, Popped
  <2>3. PICK n : n = h.msg
    OBVIOUS
  <2>4. DoWrite(n) /\ n \in Msgs /\ (h.op = "write" => n \notin Calls)
    <3>1. DoWrite(n)
      BY <1>1, <1>4, <2>3 DEF HandleWrite
    <3>2. n \in Msgs /\ (h.op = "write" => n \notin Calls)
      BY <1>2, <2>2, <2>3, HandlerKinds, ConnectionAssumption
    <3> QED BY <3>1, <3>2
  <2>5. Nil(ready, "wrote") => Nil(ready', "wrote")
    BY <1>2, <2>1, PoppedKind
  <2>6. m = n \/ Within(m, Waiting) \/ Within(m, InFlight) => Within(m, Waiting)' \/ Within(m, InFlight)'
    BY <1>4, <2>4, <2>5, DoWriteHolds
  <2>7. Evident(m, ready) => Evident(m, ready')
    <3>1. ~Evident(m, <<h>>)
      BY <1>2, Evidence
    <3> QED BY <1>1, <1>2, <2>1, <3>1, QueueKeeps
  <2>8. Underway(m) \/ m = n => Underway(m)'
    BY <1>2, <2>6, <2>7 DEF Underway
  <2>9. CASE m = n
    <3>1. h.op = "await" /\ (m \in keyed \/ id[m] = 0)
      BY <1>2, <2>2, <2>3, <2>4, <2>9 DEF IdInv
    <3>2. PICK k : k = CallIdOf(m)
      OBVIOUS
    <3>3. PICK c : c = [id |-> k, msg |-> m]
      OBVIOUS
    <3>4. calls' = Emplaced(c) /\ c.id = k /\ c.msg = m /\ id' = [id EXCEPT ![m] = k]
      BY <1>1, <1>4, <2>3, <2>9, <3>1, <3>2, <3>3 DEF HandleWrite, Runs
    <3>5. id'[m] = k
      BY <2>1, <3>4
    <3>6. ASSUME NEW d \in calls, d.id = k, d.msg # m PROVE ~Waits(m)'
      <4>1. d.id = id[d.msg] /\ d.msg \in Calls
        BY DEF IdInv, Genuine, ConnTypes, CallEntry
      <4>2. id'[d.msg] = k
        BY <2>1, <3>4, <3>6, <4>1
      <4>3. m \in keyed \/ d.msg \in keyed
        <5>1. SUFFICES ASSUME m \notin keyed, d.msg \notin keyed PROVE FALSE
          OBVIOUS
        <5>2. k = callId + 1
          BY <3>1, <3>2, <5>1 DEF CallIdOf, NextCallId
        <5>3. id[d.msg] <= callId /\ id[d.msg] \in Nat
          BY <2>1, <4>1, <5>1 DEF IdInv, NumInv, Unkeyed
        <5>4. callId \in Nat /\ k = id[d.msg]
          BY <2>1, <3>6, <4>1
        <5> QED BY <5>2, <5>3, <5>4
      <4>4. Shared(m, d.msg)'
        BY <1>2, <3>5, <4>2, <4>3 DEF Shared
      <4> QED BY <3>6, <4>1, <4>4 DEF Waits
    <3>7. (\E d \in calls : d.id = c.id /\ d.msg # m) \/ \E d \in calls' : d.msg = m
      BY <3>4 DEF Emplaced
    <3> QED BY <2>8, <2>9, <3>4, <3>6, <3>7 DEF Tracked
  <2>10. CASE m # n
    <3>1. Within(m, accepted') => Within(m, accepted)
      <4>1. accepted' = Append(accepted, n)
        BY <2>4 DEF DoWrite
      <4>2. /\ DOMAIN accepted' = DOMAIN accepted \union {Len(accepted) + 1}
            /\ \A i \in DOMAIN accepted : accepted'[i] = accepted[i]
            /\ accepted'[Len(accepted) + 1] = n
        BY <2>1, <2>4, <4>1, Pushed
      <4> QED BY <2>10, <4>2 DEF Within
    <3>2. calls \subseteq calls'
      BY <1>4 DEF HandleWrite, Emplaced
    <3> QED BY <1>2, <2>8, <3>1, <3>2, TrackFrame
  <2> QED BY <2>9, <2>10
<1> QED BY <1>3, <1>4

\* A new connection does not run, and so has no call to keep.
LEMMA InitTrack == Init => TrackInv
  BY DEF Init, TrackInv, Tracked, Waits, AcceptInv, Within

\* What do_write accepts has been posted.
LEMMA AcceptStep ==
  ASSUME ConnTypes, SockInv, IdInv, AcceptInv, [Next]_vars
  PROVE  AcceptInv'
<1> USE DEF sockVars, peerVars, writeVars, readVars, callVars, msgVars
<1>1. SUFFICES ASSUME NEW m \in Calls, Within(m, accepted') PROVE status'[m] \notin Early
  BY DEF AcceptInv
<1>0. m \in Msgs /\ status \in [Msgs -> Statuses] /\ ready \in Seq(AnyHandler) /\ accepted \in Seq(Msgs)
  BY ConnectionAssumption DEF ConnTypes
<1>2. status'[m] \in Early => status[m] \in Early
  <2>1. ASSUME NEW n \in Msgs, Write(n) PROVE status'[m] \in Early => status[m] \in Early
    BY <1>0, <2>1 DEF Write, Early
  <2>2. ASSUME NEW n \in Msgs, Post(n) PROVE status'[m] \in Early => status[m] \in Early
    BY <1>0, <2>2 DEF Post, Early
  <2>3. CASE HandleRead
    BY <2>3, AnswersRight
  <2>4. (\E n \in Msgs : Write(n) \/ Post(n)) \/ HandleRead \/ status' = status
    BY DEF Next, Handle, vars, Close, AsyncConnect, Accept, ConnectEnds, ResetEarly, WriteEnds,
       PeerReplies, PeerSends, ReadEnds, ReadBreaks, HandleConnect, HandleClose, HandleWrite, HandleWrote
  <2> QED BY <2>1, <2>2, <2>3, <2>4
<1>3. CASE accepted' = accepted
  BY <1>1, <1>2, <1>3 DEF AcceptInv
<1>4. CASE accepted' = <<>>
  BY <1>1, <1>4 DEF Within
<1>5. CASE HandleWrite
  <2>1. PICK h : h = Head(ready)
    OBVIOUS
  <2>2. ready # <<>> /\ h.op \in {"write", "await"} /\ status' = status
    BY <1>5, <2>1 DEF HandleWrite, Runs
  <2>3. accepted' = accepted \/ accepted' = Append(accepted, h.msg)
    BY <1>5, <2>1 DEF HandleWrite, DoWrite
  <2>4. h \in AnyHandler /\ h = ready[1] /\ 1 \in DOMAIN ready
    BY <1>0, <2>1, <2>2, Popped
  <2>5. h.msg \in Msgs /\ (h.op = "write" => h.msg \notin Calls)
    BY <2>2, <2>4, HandlerKinds, ConnectionAssumption
  <2>6. ASSUME accepted' = Append(accepted, h.msg) PROVE Within(m, accepted) \/ m = h.msg
    <3>1. /\ DOMAIN accepted' = DOMAIN accepted \union {Len(accepted) + 1}
          /\ \A i \in DOMAIN accepted : accepted'[i] = accepted[i]
          /\ accepted'[Len(accepted) + 1] = h.msg
      BY <1>0, <2>5, <2>6, Pushed
    <3> QED BY <1>1, <3>1 DEF Within
  <2>7. m = h.msg => status[m] \notin Early
    BY <2>2, <2>4, <2>5 DEF IdInv
  <2> QED BY <1>1, <2>2, <2>3, <2>6, <2>7 DEF AcceptInv
<1>6. HandleWrite \/ accepted' = accepted \/ accepted' = <<>>
  BY DEF Next, Handle, vars, Write, Post, Close, AsyncConnect, Accept, Start, ConnectEnds, ResetEarly, WriteEnds,
     PeerReplies, PeerSends, ReadEnds, ReadBreaks, HandleConnect, HandleClose, HandleWrote, HandleRead
<1> QED BY <1>3, <1>4, <1>5, <1>6

\* Every action keeps track of the calls.
LEMMA TrackStep ==
  ASSUME ConnTypes, SockInv, WriteInv, GivenInv, IdInv, TrackInv, [Next]_vars
  PROVE  TrackInv'
<1> SUFFICES ASSUME NEW m \in Calls PROVE Tracked(m)'
  BY AcceptStep DEF TrackInv
<1> USE DEF sockVars, peerVars, writeVars, readVars, callVars, msgVars
<1>0. /\ ready \in Seq(AnyHandler) /\ incoming \in Seq(CallReply) /\ m \in Msgs /\ Tracked(m)
      /\ givenTo \in [Msgs -> Nat] /\ connects \in Nat /\ status \in [Msgs -> Statuses] /\ id \in [Calls -> Nat]
  BY ConnectionAssumption DEF ConnTypes, TrackInv
<1>1. ASSUME NEW n \in Msgs, Write(n) PROVE Tracked(m)'
  <2>1. UNCHANGED <<running, outOfStep, accepted, queue, batch, writing, served, incoming, calls, ready>>
    BY <1>1 DEF Write
  <2>2. Waiting' = Waiting /\ InFlight' = InFlight
    BY <2>1, WritingKept
  <2>3. status'[m] = "given" => status[m] = "given"
    BY <1>0, <1>1 DEF Write
  <2>4. Underway(m) => Underway(m)'
    BY <2>1, <2>2 DEF Underway
  <2> QED BY <1>0, <2>1, <2>3, <2>4, TrackFrame
<1>16. ASSUME NEW n \in Msgs, Post(n) PROVE Tracked(m)'
  <2>1. /\ UNCHANGED <<running, outOfStep, accepted, queue, batch, writing, served, incoming, calls>>
        /\ status[n] = "tested" /\ status' = [status EXCEPT ![n] = "given"]
        /\ ready' = Append(ready, [op |-> IF n \in Calls THEN "await" ELSE "write", msg |-> n])
    BY <1>16 DEF Post
  <2>2. Waiting' = Waiting /\ InFlight' = InFlight
    BY <2>1, WritingKept
  <2>3. PICK h : h = [op |-> IF n \in Calls THEN "await" ELSE "write", msg |-> n]
    OBVIOUS
  <2>4. h \in AnyHandler /\ ready' = Append(ready, h)
    BY <2>1, <2>3, Handlers
  <2>5. Evident(m, ready) => Evident(m, ready')
    BY <1>0, <2>4, QueueKeeps
  <2>6. Underway(m) => Underway(m)'
    BY <2>1, <2>2, <2>5 DEF Underway
  <2>7. status'[m] = "given" /\ Within(m, accepted') => status[m] = "given" /\ Within(m, accepted)
    <3>1. CASE n = m
      BY <2>1, <3>1 DEF TrackInv, AcceptInv, Early
    <3>2. CASE n # m
      BY <1>0, <2>1, <3>2
    <3> QED BY <3>1, <3>2
  <2> QED BY <1>0, <2>1, <2>6, <2>7, TrackFrame
<1>17. ASSUME NEW k \in CallIds, PeerSends(k) PROVE Tracked(m)'
  <2>1. /\ incoming' = Append(incoming, [id |-> k, msg |-> Request])
        /\ UNCHANGED <<running, outOfStep, accepted, status, queue, batch, writing, served, calls, ready>>
    BY <1>17 DEF PeerSends
  <2>2. Waiting' = Waiting /\ InFlight' = InFlight
    BY <2>1, WritingKept
  <2>3. PICK r : r = [id |-> k, msg |-> Request]
    OBVIOUS
  <2>4. r \in CallReply /\ incoming' = Append(incoming, r)
    BY <2>1, <2>3, ConnectionAssumption DEF CallReply
  <2>5. /\ DOMAIN incoming' = DOMAIN incoming \union {Len(incoming) + 1}
        /\ \A i \in DOMAIN incoming : incoming'[i] = incoming[i]
    BY <1>0, <2>4, Pushed
  <2>6. Replied(m, incoming) => Replied(m, incoming')
    BY <2>5 DEF Replied
  <2>7. Underway(m) => Underway(m)'
    BY <2>1, <2>2, <2>6 DEF Underway
  <2> QED BY <1>0, <2>1, <2>7, TrackFrame
<1>2. ASSUME NEW h, Quiet(h) PROVE Tracked(m)'
  <2>1. /\ h \in AnyHandler /\ ready' = Append(ready, h)
        /\ UNCHANGED <<running, outOfStep, accepted, status, queue, batch, writing, served, incoming, calls>>
    BY <1>2 DEF Quiet
  <2>2. Waiting' = Waiting /\ InFlight' = InFlight
    BY <2>1, WritingKept
  <2>3. Evident(m, ready) => Evident(m, ready')
    BY <1>0, <2>1, QueueKeeps
  <2>4. Underway(m) => Underway(m)'
    BY <2>1, <2>2, <2>3 DEF Underway
  <2> QED BY <1>0, <2>1, <2>3, <2>4, TrackFrame
<1>3. CASE AsyncConnect
  BY <1>3 DEF AsyncConnect, Tracked, Waits
<1>4. CASE HandleConnect \/ Accept
  <2>1. running' => sock' = "connected"
    BY <1>4, StartIdle
  <2>2. running' => accepted' = <<>>
    BY <1>4, <2>1 DEF HandleConnect, Accept, Start
  <2> QED BY <2>2 DEF Tracked, Waits, Within
<1>5. ASSUME UNCHANGED <<running, outOfStep, accepted, status, queue, batch, writing, served, incoming, calls, ready>>
      PROVE  Tracked(m)'
  <2>1. Waiting' = Waiting /\ InFlight' = InFlight
    BY <1>5, WritingKept
  <2>2. Underway(m) => Underway(m)'
    BY <1>5, <2>1 DEF Underway
  <2> QED BY <1>0, <1>5, <2>2, TrackFrame
<1>6. CASE ResetEarly
  BY <1>5, <1>6 DEF ResetEarly
<1>7. CASE WriteEnds
  <2>1. UNCHANGED <<running, outOfStep, accepted, status, calls>> /\ writing # <<>>
    BY <1>7 DEF WriteEnds
  <2>6. running /\ Underway(m) => Underway(m)'
    BY <1>7, TrackWritten
  <2> QED BY <1>0, <2>1, <2>6, TrackFrame
<1>8. ASSUME NEW n \in Calls, PeerReplies(n) PROVE Tracked(m)'
  <2>1. /\ served' = served \ {n} /\ incoming' = Append(incoming, [id |-> id[n], msg |-> n])
        /\ UNCHANGED <<running, outOfStep, accepted, status, queue, batch, writing, calls, ready>>
    BY <1>8 DEF PeerReplies
  <2>2. Waiting' = Waiting /\ InFlight' = InFlight
    BY <2>1, WritingKept
  <2>3. PICK r : r = [id |-> id[n], msg |-> n]
    OBVIOUS
  <2>4. r \in CallReply /\ r.msg = n
    BY <1>0, <2>3 DEF CallReply
  <2>5. /\ DOMAIN incoming' = DOMAIN incoming \union {Len(incoming) + 1}
        /\ \A i \in DOMAIN incoming : incoming'[i] = incoming[i]
        /\ incoming'[Len(incoming) + 1] = r
    BY <1>0, <2>1, <2>3, <2>4, Pushed
  <2>6. Replied(m, incoming) \/ m = n => Replied(m, incoming')
    BY <2>4, <2>5 DEF Replied
  <2>7. Underway(m) => Underway(m)'
    BY <2>1, <2>2, <2>6 DEF Underway
  <2> QED BY <1>0, <2>1, <2>7, TrackFrame
<1>9. ASSUME NEW i \in DOMAIN reads, NEW n \in 1 .. BuffMax, NEW k \in 0 .. Len(incoming), ReadEnds(i, n, k)
      PROVE  Tracked(m)'
  <2>1. /\ UNCHANGED <<running, outOfStep, accepted, status, calls>>
        /\ ready' = Append(ready, [op |-> "read", ok |-> TRUE, len |-> n, replies |-> SubSeq(incoming, 1, k)])
    BY <1>9 DEF ReadEnds
  <2>6. Underway(m) => Underway(m)'
    BY <1>9, TrackRead
  <2> QED BY <1>0, <2>1, <2>6, TrackFrame
<1>10. CASE HandleClose
  <2>1. CASE ~forceClosed
    BY <1>10, <2>1 DEF HandleClose, Tracked, Waits
  <2>2. CASE forceClosed
    <3>1. /\ ready # <<>> /\ Head(ready).op = "close" /\ ready' = Tail(ready)
          /\ UNCHANGED <<running, outOfStep, accepted, status, queue, batch, writing, served, incoming, calls>>
      BY <1>10, <2>2 DEF HandleClose, Runs
    <3>2. ~Evident(m, <<Head(ready)>>)
      BY <3>1, Evidence
    <3>3. Evident(m, ready) => Evident(m, ready')
      BY <1>0, <3>1, <3>2, QueueKeeps
    <3>4. Waiting' = Waiting /\ InFlight' = InFlight
      BY <3>1, WritingKept
    <3>5. Underway(m) => Underway(m)'
      BY <3>1, <3>3, <3>4 DEF Underway
    <3> QED BY <1>0, <3>1, <3>3, <3>5, TrackFrame
  <2> QED BY <2>1, <2>2
<1>11. CASE HandleWrite
  BY <1>0, <1>11, TrackWrite
<1>12. CASE HandleWrote
  <2>1. /\ ready # <<>> /\ Head(ready).op = "wrote" /\ ready' = Tail(ready)
        /\ UNCHANGED <<outOfStep, accepted, status, served, incoming, calls>>
    BY <1>12 DEF HandleWrote, Runs
  <2>2. CASE ~running \/ ~Head(ready).ok
    BY <1>12, <2>2 DEF HandleWrote, OnError, Tracked, Waits
  <2>3. CASE running /\ Head(ready).ok
    <3>1. ~Evident(m, <<Head(ready)>>)
      BY <2>1, <2>3, Evidence
    <3>2. Evident(m, ready) => Evident(m, ready')
      BY <1>0, <2>1, <3>1, QueueKeeps
    <3>3. Within(m, Waiting) \/ Within(m, InFlight) => Within(m, Waiting)' \/ Within(m, InFlight)'
      BY <1>12, <2>3, WroteHolds
    <3>4. Underway(m) => Underway(m)'
      BY <2>1, <3>2, <3>3 DEF Underway
    <3> QED BY <1>0, <2>1, <2>3, <3>2, <3>4, TrackFrame
  <2> QED BY <2>2, <2>3
<1>13. CASE HandleRead
  BY <1>0, <1>13, TrackReceived
<1>14. CASE UNCHANGED vars
  BY <1>5, <1>14 DEF vars
<1>15. CASE Close \/ ConnectEnds \/ \E i \in DOMAIN reads : ReadBreaks(i)
  BY <1>2, <1>15, QuietSteps
<1> QED BY <1>1, <1>3, <1>4, <1>6, <1>7, <1>8, <1>9, <1>10, <1>11, <1>12, <1>13, <1>14, <1>15,
           <1>16, <1>17 DEF Next, Handle

-----------------------------------------------------------------------------
(* What holds of a connection that is used as its code expects *)

\* The inductive invariant: what the socket, the reads, the writes, the messages and the
\* calls of a tcp_connection have to do with each other.
THEOREM ConnectionInvariant ==
  ASSUME WellUsed
  PROVE  Spec => []ConnInv
<1>1. Init => ConnInv
  BY InitConnTypes, InitSock, InitRead, InitWrite, InitGiven, InitIds, InitTrack DEF ConnInv
<1>2. ConnInv /\ [Next]_vars => ConnInv'
  <2>1. SUFFICES ASSUME ConnInv, [Next]_vars PROVE ConnInv'
    OBVIOUS
  <2>2. ConnTypes /\ TestInv /\ SockInv /\ ReadInv /\ WriteInv /\ OrderInv /\ GivenInv /\ IdInv /\ TrackInv
    BY <2>1 DEF ConnInv
  <2>3. ConnTypes'
    BY <2>1, <2>2, ConnTypesStep
  <2>4. SockInv'
    BY <2>1, <2>2, SockStep
  <2>5. ReadInv'
    BY <2>1, <2>2, ReadStep
  <2>6. WriteInv' /\ OrderInv'
    BY <2>1, <2>2, WriteStep
  <2>7. GivenInv'
    BY <2>1, <2>2, GivenStep
  <2>8. IdInv'
    BY <2>1, <2>2, IdStep
  <2>9. TrackInv'
    BY <2>1, <2>2, TrackStep
  <2>10. TestInv'
    BY <2>1, <2>2, TestStep
  <2> QED BY <2>3, <2>4, <2>5, <2>6, <2>7, <2>8, <2>9, <2>10 DEF ConnInv
<1> QED BY <1>1, <1>2, PTL DEF Spec

\* How many handlers of a kind there are.
LEMMA KindsCounted ==
  ASSUME NEW op
  PROVE  /\ Nil(ready, op) => Cardinality(Ended(op)) = 0 /\ Ended(op) = {}
         /\ One(ready, op) => Cardinality(Ended(op)) = 1
<1>1. ASSUME Nil(ready, op) PROVE Cardinality(Ended(op)) = 0 /\ Ended(op) = {}
  <2>1. Ended(op) = {}
    BY <1>1 DEF Ended, Nil
  <2> QED BY <2>1, FS_EmptySet
<1>2. ASSUME One(ready, op) PROVE Cardinality(Ended(op)) = 1
  <2>1. PICK i \in DOMAIN ready : ready[i].op = op /\ \A j \in DOMAIN ready : ready[j].op = op => j = i
    BY <1>2 DEF One
  <2>2. Ended(op) = {i}
    BY <2>1 DEF Ended
  <2> QED BY <2>2, FS_Singleton
<1> QED BY <1>1, <1>2

\* A running connection has exactly one async_read, in flight or ended: handle_sequence_read
\* always goes on, and no second read goes to the same buffer.
THEOREM OneReadHolds ==
  ASSUME WellUsed
  PROVE  Spec => []OneRead
<1>1. ConnInv => OneRead
  <2>1. SUFFICES ASSUME ConnInv, running PROVE Len(reads) + Cardinality(Ended("read")) = 1
    BY DEF OneRead
  <2>2. CASE Len(reads) = 1 /\ Nil(ready, "read")
    BY <2>2, KindsCounted
  <2>3. CASE reads = <<>> /\ One(ready, "read")
    <3>1. Len(reads) = 0 /\ Cardinality(Ended("read")) = 1
      BY <2>3, KindsCounted
    <3> QED BY <3>1
  <2> QED BY <2>1, <2>2, <2>3 DEF ConnInv, ReadInv
<1> QED BY <1>1, ConnectionInvariant, PTL

\* The assertion of completion_condition: what is read has its place in the buffer, as
\* long as the router does not start the connection once more.
THEOREM ReaderAssertHolds ==
  ASSUME WellUsed
  PROVE  Spec => []ReaderAssert
<1>1. ConnInv => ReaderAssert
  BY DEF ConnInv, ReadInv, ReaderAssert, Ended
<1> QED BY <1>1, ConnectionInvariant, PTL

\* One async_write at a time, of the batch or of the front of write_msg_queue_, and one
\* as long as there is something to write.
THEOREM WriterMatchesHolds ==
  ASSUME WellUsed
  PROVE  Spec => []WriterMatches
<1>1. ConnInv => WriterMatches
  <2>1. SUFFICES ASSUME ConnInv, running
        PROVE  /\ Len(writing) + Cardinality(Ended("wrote")) = IF Current = <<>> THEN 0 ELSE 1
               /\ \A i \in DOMAIN writing : writing[i] = Current
               /\ \A i \in Ended("wrote") : ready[i].msgs = Current
    BY DEF WriterMatches
  <2>2. CASE Current = <<>> /\ writing = <<>> /\ Nil(ready, "wrote")
    <3>1. Len(writing) = 0 /\ DOMAIN writing = {} /\ Cardinality(Ended("wrote")) = 0 /\ Ended("wrote") = {}
      BY <2>2, KindsCounted
    <3> QED BY <2>2, <3>1
  <2>3. CASE Current # <<>> /\ writing = <<Current>> /\ Nil(ready, "wrote")
    <3>1. /\ Len(writing) = 1 /\ DOMAIN writing = {1} /\ writing[1] = Current
          /\ Cardinality(Ended("wrote")) = 0 /\ Ended("wrote") = {}
      BY <2>3, KindsCounted
    <3> QED BY <2>3, <3>1
  <2>4. CASE /\ Current # <<>> /\ writing = <<>> /\ One(ready, "wrote")
             /\ \A i \in DOMAIN ready : ready[i].op = "wrote" => ready[i].msgs = Current
    <3>1. Len(writing) = 0 /\ DOMAIN writing = {} /\ Cardinality(Ended("wrote")) = 1
      BY <2>4, KindsCounted
    <3>2. \A i \in Ended("wrote") : ready[i].msgs = Current
      BY <2>4 DEF Ended
    <3> QED BY <2>4, <3>1, <3>2
  <2> QED BY <2>1, <2>2, <2>3, <2>4 DEF ConnInv, WriteInv
<1> QED BY <1>1, ConnectionInvariant, PTL

\* What do_write was given is on the wire, in flight or waiting, in its order, and no
\* message of it is lost or sent twice.
THEOREM WireInOrderHolds ==
  ASSUME WellUsed
  PROVE  Spec => []WireInOrder
<1>1. ConnInv => WireInOrder
  BY DEF ConnInv, OrderInv, WireInOrder, Ended
<1> QED BY <1>1, ConnectionInvariant, PTL

\* reset_state leaves nothing of the connection before: what is written was posted to this
\* one, or to its attempt, by threads that may have seen is_running_ of the one before.
THEOREM NotOnNextConnectionHolds ==
  ASSUME WellUsed
  PROVE  Spec => []NotOnNextConnection
<1>1. ConnInv => NotOnNextConnection
  <2>1. SUFFICES ASSUME ConnInv, running, NEW m \in Range(queue \o batch \o wire) PROVE givenTo[m] = connects
    BY DEF NotOnNextConnection
  <2>2. /\ queue \in Seq(Msgs) /\ batch \in Seq(Msgs) /\ wire \in Seq(Msgs)
        /\ Of(queue, GivenHere) /\ Of(batch, GivenHere) /\ Of(wire, GivenHere)
    BY <2>1 DEF ConnInv, ConnTypes, GivenInv, Written
  <2>3. queue \o batch \in Seq(Msgs) /\ Of(queue \o batch, GivenHere)
    BY <2>2, OfJoined, ConcatProperties
  <2>4. PICK q : q = queue \o batch \o wire
    OBVIOUS
  <2>5. Of(q, GivenHere)
    BY <2>2, <2>3, <2>4, OfJoined
  <2>6. m \in GivenHere
    BY <2>1, <2>4, <2>5 DEF Of, Range
  <2> QED BY <2>6 DEF GivenHere
<1> QED BY <1>1, ConnectionInvariant, PTL

\* An await_write returns what carries the call_id of its message: the reply to it, a
\* message of the peer under that id, or the reply to a call that shares the id because one
\* of the two came with it; whatever the order of the replies.
THEOREM AwaitMatchesHolds ==
  ASSUME WellUsed
  PROVE  Spec => []AwaitMatches
<1>1. ConnInv => AwaitMatches
  <2>1. SUFFICES ASSUME ConnInv, NEW m \in Calls, NEW n \in answer[m], n # m, n # Request
        PROVE  Shared(m, n)
    BY DEF AwaitMatches
  <2>2. n \in Calls
    BY <2>1 DEF ConnInv, ConnTypes
  <2>3. id[n] = id[m] /\ id[m] # 0
    BY <2>1, <2>2 DEF ConnInv, IdInv, NumInv
  <2>4. ~(m \in Unkeyed /\ n \in Unkeyed)
    BY <2>1, <2>2, <2>3 DEF ConnInv, IdInv, NumInv
  <2> QED BY <2>2, <2>3, <2>4 DEF Shared, Unkeyed
<1> QED BY <1>1, ConnectionInvariant, PTL

\* A call that do_await_write has accepted is in calls_ with its message or its reply on the
\* way, as long as the connection runs with its reader in step, or shares its id.
THEOREM AwaitTrackedHolds ==
  ASSUME WellUsed
  PROVE  Spec => []AwaitTracked
<1>1. ConnInv => AwaitTracked
  <2>1. SUFFICES ASSUME ConnInv, NEW m \in Calls, running, ~outOfStep, status[m] = "given",
                        m \in Range(accepted), ~\E n \in Calls \ {m} : Shared(m, n)
        PROVE  (Owned(m) \/ InHandler(m)) /\ \E c \in calls : c.msg = m /\ c.id = id[m]
    BY DEF AwaitTracked
  <2>2. ConnTypes /\ IdInv /\ Tracked(m) /\ Within(m, accepted)
    BY <2>1 DEF ConnInv, TrackInv, Within, Range
  <2>3. ready \in Seq(AnyHandler) /\ queue \in Seq(Msgs) /\ batch \in Seq(Msgs) /\ InFlight \in Seq(Msgs)
    BY <2>2, WritingTypes DEF ConnTypes
  <2>4. Underway(m) /\ \E c \in calls : c.msg = m
    BY <2>1, <2>2 DEF Tracked, Waits
  <2>5. Evident(m, ready) => InHandler(m)
    BY DEF Evident, InHandler, Replied
  <2>6. ASSUME Underway(m), ~Evident(m, ready) PROVE Owned(m)
    <3>1. queue \o batch \in Seq(Msgs) /\ queue \o batch \o InFlight \in Seq(Msgs)
      BY <2>3, ConcatProperties
    <3>2. Within(m, Waiting) => Within(m, queue)
      <4>1. CASE Waiting = queue
        BY <4>1
      <4>2. CASE queue # <<>> /\ Waiting = Tail(queue)
        <5>1. \A i \in DOMAIN Tail(queue) : i + 1 \in DOMAIN queue /\ Tail(queue)[i] = queue[i + 1]
          BY <2>3, <4>2, Popped
        <5> QED BY <4>2, <5>1 DEF Within
      <4> QED BY <4>1, <4>2 DEF Waiting
    <3>3. Within(m, queue) \/ Within(m, InFlight) => Within(m, queue \o batch \o InFlight)
      BY <2>3, <3>1, WithinJoined
    <3>4. Within(m, queue \o batch \o InFlight) => m \in Range(queue \o batch \o InFlight)
      <4>1. PICK q : q = queue \o batch \o InFlight
        OBVIOUS
      <4>2. Within(m, q) => m \in Range(q)
        BY DEF Within, Range
      <4> QED BY <4>1, <4>2
    <3> QED BY <2>6, <3>2, <3>3, <3>4 DEF Underway, Owned, Replied
  <2>7. ASSUME NEW c \in calls, c.msg = m PROVE c.id = id[m]
    BY <2>2, <2>7 DEF IdInv, Genuine
  <2> QED BY <2>2, <2>4, <2>5, <2>6, <2>7
<1> QED BY <1>1, ConnectionInvariant, PTL

-----------------------------------------------------------------------------
(* What holds of any connection *)

\* Where the router is told of a connection that is started and then lost, on_error tells
\* it so, or it closed the connection itself.
THEOREM ToldOfLossHolds == Spec => []ToldOfLoss
<1> USE DEF sockVars, peerVars, writeVars, readVars, callVars, msgVars
<1>1. Init => ToldOfLoss
  BY DEF Init, ToldOfLoss
<1>2. ToldOfLoss /\ [Next]_vars => ToldOfLoss'
  <2>1. SUFFICES ASSUME ToldOfLoss, [Next]_vars PROVE ToldOfLoss'
    OBVIOUS
  <2>2. ASSUME UNCHANGED <<running, forceClosed, up, started>> PROVE ToldOfLoss'
    BY <2>1, <2>2 DEF ToldOfLoss
  <2>3. ASSUME OnError, UNCHANGED <<forceClosed, started>> PROVE ToldOfLoss'
    BY <2>1, <2>3 DEF ToldOfLoss, OnError
  <2>4. ASSUME NEW m \in Msgs, Write(m) PROVE ToldOfLoss'
    BY <2>2, <2>4 DEF Write
  <2>16. ASSUME NEW m \in Msgs, Post(m) PROVE ToldOfLoss'
    BY <2>2, <2>16 DEF Post
  <2>17. ASSUME NEW k \in CallIds, PeerSends(k) PROVE ToldOfLoss'
    BY <2>2, <2>17 DEF PeerSends
  <2>5. CASE Close \/ AsyncConnect \/ ConnectEnds \/ ResetEarly \/ WriteEnds
    BY <2>2, <2>5 DEF Close, AsyncConnect, ConnectEnds, ResetEarly, WriteEnds
  <2>6. ASSUME NEW m \in Calls, PeerReplies(m) PROVE ToldOfLoss'
    BY <2>2, <2>6 DEF PeerReplies
  <2>7. ASSUME NEW i \in DOMAIN reads, ReadBreaks(i) PROVE ToldOfLoss'
    BY <2>2, <2>7 DEF ReadBreaks
  <2>8. ASSUME NEW i \in DOMAIN reads, NEW n \in 1 .. BuffMax, NEW k \in 0 .. Len(incoming), ReadEnds(i, n, k)
        PROVE  ToldOfLoss'
    BY <2>2, <2>8 DEF ReadEnds
  <2>9. ASSUME NEW times, Start(times) PROVE ToldOfLoss'
    BY <2>9 DEF Start, ToldOfLoss
  <2>10. CASE HandleConnect \/ Accept
    BY <2>9, <2>10 DEF HandleConnect, Accept
  <2>11. CASE HandleClose
    <3>1. CASE forceClosed
      BY <2>2, <2>11, <3>1 DEF HandleClose
    <3>2. CASE ~forceClosed
      BY <2>11, <3>2 DEF HandleClose, ToldOfLoss
    <3> QED BY <3>1, <3>2
  <2>12. CASE HandleWrite
    BY <2>2, <2>12 DEF HandleWrite
  <2>13. CASE HandleWrote
    BY <2>2, <2>3, <2>13 DEF HandleWrote
  <2>14. CASE HandleRead
    BY <2>2, <2>3, <2>14 DEF HandleRead
  <2>15. CASE UNCHANGED vars
    BY <2>2, <2>15 DEF vars
  <2> QED BY <2>1, <2>4, <2>5, <2>6, <2>7, <2>8, <2>10, <2>11, <2>12, <2>13, <2>14, <2>15,
             <2>16, <2>17 DEF Next, Handle
<1> QED BY <1>1, <1>2, PTL DEF Spec

=============================================================================
