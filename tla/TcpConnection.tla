----------------------------- MODULE TcpConnection ------------------------------
(***************************************************************************)
(* tcp_connection: connecting, writing, awaiting replies, closing and      *)
(* connecting again (network/net/tcp_connect.hpp).  How the bytes that are *)
(* read are cut into messages is the module ConnectionReader; here a read  *)
(* has a place in the buffer and a length.                                 *)
(*                                                                         *)
(* One thread runs the io_service of a connection.  `ready' is its queue:  *)
(* the functions that were posted and the handlers of the operations that  *)
(* have ended.  An operation that is cut off by a close of the socket ends *)
(* with an error.  A message written with others in one batch_msg is in    *)
(* flight with them; a message alone stays at the front of the queue.      *)
(***************************************************************************)
EXTENDS Integers, Sequences, FiniteSets, SequencesExt

CONSTANTS
    Msgs,         \* the messages, each given to write or await_write once
    Calls,        \* those given to await_write
    Request,      \* a message of the peer that is not the reply to a call
    CallIds,      \* the call_ids that users and the peer put in messages themselves
    BatchSend,    \* options_.batch_send_msg
    BuffMax,      \* CLIENT_MSG_BUFF_MAX
    MaxConnects,  \* bound: connections
    MaxIncoming,  \* bound: messages of the peer on their way when it sends a Request
    RouterStarts, \* whether on_connect of the router calls start()
    Impatient     \* whether async_connect is called during an attempt to connect

ASSUME ConnectionAssumption ==
    /\ Calls \subseteq Msgs /\ Request \notin Msgs
    /\ CallIds \subseteq Nat \ {0} /\ MaxIncoming \in Nat
    /\ BuffMax \in Nat \ {0} /\ MaxConnects \in Nat
    /\ BatchSend \in BOOLEAN /\ RouterStarts \in BOOLEAN /\ Impatient \in BOOLEAN

VARIABLES
    running,      \* is_running_
    forceClosed,  \* force_close_error_
    sock,         \* socket_: "closed", "connecting" or "connected"
    connects,     \* connections so far, accepted or tried with async_connect
    queue,        \* write_msg_queue_
    batch,        \* batch_msg_ptr_, <<>> for nullptr
    writing,      \* the async_writes in flight, the messages of each
    reads,        \* the async_reads in flight, the place of each in the buffer
    remainLen,    \* remain_len_ of the reader
    outOfStep,    \* history: reader_.reset() has dropped bytes in the middle of a message
    ready,        \* see above
    callId,       \* cur_call_id_
    id,           \* call_id of the messages
    keyed,        \* history: the calls that came with a call_id
    calls,        \* calls_, as a set of [id, msg]
    status,       \* "new", "refused", "tested", "given" to the io_service or "answered"
    givenTo,      \* history: the number of the last connection when a message was posted
    answer,       \* what an await_write returned: the call it is the reply to, or Request
    served,       \* the calls the peer has received and not replied to
    incoming,     \* messages with a call_id on their way, as [id, msg]
    up,           \* what the router was told last: TRUE by on_connect without an error
    started,      \* the result of the last start()
    accepted,     \* history: what do_write has put in the queue since start()
    wire          \* history: what has been written on this socket

peerVars == <<served, incoming>>
sockVars == <<sock, connects, peerVars>>
writeVars == <<queue, batch, accepted>>
readVars == <<reads, remainLen, outOfStep>>
callVars == <<callId, id, keyed, calls>>
msgVars == <<status, givenTo, answer>>
vars == <<running, forceClosed, sockVars, writeVars, writing, wire, readVars, ready,
          callVars, msgVars, up, started>>

Ids == 1 .. Cardinality(Calls) \union CallIds
Entry == [id : Ids, msg : Calls]
Reply == [id : Ids, msg : Calls \union {Request}]

\* Posted functions and handlers; each uses the fields that it needs.
Handler ==
    [op : {"close"}]
      \union [op : {"write", "await"}, msg : Msgs]
      \union [op : {"connect"}, ok : BOOLEAN]
      \union [op : {"wrote"}, ok : BOOLEAN, msgs : Seq(Msgs)]
      \union [op : {"read"}, ok : BOOLEAN, len : 0 .. BuffMax, replies : Seq(Reply)]

TypeOK ==
    /\ running \in BOOLEAN /\ forceClosed \in BOOLEAN
    /\ up \in BOOLEAN /\ started \in BOOLEAN /\ outOfStep \in BOOLEAN
    /\ sock \in {"closed", "connecting", "connected"}
    /\ connects \in 0 .. MaxConnects
    /\ queue \in Seq(Msgs) /\ batch \in Seq(Msgs) /\ writing \in Seq(Seq(Msgs))
    /\ accepted \in Seq(Msgs) /\ wire \in Seq(Msgs)
    /\ remainLen \in 0 .. BuffMax - 1 /\ reads \in Seq(0 .. BuffMax - 1)
    /\ ready \in Seq(Handler)
    /\ callId \in 0 .. Cardinality(Calls) /\ id \in [Calls -> {0} \union Ids]
    /\ keyed \subseteq Calls /\ calls \subseteq Entry
    /\ status \in [Msgs -> {"new", "refused", "tested", "given", "answered"}]
    /\ givenTo \in [Msgs -> 0 .. MaxConnects]
    /\ answer \in [Calls -> SUBSET (Calls \union {Request})]
    /\ served \subseteq Calls /\ incoming \in Seq(Reply)

Init ==
    /\ running = FALSE /\ forceClosed = FALSE /\ up = FALSE /\ started = FALSE
    /\ sock = "closed" /\ connects = 0
    /\ queue = <<>> /\ batch = <<>> /\ writing = <<>> /\ accepted = <<>> /\ wire = <<>>
    /\ remainLen = 0 /\ reads = <<>> /\ outOfStep = FALSE
    /\ ready = <<>>
    /\ callId = 0 /\ id = [m \in Calls |-> 0] /\ keyed = {} /\ calls = {}
    /\ status = [m \in Msgs |-> "new"] /\ givenTo = [m \in Msgs |-> 0]
    /\ answer = [m \in Calls |-> {}]
    /\ served = {} /\ incoming = <<>>

-----------------------------------------------------------------------------
(* Calls of the user *)

\* write and await_write, on any thread, look at is_running_ ...
Write(m) ==
    /\ status[m] = "new"
    /\ status' = [status EXCEPT ![m] = IF running THEN "tested" ELSE "refused"]
    /\ UNCHANGED <<running, forceClosed, sockVars, writeVars, writing, wire, readVars, ready,
                   callVars, givenTo, answer, up, started>>

\* ... and post, whatever has become of the connection since.
Post(m) ==
    /\ status[m] = "tested"
    /\ status' = [status EXCEPT ![m] = "given"]
    /\ givenTo' = [givenTo EXCEPT ![m] = connects]
    /\ ready' = Append(ready, [op |-> IF m \in Calls THEN "await" ELSE "write", msg |-> m])
    /\ IF m \in Calls
       THEN \E k \in {0} \union CallIds :
               /\ id' = [id EXCEPT ![m] = k]
               /\ keyed' = IF k = 0 THEN keyed ELSE keyed \union {m}
       ELSE UNCHANGED <<id, keyed>>
    /\ UNCHANGED <<running, forceClosed, sockVars, writeVars, writing, wire, readVars,
                   callId, calls, answer, up, started>>

\* close.  Bound: one posted do_close at a time.
Close ==
    /\ ~forceClosed
    /\ \A i \in DOMAIN ready : ready[i].op # "close"
    /\ ready' = Append(ready, [op |-> "close"])
    /\ UNCHANGED <<running, forceClosed, sockVars, writeVars, writing, wire, readVars,
                   callVars, msgVars, up, started>>

BrokenRead == [op |-> "read", ok |-> FALSE, len |-> 0, replies |-> <<>>]

\* The socket is closed: what is in flight ends with an error, behind the handlers r.
CloseSocket(r) ==
    /\ ready' = r \o (IF sock = "connecting" THEN <<[op |-> "connect", ok |-> FALSE]>>
                                             ELSE <<>>)
                  \o [i \in DOMAIN writing |->
                         [op |-> "wrote", ok |-> FALSE, msgs |-> writing[i]]]
                  \o [i \in DOMAIN reads |-> BrokenRead]
    /\ writing' = <<>> /\ reads' = <<>> /\ served' = {} /\ incoming' = <<>>

Connecting == sock = "connecting" \/ \E i \in DOMAIN ready : ready[i].op = "connect"

\* async_connect, called on the thread of the connection.
AsyncConnect ==
    /\ ~running
    /\ connects < MaxConnects
    /\ Impatient \/ ~Connecting
    /\ CloseSocket(ready)
    /\ sock' = "connecting"
    /\ connects' = connects + 1
    /\ wire' = <<>>
    /\ UNCHANGED <<running, forceClosed, writeVars, remainLen, outOfStep, callVars, msgVars,
                   up, started>>

-----------------------------------------------------------------------------
(* The network and the peer *)

ConnectEnds ==
    /\ sock = "connecting"
    /\ \E ok \in BOOLEAN :
          /\ sock' = IF ok THEN "connected" ELSE "closed"
          /\ ready' = Append(ready, [op |-> "connect", ok |-> ok])
    /\ UNCHANGED <<running, forceClosed, connects, peerVars, writeVars, writing, wire,
                   readVars, callVars, msgVars, up, started>>

\* The peer resets a connection before its handler has run: it has no remote endpoint.
ResetEarly ==
    /\ sock = "connected"
    /\ \E i \in DOMAIN ready : ready[i].op = "connect" /\ ready[i].ok
    /\ sock' = "closed"
    /\ UNCHANGED <<running, forceClosed, connects, peerVars, writeVars, writing, wire,
                   readVars, ready, callVars, msgVars, up, started>>

WriteEnds ==
    /\ writing # <<>>
    /\ writing' = Tail(writing)
    /\ \E ok \in BOOLEAN :
          /\ ready' = Append(ready, [op |-> "wrote", ok |-> ok, msgs |-> Head(writing)])
          /\ wire' = IF ok THEN wire \o Head(writing) ELSE wire
          /\ served' = IF ok THEN served \union (Range(Head(writing)) \intersect Calls)
                       ELSE served
    /\ UNCHANGED <<running, forceClosed, sock, connects, incoming, writeVars, readVars,
                   callVars, msgVars, up, started>>

\* The peer replies to a call it has received.
PeerReplies(m) ==
    /\ m \in served
    /\ served' = served \ {m}
    /\ incoming' = Append(incoming, [id |-> id[m], msg |-> m])
    /\ UNCHANGED <<running, forceClosed, sock, connects, writeVars, writing, wire,
                   readVars, ready, callVars, msgVars, up, started>>

\* It sends a message of its own, with a call_id that may be one of ours: it numbers
\* its calls from 1 too, and the center forwards those of others as they are.
PeerSends(k) ==
    /\ sock = "connected"
    /\ Len(incoming) < MaxIncoming
    /\ incoming' = Append(incoming, [id |-> k, msg |-> Request])
    /\ UNCHANGED <<running, forceClosed, sock, connects, served, writeVars, writing, wire,
                   readVars, ready, callVars, msgVars, up, started>>

\* Read i ends with n bytes; they hold the first k of these and other messages.
ReadEnds(i, n, k) ==
    /\ n <= BuffMax - reads[i]
    /\ k <= Len(incoming)
    /\ reads' = RemoveAt(reads, i)
    /\ ready' = Append(ready, [op |-> "read", ok |-> TRUE, len |-> n,
                               replies |-> SubSeq(incoming, 1, k)])
    /\ incoming' = SubSeq(incoming, k + 1, Len(incoming))
    /\ UNCHANGED <<running, forceClosed, sock, connects, served, writeVars, writing, wire,
                   remainLen, outOfStep, callVars, msgVars, up, started>>

ReadBreaks(i) ==
    /\ reads' = RemoveAt(reads, i)
    /\ ready' = Append(ready, BrokenRead)
    /\ UNCHANGED <<running, forceClosed, sockVars, writeVars, writing, wire, remainLen,
                   outOfStep, callVars, msgVars, up, started>>

-----------------------------------------------------------------------------
(* The handlers *)

Runs(op) == ready # <<>> /\ Head(ready).op = op

\* Mutant: the router is not told.
SilentError == running' = FALSE /\ UNCHANGED up

\* on_error: the socket stays open, and nobody is told of the calls.
OnError ==
    /\ running' = FALSE
    /\ up' = IF running THEN FALSE ELSE up

\* async_write_msg when write_msg_queue_ is q and batch_msg_ptr_ is null or b.  A
\* batch_msg has no limit, so that it takes the whole queue.
AsyncWrite(q, b) ==
    IF q = <<>>
    THEN queue' = q /\ batch' = b /\ UNCHANGED writing
    ELSE IF ~BatchSend \/ Len(q) = 1
    THEN queue' = q /\ batch' = b /\ writing' = Append(writing, <<Head(q)>>)
    ELSE queue' = <<>> /\ batch' = q /\ writing' = Append(writing, q)

\* Mutant: the queue is not cleared.
NotCleared == queue

\* reset_state.
Cleared == <<>>

\* start, called `times' times: reset_state and start_read, if the socket has a remote
\* endpoint.  The result is not looked at.
Start(times) ==
    /\ started' = (sock' = "connected")
    /\ IF sock' = "connected"
       THEN /\ running' = TRUE /\ forceClosed' = FALSE
            /\ queue' = Cleared /\ batch' = <<>> /\ accepted' = <<>>
            /\ remainLen' = 0 /\ outOfStep' = FALSE
            /\ reads' = reads \o [i \in 1 .. times |-> 0]
       ELSE UNCHANGED <<running, forceClosed, writeVars, readVars>>

\* handle_connect: the router may start once more when it is told of the connection.
HandleConnect ==
    /\ Runs("connect")
    /\ UNCHANGED sockVars
    /\ Start(IF RouterStarts /\ Head(ready).ok THEN 2 ELSE 1)
    /\ up' = Head(ready).ok
    /\ ready' = Tail(ready)
    /\ UNCHANGED <<writing, wire, callVars, msgVars>>

\* The handler of async_accept in tcp_server: the router is told, then the connection
\* is started, if the peer is still there.
Accept ==
    /\ connects = 0 /\ connects < MaxConnects
    /\ connects' = 1
    /\ sock' \in {"closed", "connected"}
    /\ Start(1)
    /\ up' = TRUE
    /\ UNCHANGED <<peerVars, writing, wire, ready, callVars, msgVars>>

\* do_close.
HandleClose ==
    /\ Runs("close")
    /\ IF forceClosed
       THEN /\ ready' = Tail(ready)
            /\ UNCHANGED <<running, forceClosed, sock, peerVars, queue, writing, reads>>
       ELSE /\ CloseSocket(Tail(ready))
            /\ sock' = "closed"
            /\ queue' = <<>>
            /\ forceClosed' = TRUE /\ running' = FALSE
    /\ UNCHANGED <<connects, batch, accepted, wire, remainLen, outOfStep, callVars, msgVars,
                   up, started>>

\* Mutant: only the batch is looked at.
BatchOnly == batch # <<>>

WriteInProgress == ~(queue = <<>> /\ batch = <<>>)

DoWrite(m) ==
    /\ accepted' = Append(accepted, m)
    /\ IF WriteInProgress
       THEN queue' = Append(queue, m) /\ UNCHANGED <<batch, writing>>
       ELSE AsyncWrite(Append(queue, m), batch)

\* Mutant: every call has the same id.
SameId == 1

NextCallId == callId + 1

\* A message that has a call_id keeps it.
CallIdOf(m) == IF id[m] > 0 THEN id[m] ELSE NextCallId

\* calls_.emplace keeps the entry that is there.
Emplaced(c) == IF \E d \in calls : d.id = c.id THEN calls ELSE calls \union {c}

\* do_write and do_await_write.  A message of a connection that has ended is dropped.
HandleWrite ==
    /\ Runs("write") \/ Runs("await")
    /\ LET m == Head(ready).msg IN
       IF running
       THEN /\ DoWrite(m)
            /\ IF Runs("await")
               THEN /\ callId' = IF id[m] > 0 THEN callId ELSE NextCallId
                    /\ id' = [id EXCEPT ![m] = CallIdOf(m)]
                    /\ calls' = Emplaced([id |-> CallIdOf(m), msg |-> m])
               ELSE UNCHANGED <<callId, id, calls>>
       ELSE UNCHANGED <<writeVars, writing, callId, id, calls>>
    /\ ready' = Tail(ready)
    /\ UNCHANGED <<running, forceClosed, sockVars, wire, readVars, keyed, msgVars, up, started>>

\* Mutant: the message that was written stays in the queue.
FrontKept == queue

\* pop_front; of an empty queue it is undefined.
FrontPopped == SubSeq(queue, 2, Len(queue))

\* handle_write and handle_write_batch.
HandleWrote ==
    /\ Runs("wrote")
    /\ IF ~running
       THEN UNCHANGED <<running, up, queue, batch, writing>>
       ELSE IF ~Head(ready).ok
       THEN OnError /\ UNCHANGED <<queue, batch, writing>>
       ELSE /\ IF Len(Head(ready).msgs) = 1 THEN AsyncWrite(FrontPopped, batch)
                                            ELSE AsyncWrite(queue, <<>>)
            /\ UNCHANGED <<running, up>>
    /\ ready' = Tail(ready)
    /\ UNCHANGED <<forceClosed, sockVars, accepted, wire, readVars, callVars, msgVars,
                   started>>

\* Mutant: only the first message is looked at.
AnsweredFirst(r) == {c \in calls : r # <<>> /\ r[1].id = c.id}

\* on_receive_msgs: the calls that the messages r complete, whoever sent them.
Answered(r) == {c \in calls : \E i \in DOMAIN r : r[i].id = c.id}

\* Mutant: reading is not resumed.
NoRead(left) == reads

\* async_sequence_read.
NextRead(left) == IF running THEN Append(reads, left) ELSE reads

\* on_receive_msgs is given the messages r with a call_id, and others.
OnReceiveMsgs(r) ==
    LET done == Answered(r) IN
    /\ calls' = calls \ done
    /\ status' = [m \in Msgs |-> IF \E c \in done : c.msg = m THEN "answered" ELSE status[m]]
    /\ answer' = [m \in Calls |-> answer[m] \union
                    {r[i].msg : i \in {j \in DOMAIN r :
                                          \E c \in done : c.msg = m /\ c.id = r[j].id}}]

\* handle_sequence_read.  What the bytes hold, and how much of them is left over, is up
\* to the peer.  A header that announces too much is an error when it comes first;
\* behind whole messages it makes the reader drop these and its rest, and the bytes
\* that follow are cut at the wrong places, so that messages may not be found.
HandleRead ==
    /\ Runs("read")
    /\ LET h == Head(ready) IN
       \/ /\ OnError
          /\ UNCHANGED <<readVars, calls, status, answer>>
       \/ /\ h.ok
          /\ \E r \in {h.replies} \union (IF outOfStep THEN {<<>>} ELSE {}) : OnReceiveMsgs(r)
          /\ \E left \in 0 .. BuffMax - 1 :
                /\ left < remainLen + h.len
                /\ remainLen' = left
                /\ reads' = NextRead(left)
          /\ UNCHANGED <<running, up, outOfStep>>
       \/ /\ h.ok
          /\ remainLen' = 0 /\ outOfStep' = TRUE
          /\ reads' = NextRead(0)
          /\ UNCHANGED <<running, up, calls, status, answer>>
    /\ ready' = Tail(ready)
    /\ UNCHANGED <<forceClosed, sockVars, writeVars, writing, wire, callId, id, keyed,
                   givenTo, started>>

-----------------------------------------------------------------------------
Handle == HandleConnect \/ HandleClose \/ HandleWrite \/ HandleWrote \/ HandleRead

Next ==
    \/ \E m \in Msgs : Write(m) \/ Post(m)
    \/ Close \/ AsyncConnect \/ Accept
    \/ ConnectEnds \/ ResetEarly \/ WriteEnds
    \/ \E m \in Calls : PeerReplies(m)
    \/ \E k \in CallIds : PeerSends(k)
    \/ \E i \in DOMAIN reads :
          \/ \E n \in 1 .. BuffMax, k \in 0 .. Len(incoming) : ReadEnds(i, n, k)
          \/ ReadBreaks(i)
    \/ Handle

Spec == Init /\ [][Next]_vars

-----------------------------------------------------------------------------
(* Properties *)

\* The operations of this kind that have ended, and whose handler has not run yet.
Ended(op) == {i \in DOMAIN ready : ready[i].op = op}

\* While the connection runs there is one async_write at a time, there is one as long
\* as there is something to write, and it is of the batch or of the front of the queue:
\* handle_write never pops another message, nor an empty queue.
Current == IF batch # <<>> THEN batch ELSE IF queue # <<>> THEN <<Head(queue)>> ELSE <<>>
WriterMatches ==
    running =>
        /\ Len(writing) + Cardinality(Ended("wrote")) = IF Current = <<>> THEN 0 ELSE 1
        /\ \A i \in DOMAIN writing : writing[i] = Current
        /\ \A i \in Ended("wrote") : ready[i].msgs = Current

\* What is on the wire, what is being written and what waits is what do_write was given,
\* in that order, none lost and none twice.
InFlight == IF writing = <<>> THEN <<>> ELSE Head(writing)
Waiting == IF batch = <<>> /\ queue # <<>> THEN Tail(queue) ELSE queue
WireInOrder ==
    running /\ (\A i \in Ended("wrote") : ready[i].ok) => accepted = wire \o InFlight \o Waiting

\* A message posted to one connection is not sent on the next, although do_write looks
\* at is_running_ only, which is the next one's by then.  (A thread that saw is_running_
\* before a loss and posts when the next attempt has begun posts to that one.)
NotOnNextConnection ==
    running => \A m \in Range(queue \o batch \o wire) : givenTo[m] = connects

\* A running connection always has one read in flight or ended, so that it neither
\* stops to receive nor reads twice into the same buffer.
OneRead == running => Len(reads) + Cardinality(Ended("read")) = 1

\* assert(data_len <= CLIENT_MSG_BUFF_MAX) of completion_condition: a read that
\* fills its part of the buffer ends within it.
ReaderAssert ==
    /\ \A i \in DOMAIN reads : remainLen <= reads[i]
    /\ \A i \in Ended("read") : remainLen + ready[i].len <= BuffMax

\* The router hears of every loss of a connection it was told of, unless it closed the
\* connection, or the connection was over before start().
ToldOfLoss == up /\ started /\ ~running => forceClosed

\* The call m and another have the same call_id: one of them came with it.
Shared(m, n) == id[m] = id[n] /\ {m, n} \intersect keyed # {}

\* An await_write returns the reply to its own message and to no other, unless one of
\* the two came with the other's call_id, or a message of the peer that carries its
\* call_id and is no reply to any of ours.
AwaitMatches ==
    \A m \in Calls : \A n \in answer[m] : n \in {m, Request} \/ Shared(m, n)

\* An await_write whose message do_await_write has accepted can still return as long as
\* the connection runs and its reader is in step: its handler is in calls_ under the id
\* of its message, which waits, is being written or is with the peer, or the reply is on
\* its way or in a read whose handler has not run; unless another call has its id.
InHandler(m) ==
    \E i \in DOMAIN ready :
        \/ ready[i].op = "read" /\ (ready[i].ok =>
              \E j \in DOMAIN ready[i].replies : ready[i].replies[j].msg = m)
        \/ ready[i].op = "wrote" /\ ~ready[i].ok
Owned(m) ==
    \/ m \in Range(queue \o batch \o InFlight) \union served
    \/ \E i \in DOMAIN incoming : incoming[i].msg = m
AwaitTracked ==
    \A m \in Calls :
        running /\ ~outOfStep /\ status[m] = "given" /\ m \in Range(accepted) =>
            \/ /\ Owned(m) \/ InHandler(m)
               /\ \E c \in calls : c.msg = m /\ c.id = id[m]
            \/ \E n \in Calls \ {m} : Shared(m, n)

=============================================================================
