------------------------------- MODULE RpcChannel -------------------------------
(***************************************************************************)
(* The client side of the rpc layer: async_rpc_channel and its connection, *)
(* the rpc context of a call, the container that matches replies to calls  *)
(* (network/rpc/net/async_rpc_channel.hpp, async_connection.hpp,           *)
(* async_rpc_context.hpp) and the tasks through which user threads make    *)
(* calls (rpc_task.hpp).                                                   *)
(*                                                                         *)
(* One thread runs the io_service of the channel, so a completion handler, *)
(* a posted function and a timer are one action each.  User threads make   *)
(* calls at any time; call_context and stop_rpc_service hold               *)
(* connect_mutex_ from beginning to end and are one action each.  The read *)
(* of status() that decides whether a call connects first is made without  *)
(* the mutex and is an action of its own.                                  *)
(*                                                                         *)
(* Closing the socket aborts the operations in flight; their handlers stay *)
(* queued (`stale') and run later, as the posted functions do, perhaps     *)
(* when the next connection has been begun (`crossed'): the socket is open *)
(* again, and they go on with what is the next one's.  The model follows   *)
(* them until a handler pops an empty list or a second read into the same  *)
(* header is begun (`corrupt'); nothing is said of what comes after that.  *)
(* Disconnect is called on the thread of the io_service.                   *)
(***************************************************************************)
EXTENDS Naturals, Sequences, FiniteSets

CONSTANTS
    Calls,         \* the calls (contexts)
    Sync,          \* those made with wait() or get(): the thread blocks
    Silent,        \* those with no callback at all: no reply is processed
    Timed,         \* those with a timeout
    Cancellable,   \* those the user may cancel
    Blocked,       \* those the before_send hook of the router may refuse
    ReplyKinds,    \* the replies the peer may give (see Reply)
    CallIds,       \* number of call ids before the counter wraps (2^32)
    MaxConnects,   \* bound: connection attempts
    MayFail        \* whether connections fail or are disconnected

ASSUME ChannelAssumption ==
    /\ Sync \subseteq Calls /\ Timed \subseteq Calls /\ Cancellable \subseteq Calls
    /\ Blocked \subseteq Calls
    /\ Silent \subseteq Calls \ (Sync \union Timed)
    /\ ReplyKinds \subseteq {"empty", "body", "fail", "huge"}
    /\ CallIds \in Nat \ {0}
    /\ MaxConnects \in Nat
    /\ MayFail \in BOOLEAN

VARIABLES
    status,    \* status_; "disconnecting" is seen only under connect_mutex_
    open,      \* connection_.socket().is_open()
    connOp,    \* the connect in flight: "none", "pending" or "ready" (succeeded,
               \* its handler queued); "failed" when nobody was told
    connFor,   \* the call whose on_success_/on_error_ callbacks are set: {} or {c}
    connects,  \* connection attempts so far
    crossed,   \* history: one was begun before what older ones left queued had run
    corrupt,   \* see above
    callList,  \* calls_.call_list_: accepted, not yet taken for sending
    toCalls,   \* to_calls_: taken for sending, the first one is being written
    stranded,  \* history: to_calls_ was last written to a closed socket
    callMap,   \* calls_.call_map_, as a set of pairs <<call id, call>>
    callId,    \* calls_.call_id_
    id,        \* head.call_id of each context
    triggers,  \* posted functions "if to_calls_ is empty, call_impl()"
    retries,   \* posted functions that retry after the before_send hook refused
    writes,    \* async_write operations in flight: [ctx, onWire]
    reading,   \* the async_read in flight: "none", "head" or "body"
    readMsg,   \* the reply whose body is being read: {} or {m}
    readCtx,   \* the context that body is read for: {} (none has its id) or {c}
    stale,     \* queued handlers of operations that failed with their socket closed
    armed,     \* contexts whose timer is running
    pc,        \* where the thread that makes each call is
    err,       \* ctx->err of each context
    result,    \* "none" while ~is_over, then what on_ok/on_error reported
    served,    \* requests the peer holds on the current connection: [id, ctx]
    replies,   \* replies on their way to the channel
    accepted,  \* history: the calls in the order call_context queued them
    sent,      \* history: the calls in the order their bytes left
    answer,    \* history: the call whose reply completed each call: {} or {d}
    dropped    \* history: calls taken from call_map_ whose body read failed

attempts == <<connects, crossed, corrupt>>
sending  == <<toCalls, stranded>>
callVars == <<callList, sending, callMap, callId, id>>
connVars == <<status, open, connOp, connFor, attempts>>
ioVars   == <<triggers, retries, writes, reading, readMsg, readCtx, stale,
              armed>>
peerVars == <<served, replies>>
vars == <<connVars, callVars, ioVars, pc, err, result, peerVars, accepted, sent,
          answer, dropped>>

Errors == {"none", "badconnect", "connect_fail", "repeat_connect", "timeout",
           "cancel", "remote_error", "be_disconnected", "invalid_header"}

Reply == [id : 0 .. CallIds - 1, ctx : Calls, kind : ReplyKinds]

StaleHandler == [op : {"send"}, ctx : Calls] \union
                [op : {"recv"}] \union [op : {"connect"}, ok : BOOLEAN]

TypeOK ==
    /\ status \in {"disconnected", "connecting", "connected"}
    /\ open \in BOOLEAN
    /\ crossed \in BOOLEAN /\ corrupt \in BOOLEAN /\ stranded \in BOOLEAN
    /\ connOp \in {"none", "pending", "ready", "failed"}
    /\ connFor \subseteq Calls
    /\ connects \in 0 .. MaxConnects
    /\ callList \in Seq(Calls) /\ toCalls \in Seq(Calls)
    /\ callMap \subseteq (0 .. CallIds - 1) \X Calls
    /\ callId \in 0 .. CallIds - 1
    /\ id \in [Calls -> 0 .. CallIds - 1]
    /\ triggers \in Nat /\ retries \in Nat
    /\ writes \in Seq([ctx : Calls, onWire : BOOLEAN])
    /\ reading \in {"none", "head", "body"}
    /\ readMsg \subseteq Reply /\ readCtx \subseteq Calls
    /\ stale \in Seq(StaleHandler)
    /\ armed \subseteq Calls
    /\ pc \in [Calls -> {"new", "connect", "connecting", "push", "issued",
                         "waiting", "returned", "threw"}]
    /\ err \in [Calls -> Errors]
    /\ result \in [Calls -> {"none", "ok", "error"}]
    /\ served \subseteq [id : 0 .. CallIds - 1, ctx : Calls]
    /\ replies \in Seq(Reply)
    /\ accepted \in Seq(Calls) /\ sent \in Seq(Calls)
    /\ answer \in [Calls -> SUBSET Calls]
    /\ dropped \subseteq Calls

Init ==
    /\ status = "disconnected" /\ open = FALSE
    /\ connOp = "none" /\ connFor = {} /\ connects = 0
    /\ crossed = FALSE /\ corrupt = FALSE /\ stranded = FALSE
    /\ callList = <<>> /\ toCalls = <<>> /\ callMap = {}
    /\ callId = 0 /\ id = [c \in Calls |-> 0]
    /\ triggers = 0 /\ retries = 0
    /\ writes = <<>> /\ reading = "none" /\ readMsg = {} /\ readCtx = {}
    /\ stale = <<>> /\ armed = {}
    /\ pc = [c \in Calls |-> "new"]
    /\ err = [c \in Calls |-> "none"] /\ result = [c \in Calls |-> "none"]
    /\ served = {} /\ replies = <<>>
    /\ accepted = <<>> /\ sent = <<>>
    /\ answer = [c \in Calls |-> {}] /\ dropped = {}

-----------------------------------------------------------------------------
(* The context of a call *)

\* Mutant: a second result is reported too (is_over not tested).
FailCallsAgain(C, e) ==
    /\ err' = [c \in Calls |-> IF c \in C THEN e ELSE err[c]]
    /\ result' = [c \in Calls |-> IF c \in C THEN "error" ELSE result[c]]

\* ctx->error(e): the error is stored even if the call is over, on_error and
\* the barrier are only told of the first result.
FailCalls(C, e) ==
    /\ err' = [c \in Calls |-> IF c \in C THEN e ELSE err[c]]
    /\ result' = [c \in Calls |-> IF c \in C /\ result[c] = "none" THEN "error"
                                                                 ELSE result[c]]

\* call_complete: ctx->ok() or ctx->error(remote_error), by the reply's code.  If
\* handle_send swaps the bytes of the code before the body has come, none of
\* result_code and error_code passes from one side of result_code::fail to the other.
Complete(c, m) ==
    /\ answer' = [answer EXCEPT ![c] = IF result[c] = "none" THEN {m.ctx} ELSE @]
    /\ IF m.kind = "fail"
       THEN FailCalls({c}, "remote_error")
       ELSE /\ result' = [result EXCEPT ![c] = IF @ = "none" THEN "ok" ELSE @]
            /\ UNCHANGED err

(* The container of calls *)

\* Mutant: call_id_ is not incremented.
StuckId == callId

NextId == (callId + 1) % CallIds

\* push_call: a context that processes a reply gets the next call id and is
\* emplaced in the map, which keeps an older entry of the same id.
PushCall(c) ==
    LET n == NextId IN
    /\ IF c \in Silent
       THEN UNCHANGED <<callId, id, callMap>>
       ELSE /\ callId' = n
            /\ id' = [id EXCEPT ![c] = n]
            /\ callMap' = IF \E d \in Calls : <<n, d>> \in callMap
                          THEN callMap ELSE callMap \union {<<n, c>>}
    /\ accepted' = Append(accepted, c)

InMap == {d \in Calls : \E n \in 0 .. CallIds - 1 : <<n, d>> \in callMap}

-----------------------------------------------------------------------------
(* Sending: call_impl and call_impl1 *)

\* The before_send hook is the user's: it may refuse a call and let it pass later.
MayRefuse(list) == SUBSET ({Head(list)} \intersect Blocked)

Written(list, refused) == {Head(list)} \ refused

\* Mutant: set_timeout is forgotten.
NoTimer(C) == {}

\* set_timeout: the contexts of C whose timer is started.
WithTimer(C) == C \intersect Timed

\* In the operators below w, r and q are the writes in flight, the posted retries
\* and the queued handlers that the running handler leaves behind.

\* call_impl1 on the front of list: the hook may refuse it, which fails the call
\* and posts a retry; otherwise the timer is started and the message written.  A
\* write on a closed socket fails at once.
CallImpl1(list, w, r, q) ==
    /\ toCalls' = list
    /\ \E refused \in MayRefuse(list) :
          LET go == Written(list, refused) IN
          /\ FailCalls(refused, "cancel")
          /\ retries' = r + Cardinality(refused)
          /\ armed' = armed \union WithTimer(go)
          /\ writes' = IF go # {} /\ open
                       THEN Append(w, [ctx |-> Head(list), onWire |-> FALSE]) ELSE w
          /\ stale' = IF go # {} /\ ~open
                      THEN Append(q, [op |-> "send", ctx |-> Head(list)]) ELSE q
          /\ stranded' = (go # {} /\ ~open)

\* call_impl: the whole of call_list_ replaces to_calls_, which is t.
CallImpl(t, w, r, q) ==
    IF callList = <<>>
    THEN /\ toCalls' = t /\ writes' = w /\ retries' = r /\ stale' = q
         /\ stranded' = (stranded /\ t # <<>>)
         /\ UNCHANGED <<callList, armed, err, result>>
    ELSE /\ callList' = <<>>
         /\ CallImpl1(callList, w, r, q)

\* handle_send and the retry go on with what is left of to_calls_.
SendOn(t, w, r, q) ==
    IF t = <<>> THEN CallImpl(t, w, r, q)
    ELSE CallImpl1(t, w, r, q) /\ UNCHANGED callList

\* Mutant: handle_send does not pop the front.
FrontKept == toCalls

FrontPopped == Tail(toCalls)

-----------------------------------------------------------------------------
(* stop_rpc_service *)

\* The handlers of the operations in flight, queued by a close.
AbortedSends == [i \in 1 .. Len(writes) |-> [op |-> "send", ctx |-> writes[i].ctx]]
AbortedRead == IF reading = "none" THEN <<>> ELSE <<[op |-> "recv"]>>
AbortedConnect ==
    IF connOp \in {"pending", "ready"}
    THEN <<[op |-> "connect", ok |-> connOp = "ready"]>> ELSE <<>>

\* Mutant: the calls of the map are not told.
ToldNone(also, lost) == also

ToldOnStop(also, lost) == (InMap \ lost) \union also

Stopped == "disconnected"

\* The operations in flight are aborted, to_calls_ is cleared, and every call of
\* the map is told, as are the calls of `also'.  call_list_ stays as it is, and
\* the calls of `lost', which have left the map, are told nothing.
StopService(e, also, lost, aborted) ==
    /\ status' = Stopped
    /\ open' = FALSE
    /\ connOp' = "none"
    /\ toCalls' = <<>> /\ stranded' = FALSE
    /\ callMap' = {}
    /\ writes' = <<>>
    /\ reading' = "none" /\ readMsg' = {} /\ readCtx' = {}
    /\ stale' = aborted
    /\ served' = {} /\ replies' = <<>>
    /\ FailCalls(ToldOnStop(also, lost), e)
    /\ dropped' = dropped \union {c \in lost : result[c] = "none"}

-----------------------------------------------------------------------------
(* User threads: rpc_task and connect_task *)

\* do_call_managed and do_call_and_wait look at status() without the mutex.
CallBegin(c) ==
    /\ pc[c] = "new"
    /\ pc' = [pc EXCEPT ![c] = IF status = "disconnected" THEN "connect" ELSE "push"]
    /\ UNCHANGED <<connVars, callVars, ioVars, err, result, peerVars, accepted, sent,
                   answer, dropped>>

\* The connections there were have left nothing behind.
Drained == stale = <<>> /\ triggers = 0 /\ retries = 0

\* async_rpc_channel::start(on_success, on_error) under connect_mutex_.  The callbacks
\* of an attempt whose handler has not run yet are replaced.
CallConnect(c) ==
    /\ pc[c] = "connect"
    /\ IF status # "disconnected"
       THEN /\ pc' = [pc EXCEPT ![c] = IF c \in Sync THEN "threw" ELSE "issued"]
            /\ FailCalls({c} \ (Sync \union Silent), "repeat_connect")
            /\ UNCHANGED connVars
       ELSE /\ connects < MaxConnects
            /\ status' = "connecting" /\ open' = TRUE
            /\ connOp' = "pending" /\ connFor' = {c}
            /\ connects' = connects + 1
            /\ crossed' = (crossed \/ ~Drained)
            /\ UNCHANGED corrupt
            /\ pc' = [pc EXCEPT ![c] = "connecting"]
            /\ UNCHANGED <<err, result>>
    /\ UNCHANGED <<callVars, ioVars, peerVars, accepted, sent, answer, dropped>>

\* Mutant: call_list_empty() is asked after the push.
PostsNever(list) == Append(list, 0) = <<>> /\ status = "connected"

PostsTrigger(list) == list = <<>> /\ status = "connected"

\* call_context: a function that starts the sending is posted for the first
\* call of an empty list; while connecting, the success handler will start it.
CallPush(c) ==
    /\ pc[c] = "push"
    /\ pc' = [pc EXCEPT ![c] = IF c \in Sync THEN "waiting" ELSE "issued"]
    /\ IF status = "disconnected"
       THEN /\ FailCalls({c}, "badconnect")
            /\ UNCHANGED <<callList, callMap, callId, id, triggers, accepted>>
       ELSE /\ PushCall(c)
            /\ callList' = Append(callList, c)
            /\ triggers' = IF PostsTrigger(callList) THEN triggers + 1 ELSE triggers
            /\ UNCHANGED <<err, result>>
    /\ UNCHANGED <<connVars, sending, retries, writes, reading, readMsg, readCtx,
                   stale, armed, peerVars, sent, answer, dropped>>

\* ctx->wait(): the barrier opens with the result, then err is looked at.
WaitReturn(c) ==
    /\ pc[c] = "waiting"
    /\ result[c] # "none"
    /\ pc' = [pc EXCEPT ![c] = IF err[c] = "none" THEN "returned" ELSE "threw"]
    /\ UNCHANGED <<connVars, callVars, ioVars, err, result, peerVars, accepted, sent,
                   answer, dropped>>

\* disconnect().
Disconnect ==
    /\ MayFail
    /\ StopService("be_disconnected", {}, readCtx,
                   stale \o AbortedRead \o AbortedSends \o AbortedConnect)
    /\ UNCHANGED <<connFor, attempts, callList, callId, id, triggers, retries, armed,
                   pc, accepted, sent, answer>>

\* Between call_impl1 and handle_send the header may be in network order (hton
\* does nothing unless big_endian() was set); a write to a closed socket leaves it so.
BeingWritten(c) ==
    \/ \E i \in DOMAIN writes : writes[i].ctx = c
    \/ stranded /\ Head(toCalls) = c

\* cancel(): the posted function.  The call may not be found under its id.
Cancel(c) ==
    /\ c \in Cancellable
    /\ pc[c] \in {"connecting", "push", "issued", "waiting"}
    /\ FailCalls({c}, "cancel")
    /\ \/ callMap' = {p \in callMap : p[1] # id[c]}
       \/ BeingWritten(c) /\ UNCHANGED callMap
    /\ UNCHANGED <<connVars, callList, sending, callId, id, ioVars, pc, peerVars,
                   accepted, sent, answer, dropped>>

-----------------------------------------------------------------------------
(* Connecting: async_connection::handle_connection *)

ConnectReady ==
    /\ connOp = "pending"
    /\ connOp' = "ready"
    /\ UNCHANGED <<status, open, connFor, attempts, callVars, ioVars, pc, err, result,
                   peerVars, accepted, sent, answer, dropped>>

\* The success handler: start_rpc_service, whatever status_ has become since;
\* then the call that asked for the connection goes on, without the mutex.
ConnectSucceeds(q) ==
    /\ status' = "connected"
    /\ CallImpl(toCalls, writes, retries,
                q \o IF open THEN <<>> ELSE <<[op |-> "recv"]>>)
    /\ reading' = IF open THEN "head" ELSE "none"
    /\ connFor' = {}
    /\ pc' = [c \in Calls |-> IF c \in connFor THEN "push" ELSE pc[c]]
    /\ UNCHANGED <<open, attempts, callMap, callId, id, triggers, readMsg, readCtx,
                   peerVars, accepted, sent, answer, dropped>>

\* The error handler: stop_rpc_service, and the call that asked is told.
ConnectFails(q) ==
    /\ StopService("connect_fail", connFor \ (Sync \union Silent), readCtx, q)
    /\ connFor' = {}
    /\ pc' = [c \in Calls |-> IF c \notin connFor THEN pc[c]
                              ELSE IF c \in Sync THEN "threw" ELSE "issued"]
    /\ UNCHANGED <<attempts, callList, callId, id, triggers, retries, armed, accepted,
                   sent, answer>>

\* handle_connection finds no callbacks: a handler of an older attempt has used them.
NobodyTold(c) ==
    /\ connFor = {}
    /\ connOp' = c
    /\ UNCHANGED <<status, open, connFor, attempts, callVars, ioVars, pc, err, result,
                   peerVars, accepted, sent, answer, dropped>>

HandleConnectOk ==
    /\ connOp = "ready"
    /\ \/ connFor # {} /\ connOp' = "none" /\ ConnectSucceeds(stale)
       \/ NobodyTold("none")

HandleConnectFail ==
    /\ MayFail
    /\ connOp = "pending"
    /\ \/ connFor # {} /\ ConnectFails(stale \o AbortedRead \o AbortedSends)
       \/ NobodyTold("failed")

-----------------------------------------------------------------------------
(* The next handler of an operation whose socket was closed *)

AbortedAll == AbortedRead \o AbortedSends \o AbortedConnect

\* handle_connection has the callbacks of the attempt that was begun last.
StaleConnect ==
    /\ stale # <<>> /\ Head(stale).op = "connect"
    /\ connFor # {}
    /\ IF Head(stale).ok
       THEN ConnectSucceeds(Tail(stale)) /\ UNCHANGED connOp
       ELSE ConnectFails(Tail(stale) \o AbortedAll)

\* The socket is closed, or there are no callbacks.
StaleReturns ==
    /\ stale # <<>>
    /\ IF Head(stale).op = "connect" THEN connFor = {} ELSE ~open
    /\ stale' = Tail(stale)
    /\ UNCHANGED <<connVars, callVars, triggers, retries, writes, reading, readMsg,
                   readCtx, armed, pc, err, result, peerVars, accepted, sent, answer,
                   dropped>>

\* The socket is that of a later connection: the error of the old one closes it.
StaleFails ==
    /\ stale # <<>> /\ open
    /\ \/ Head(stale).op = "recv"
       \/ Head(stale).op = "send" /\ toCalls # <<>>
    /\ StopService("badconnect", {}, readCtx, Tail(stale) \o AbortedAll)
    /\ UNCHANGED <<connFor, attempts, callList, callId, id, triggers, retries, armed,
                   pc, accepted, sent, answer>>

\* A write that had succeeded before the close: its handler pops a call of the later
\* connection and goes on.
StaleSent ==
    /\ stale # <<>> /\ open
    /\ Head(stale).op = "send" /\ toCalls # <<>>
    /\ SendOn(FrontPopped, writes, retries, Tail(stale))
    /\ UNCHANGED <<connVars, callMap, callId, id, triggers, reading, readMsg, readCtx,
                   pc, peerVars, accepted, sent, answer, dropped>>

RunStale == StaleConnect \/ StaleReturns \/ StaleFails \/ StaleSent

\* handle_send pops an empty list, or a read that had succeeded before the close
\* begins a second one.
Corrupts ==
    /\ \/ writes # <<>> /\ toCalls = <<>>
       \/ /\ stale # <<>> /\ open
          /\ \/ Head(stale).op = "recv"
             \/ Head(stale).op = "send" /\ toCalls = <<>>
    /\ corrupt' = TRUE
    /\ UNCHANGED <<status, open, connOp, connFor, connects, crossed, callVars, ioVars, pc,
                   err, result, peerVars, accepted, sent, answer, dropped>>

-----------------------------------------------------------------------------
(* Sending *)

\* The bytes of the message leave; the peer holds the request.
WriteReachesPeer ==
    /\ writes # <<>>
    /\ ~Head(writes).onWire
    /\ connOp \in {"none", "ready"}
    /\ LET c == Head(writes).ctx IN
       /\ writes' = [writes EXCEPT ![1].onWire = TRUE]
       /\ sent' = Append(sent, c)
       /\ served' = served \union {[id |-> id[c], ctx |-> c]}
    /\ UNCHANGED <<connVars, callVars, triggers, retries, reading, readMsg, readCtx,
                   stale, armed, pc, err, result, replies, accepted, answer, dropped>>

\* handle_send.
HandleSend ==
    /\ writes # <<>>
    /\ Head(writes).onWire
    /\ toCalls # <<>>
    /\ SendOn(FrontPopped, Tail(writes), retries, stale)
    /\ UNCHANGED <<connVars, callMap, callId, id, triggers, reading, readMsg, readCtx,
                   pc, peerVars, accepted, sent, answer, dropped>>

SendFails ==
    /\ MayFail
    /\ writes # <<>> /\ toCalls # <<>>
    /\ StopService("badconnect", {}, readCtx,
                   stale \o AbortedRead \o Tail(AbortedSends) \o AbortedConnect)
    /\ UNCHANGED <<connFor, attempts, callList, callId, id, triggers, retries, armed,
                   pc, accepted, sent, answer>>

\* Mutant: the posted function does not test to_calls_.
AlwaysIdle == TRUE

SenderIdle == toCalls = <<>>

\* The function call_context posts.
RunTrigger ==
    /\ triggers > 0
    /\ triggers' = triggers - 1
    /\ IF SenderIdle
       THEN CallImpl(toCalls, writes, retries, stale)
       ELSE UNCHANGED <<callList, sending, writes, retries, stale, armed, err, result>>
    /\ UNCHANGED <<connVars, callMap, callId, id, reading, readMsg, readCtx, pc,
                   peerVars, accepted, sent, answer, dropped>>

\* The function call_impl1 posts when the hook refuses.
RunRetry ==
    /\ retries > 0
    /\ SendOn(toCalls, writes, retries - 1, stale)
    /\ UNCHANGED <<connVars, callMap, callId, id, triggers, reading, readMsg, readCtx,
                   pc, peerVars, accepted, sent, answer, dropped>>

-----------------------------------------------------------------------------
(* Receiving *)

\* The peer answers what it holds in any order.
ServerReply(m) ==
    /\ [id |-> m.id, ctx |-> m.ctx] \in served
    /\ served' = served \ {[id |-> m.id, ctx |-> m.ctx]}
    /\ replies' = Append(replies, m)
    /\ UNCHANGED <<connVars, callVars, ioVars, pc, err, result, accepted, sent,
                   answer, dropped>>

\* Mutant: the id is looked up in the wrong byte order.
MatchingSwapped(n) == {c \in Calls : <<n + CallIds, c>> \in callMap}

\* get_call_from_map.
Matching(n) == {c \in Calls : <<n, c>> \in callMap}

\* handle_recv_head and recv_body.  The context leaves the map before the body is
\* read.  A reply without a context is treated as a request of the peer.
HandleRecvHead ==
    /\ reading = "head"
    /\ replies # <<>>
    /\ LET m == Head(replies)
           C == Matching(m.id) IN
       \/ /\ m.kind \in {"empty", "fail"}
          /\ replies' = Tail(replies)
          /\ callMap' = callMap \ ({m.id} \X C)
          /\ IF C = {} THEN UNCHANGED <<answer, err, result>>
                       ELSE \E c \in C : Complete(c, m)
          /\ UNCHANGED <<status, open, connOp, sending, writes, reading, readMsg,
                         readCtx, stale, served, dropped>>
       \/ /\ m.kind = "body"
          /\ replies' = Tail(replies)
          /\ callMap' = callMap \ ({m.id} \X C)
          /\ reading' = "body" /\ readMsg' = {m} /\ readCtx' = C
          /\ UNCHANGED <<status, open, connOp, sending, writes, stale, served, answer,
                         err, result, dropped>>
       \/ /\ m.kind = "huge"
          /\ StopService("invalid_header", {}, C, stale \o AbortedSends \o AbortedConnect)
          /\ UNCHANGED answer
    /\ UNCHANGED <<connFor, attempts, callList, callId, id, triggers, retries, armed,
                   pc, accepted, sent>>

\* handle_recv_body, with a context or for a request.
HandleRecvBody ==
    /\ reading = "body"
    /\ reading' = "head" /\ readMsg' = {} /\ readCtx' = {}
    /\ IF readCtx = {} THEN UNCHANGED <<answer, err, result>>
       ELSE \E c \in readCtx, m \in readMsg : Complete(c, m)
    /\ UNCHANGED <<connVars, callVars, triggers, retries, writes, stale, armed, pc,
                   peerVars, accepted, sent, dropped>>

\* Either read fails: the peer closed or the connection is lost.
RecvFails ==
    /\ MayFail
    /\ reading # "none"
    /\ StopService("badconnect", {}, readCtx, stale \o AbortedSends \o AbortedConnect)
    /\ UNCHANGED <<connFor, attempts, callList, callId, id, triggers, retries, armed,
                   pc, accepted, sent, answer>>

\* handle_timeout: nothing stops the timer of a call that is over.
Timeout(c) ==
    /\ c \in armed
    /\ armed' = armed \ {c}
    /\ FailCalls({c}, "timeout")
    /\ UNCHANGED <<connVars, callVars, triggers, retries, writes, reading, readMsg,
                   readCtx, stale, pc, peerVars, accepted, sent, answer, dropped>>

-----------------------------------------------------------------------------
CallStep(c) ==
    CallBegin(c) \/ CallConnect(c) \/ CallPush(c) \/ WaitReturn(c)

PeerReplies == \E m \in Reply : ServerReply(m)

Step ==
    \/ \E c \in Calls : CallStep(c)
    \/ \E c \in Calls : Cancel(c)
    \/ \E c \in Calls : Timeout(c)
    \/ Disconnect
    \/ ConnectReady \/ HandleConnectOk \/ HandleConnectFail \/ RunStale
    \/ WriteReachesPeer \/ HandleSend \/ SendFails \/ RunTrigger \/ RunRetry
    \/ PeerReplies
    \/ HandleRecvHead \/ HandleRecvBody \/ RecvFails
    \/ Corrupts

Next == ~corrupt /\ Step

Spec == Init /\ [][Next]_vars

\* Every queued handler and posted function is run, timers expire, and a thread
\* that makes a call goes on with it.  Nothing is assumed of Disconnect, Cancel,
\* failures or the answers of the peer.
Fairness ==
    /\ \A c \in Calls :
          WF_vars(CallConnect(c) \/ CallPush(c) \/ WaitReturn(c)) /\ WF_vars(Timeout(c))
    /\ WF_vars(ConnectReady) /\ WF_vars(HandleConnectOk) /\ WF_vars(RunStale)
    /\ WF_vars(WriteReachesPeer) /\ WF_vars(HandleSend)
    /\ WF_vars(RunTrigger) /\ WF_vars(RunRetry)
    /\ WF_vars(HandleRecvHead) /\ WF_vars(HandleRecvBody)

FairSpec == Spec /\ Fairness

-----------------------------------------------------------------------------
(* Properties *)

\* The reply that completes a call is the reply to that call, whatever order the
\* peer answers in and whatever connection the call was written to; a thread only
\* leaves wait() without an exception when its own reply arrived.
AnswersMatch ==
    \A c \in Calls : /\ answer[c] \subseteq {c}
                     /\ pc[c] = "returned" => answer[c] = {c}

\* Requests leave in the order call_context queued them and each at most once, across
\* lost connections too (call_list_ outlives its connection), until a connection is
\* begun with handlers or posted functions of an older one still queued.
SendsInOrder ==
    crossed \/ \A i, j \in DOMAIN sent :
        i < j => \E p, q \in DOMAIN accepted :
                    p < q /\ accepted[p] = sent[i] /\ accepted[q] = sent[j]

\* At most one async_write is in flight, and it writes the front of to_calls_,
\* which handle_send pops: no two messages mix and no other call is popped, until a
\* connection is begun with handlers or posted functions of an older one queued.
SingleWrite ==
    crossed \/ (writes # <<>> => /\ Len(writes) = 1
                                 /\ toCalls # <<>>
                                 /\ Head(writes).ctx = Head(toCalls))

\* On a connected channel a queued call has someone who sends it: the handler of a
\* write in flight, a posted retry, or a posted function that finds to_calls_ empty;
\* unless to_calls_ was written to a closed socket, whose handlers pop nothing.
QueueHasSender ==
    status = "connected" /\ callList # <<>> =>
        \/ writes # <<>> \/ retries > 0
        \/ triggers > 0 /\ toCalls = <<>>
        \/ stranded

\* A call that awaits a reply can still be told: its context is in the map, its
\* body is being read, or it is one of those the body read lost.  None waits on a
\* channel that is disconnected.
WaitingCallsTracked ==
    \A i \in DOMAIN accepted :
        LET c == accepted[i] IN
        c \notin Silent /\ result[c] = "none" =>
            \/ c \in dropped
            \/ status # "disconnected" /\ c \in InMap \union readCtx

\* The channel implements the abstract rpc service.
Service == INSTANCE RpcService WITH
    issued    <- {c \in Calls : pc[c] # "new"},
    delivered <- {sent[i] : i \in DOMAIN sent}

ImplementsService == Service!Spec

\* What a caller that expects an answer gets: a result, or an exception.
Settled(c) == result[c] # "none" \/ pc[c] = "threw"

\* While the connection holds and no hook refuses, a call with a timeout ends
\* even if the peer never answers: its timer starts when it is written, so the
\* calls before it must not hold up the sending.
TimedCallsEnd == \A c \in Timed : (pc[c] # "new") ~> Settled(c)

\* If the peer answers too, every call that expects an answer ends, and a thread
\* blocked in wait() leaves it.
CallsEnd ==
    WF_vars(PeerReplies) =>
        \A c \in Calls \ Silent :
            (pc[c] # "new") ~> (Settled(c) /\ pc[c] # "waiting")

=============================================================================
