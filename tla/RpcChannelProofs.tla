---------------------------- MODULE RpcChannelProofs ----------------------------
(***************************************************************************)
(* Proofs about async_rpc_channel, for any calls, hooks, replies and any   *)
(* number of connections.  What is said of the ids, the replies, the       *)
(* results and the senders of the queue holds in every state; what is said *)
(* of the one write and of the order of the requests holds until start()   *)
(* is called with handlers or posted functions of an older connection      *)
(* still queued (`crossed').                                               *)
(***************************************************************************)
EXTENDS RpcChannel, FiniteSetTheorems, SequenceTheorems, TLAPS

\* No call id is used twice: call_id_ does not come round.  Only the matching of
\* replies depends on it.
IdsSuffice == IsFiniteSet(Calls) /\ Cardinality(Calls \ Silent) < CallIds

InSeq(c, s) == \E i \in DOMAIN s : s[i] = c

-----------------------------------------------------------------------------
(* The inductive invariants *)

\* What is in flight belongs to an open socket; while callbacks wait for a connect
\* nothing is read, and the call that set them is connecting.
BaseInv ==
    /\ ~open => writes = <<>> /\ reading = "none"
    /\ status = "disconnected" => ~open
    /\ reading # "body" => readMsg = {} /\ readCtx = {}
    /\ connFor # {} => reading = "none"
    /\ \A c \in connFor : pc[c] = "connecting"

\* Somebody goes on with to_calls_, unless it was written to a closed socket, and on a
\* connected channel somebody takes call_list_ over.
QueueInv ==
    /\ toCalls # <<>> => writes # <<>> \/ retries > 0 \/ stranded
    /\ status = "connected" /\ callList # <<>> => toCalls # <<>> \/ triggers > 0

\* What is queued from an older connection belongs to a closed socket; while connecting
\* nothing is in flight, nothing is posted and the callbacks are there.
ConnInv ==
    /\ stale # <<>> => ~open
    /\ connOp # "none" <=> status = "connecting"
    /\ connOp # "none" => open /\ Drained /\ writes = <<>> /\ connFor # {}
    /\ connOp # "failed"

\* On an open socket the chain of sends is one write of the front of to_calls_ or one
\* posted retry of it, never both.
ChainInv ==
    /\ Len(writes) <= 1
    /\ writes # <<>> => /\ retries = 0 /\ toCalls # <<>>
                        /\ Head(writes).ctx = Head(toCalls)
    /\ open /\ retries > 0 => retries = 1 /\ toCalls # <<>>

\* The last two hold until a connection is begun with handlers or posted functions of an
\* older one queued; the others need nothing of the order in which these run.
SenderInv ==
    TypeOK /\ BaseInv /\ QueueInv /\ (~crossed => ConnInv /\ ChainInv)

Unpushed == {"new", "connect", "connecting", "push"}

\* In the order acc, a comes before b; s is in that order; all of s come before t.
Precedes(acc, a, b) == \E p, q \in DOMAIN acc : p < q /\ acc[p] = a /\ acc[q] = b
Ordered(acc, s) == \A i, j \in DOMAIN s : i < j => Precedes(acc, s[i], s[j])
AllPrecede(acc, s, t) == \A i \in DOMAIN s, j \in DOMAIN t : Precedes(acc, s[i], t[j])
AllIn(acc, s) == \A i \in DOMAIN s : InSeq(s[i], acc)
CtxIn(acc, w) == \A i \in DOMAIN w : InSeq(w[i].ctx, acc)

\* The front of to_calls_ has left already.
FrontLeft == writes # <<>> /\ Head(writes).onWire

\* What is sent comes before t, or only before its rest.
SentBefore(acc, s, t, left) ==
    \A i \in DOMAIN s, j \in DOMAIN t : (left => j > 1) => Precedes(acc, s[i], t[j])

\* Every call is queued once, and only queued calls are written and sent.
AcceptInv ==
    /\ \A i \in DOMAIN accepted : pc[accepted[i]] \notin Unpushed
    /\ \A i, j \in DOMAIN accepted : accepted[i] = accepted[j] => i = j
    /\ AllIn(accepted, sent) /\ AllIn(accepted, toCalls) /\ AllIn(accepted, callList)
    /\ CtxIn(accepted, writes)

\* sent, to_calls_ and call_list_ keep the order of the queue, each behind the one
\* before, but for the front of to_calls_ once it has left.
OrderInv ==
    /\ Ordered(accepted, sent) /\ Ordered(accepted, toCalls) /\ Ordered(accepted, callList)
    /\ AllPrecede(accepted, sent, callList) /\ AllPrecede(accepted, toCalls, callList)
    /\ SentBefore(accepted, sent, toCalls, FrontLeft)

\* The order, too, holds until handlers of an older connection meet a later one.
ArrivalInv == AcceptInv /\ (~crossed => OrderInv)

\* The calls that have an id.
Pushed == {c \in Calls \ Silent : InSeq(c, accepted)}

\* A request or a reply carries the id of its call, which has left.
Carries(m) == m.id = id[m.ctx] /\ InSeq(m.ctx, sent)

IdInv ==
    /\ callId = Cardinality(Pushed)
    /\ \A c \in Pushed : id[c] \in 1 .. callId
    /\ \A c \in Calls \ Pushed : id[c] = 0
    /\ \A c, d \in Pushed : id[c] = id[d] => c = d
    /\ \A p \in callMap : p[2] \in Pushed /\ p[1] = id[p[2]]
    /\ \A m \in served : Carries(m)
    /\ \A i \in DOMAIN replies : Carries(replies[i])
    /\ \A m \in readMsg : Carries(m)
    /\ \A m \in readMsg, c \in readCtx : c = m.ctx
    /\ readCtx \subseteq Pushed

\* A result is the reply to the call, or an error that wait() sees.
ResultInv ==
    \A c \in Calls :
        /\ answer[c] \subseteq {c}
        /\ result[c] = "ok" => answer[c] = {c}
        /\ result[c] = "error" => err[c] # "none"
        /\ pc[c] = "returned" => result[c] = "ok"

ArmedInv == \A c \in armed : InSeq(c, accepted)

MatchInv == IdInv /\ ResultInv /\ ArmedInv /\ WaitingCallsTracked

-----------------------------------------------------------------------------
(* What the operators of the model do *)

WriteOp == [ctx : Calls, onWire : BOOLEAN]

\* ctx->error: the results of the calls of C that had none become errors.
LEMMA FailTypes ==
  ASSUME err \in [Calls -> Errors], result \in [Calls -> {"none", "ok", "error"}],
         NEW C, NEW e \in Errors, FailCalls(C, e)
  PROVE  /\ err' \in [Calls -> Errors]
         /\ result' \in [Calls -> {"none", "ok", "error"}]
  BY DEF FailCalls

\* What call_impl1 leaves behind: the front is refused and a retry posted, or it is
\* being written, or its write has failed on a closed socket.
FrontGoes(list, w, r, q) ==
    /\ toCalls' = list
    /\ armed \subseteq armed' /\ armed' \subseteq armed \union {Head(list)}
    /\ \E C \in SUBSET {Head(list)} : FailCalls(C, "cancel")
    /\ \/ retries' = r + 1 /\ writes' = w /\ stale' = q /\ stranded' = FALSE
       \/ /\ open /\ retries' = r /\ stale' = q /\ stranded' = FALSE
          /\ writes' = Append(w, [ctx |-> Head(list), onWire |-> FALSE])
       \/ /\ ~open /\ retries' = r /\ writes' = w /\ stranded' = TRUE
          /\ stale' = Append(q, [op |-> "send", ctx |-> Head(list)])

\* call_impl finds nothing to send.
NothingToSend(t, w, r, q) ==
    /\ callList = <<>>
    /\ toCalls' = t /\ writes' = w /\ retries' = r /\ stale' = q
    /\ stranded' = (stranded /\ t # <<>>)
    /\ UNCHANGED <<callList, armed, err, result>>

\* What call_impl, handle_send and the retry leave behind.
ChainGoes(t, w, r, q) ==
    \/ NothingToSend(t, w, r, q)
    \/ callList # <<>> /\ callList' = <<>> /\ FrontGoes(callList, w, r, q)
    \/ t # <<>> /\ callList' = callList /\ FrontGoes(t, w, r, q)

\* call_impl1: the front of the list is written, fails on a closed socket, or is refused by
\* the hook and posted again.
LEMMA CallImpl1Effect ==
  ASSUME NEW list \in Seq(Calls), list # <<>>, NEW w, NEW r \in Nat,
         NEW q, open \in BOOLEAN, CallImpl1(list, w, r, q)
  PROVE  FrontGoes(list, w, r, q)
<1>1. PICK refused \in MayRefuse(list) :
         LET go == Written(list, refused) IN
          /\ FailCalls(refused, "cancel")
          /\ retries' = r + Cardinality(refused)
          /\ armed' = armed \union WithTimer(go)
          /\ writes' = IF go # {} /\ open
                       THEN Append(w, [ctx |-> Head(list), onWire |-> FALSE]) ELSE w
          /\ stale' = IF go # {} /\ ~open
                      THEN Append(q, [op |-> "send", ctx |-> Head(list)]) ELSE q
          /\ stranded' = (go # {} /\ ~open)
  BY DEF CallImpl1
<1>2. refused \in SUBSET {Head(list)}
  BY DEF MayRefuse
<1>3. toCalls' = list
  BY DEF CallImpl1
<1> USE DEF FrontGoes
<1>4. CASE refused = {}
  <2>1. Written(list, refused) = {Head(list)} /\ Cardinality(refused) = 0
    BY <1>4, FS_EmptySet DEF Written
  <2>2. retries' = r
    BY <1>1, <2>1
  <2>3. armed' = armed \union WithTimer({Head(list)})
    BY <1>1, <2>1
  <2>4. WithTimer({Head(list)}) \subseteq {Head(list)}
    BY DEF WithTimer
  <2> QED BY <1>1, <1>2, <1>3, <2>1, <2>2, <2>3, <2>4
<1>5. CASE refused = {Head(list)}
  <2>1. Written(list, refused) = {} /\ Cardinality(refused) = 1
    BY <1>5, FS_Singleton DEF Written
  <2>2. retries' = r + 1
    BY <1>1, <2>1
  <2>3. armed' = armed
    BY <1>1, <2>1 DEF WithTimer
  <2> QED BY <1>1, <1>2, <1>3, <2>1, <2>2, <2>3
<1> QED BY <1>2, <1>4, <1>5

\* call_impl: it takes call_list_ over if that is not empty, and sends its front.
LEMMA CallImplEffect ==
  ASSUME NEW t, NEW w, NEW r \in Nat, NEW q, callList \in Seq(Calls), open \in BOOLEAN,
         CallImpl(t, w, r, q)
  PROVE  \/ NothingToSend(t, w, r, q)
         \/ callList # <<>> /\ callList' = <<>> /\ FrontGoes(callList, w, r, q)
<1>1. CASE callList = <<>>
  BY <1>1 DEF CallImpl, NothingToSend
<1>2. CASE callList # <<>>
  BY <1>2, CallImpl1Effect DEF CallImpl
<1> QED BY <1>1, <1>2

\* The tail of handle_send: to_calls_ goes on, or call_list_ is taken over when it is empty.
LEMMA SendOnEffect ==
  ASSUME NEW t \in Seq(Calls), NEW w, NEW r \in Nat, NEW q, callList \in Seq(Calls),
         open \in BOOLEAN, SendOn(t, w, r, q)
  PROVE  /\ ChainGoes(t, w, r, q)
         /\ t # <<>> => callList' = callList /\ FrontGoes(t, w, r, q)
<1>1. CASE t = <<>>
  BY <1>1, CallImplEffect DEF SendOn, ChainGoes
<1>2. CASE t # <<>>
  BY <1>2, CallImpl1Effect DEF SendOn, ChainGoes
<1> QED BY <1>1, <1>2

\* The types of what they leave behind.
LEMMA ChainTypes ==
  ASSUME TypeOK, NEW t \in Seq(Calls), NEW w \in Seq(WriteOp), NEW r \in Nat,
         NEW q \in Seq(StaleHandler), ChainGoes(t, w, r, q)
  PROVE  /\ callList' \in Seq(Calls) /\ toCalls' \in Seq(Calls)
         /\ writes' \in Seq(WriteOp) /\ retries' \in Nat /\ stale' \in Seq(StaleHandler)
         /\ armed' \subseteq Calls /\ stranded' \in BOOLEAN
         /\ err' \in [Calls -> Errors] /\ result' \in [Calls -> {"none", "ok", "error"}]
<1>1. ASSUME NEW list \in Seq(Calls), list # <<>>, FrontGoes(list, w, r, q)
      PROVE  /\ toCalls' \in Seq(Calls)
             /\ writes' \in Seq(WriteOp) /\ retries' \in Nat
             /\ stale' \in Seq(StaleHandler) /\ armed' \subseteq Calls
             /\ stranded' \in BOOLEAN
             /\ err' \in [Calls -> Errors]
             /\ result' \in [Calls -> {"none", "ok", "error"}]
  <2>1. Head(list) \in Calls
    BY <1>1
  <2>2. [ctx |-> Head(list), onWire |-> FALSE] \in WriteOp
    BY <2>1 DEF WriteOp
  <2>3. [op |-> "send", ctx |-> Head(list)] \in StaleHandler
    BY <2>1 DEF StaleHandler
  <2>4. "cancel" \in Errors
    BY DEF Errors
  <2>5. /\ err' \in [Calls -> Errors]
        /\ result' \in [Calls -> {"none", "ok", "error"}]
    BY <1>1, <2>4, FailTypes DEF FrontGoes, TypeOK
  <2>6. writes' \in Seq(WriteOp)
    <3>1. \A x \in WriteOp : Append(w, x) \in Seq(WriteOp)
      BY AppendProperties
    <3>2. writes' \in {w, Append(w, [ctx |-> Head(list), onWire |-> FALSE])}
      BY <1>1 DEF FrontGoes
    <3> QED BY <2>2, <3>1, <3>2
  <2>7. stale' \in Seq(StaleHandler)
    <3>1. \A x \in StaleHandler : Append(q, x) \in Seq(StaleHandler)
      BY AppendProperties
    <3>2. stale' \in {q, Append(q, [op |-> "send", ctx |-> Head(list)])}
      BY <1>1 DEF FrontGoes
    <3> QED BY <2>3, <3>1, <3>2
  <2>8. retries' \in Nat
    <3>1. retries' \in {r, r + 1}
      BY <1>1 DEF FrontGoes
    <3> QED BY <3>1
  <2>9. stranded' \in BOOLEAN /\ armed' \subseteq Calls /\ toCalls' \in Seq(Calls)
    BY <1>1, <2>1 DEF FrontGoes, TypeOK
  <2> QED BY <2>5, <2>6, <2>7, <2>8, <2>9
<1>2. CASE NothingToSend(t, w, r, q)
  <2>1. stranded' \in BOOLEAN
    BY <1>2 DEF NothingToSend
  <2> QED BY <1>2, <2>1 DEF NothingToSend, TypeOK
<1>3. CASE callList # <<>> /\ callList' = <<>> /\ FrontGoes(callList, w, r, q)
  <2>1. callList \in Seq(Calls) /\ callList' \in Seq(Calls)
    BY <1>3, EmptySeq DEF TypeOK
  <2> QED BY <1>1, <1>3, <2>1
<1>4. CASE t # <<>> /\ callList' = callList /\ FrontGoes(t, w, r, q)
  BY <1>1, <1>4 DEF TypeOK
<1> QED BY <1>2, <1>3, <1>4 DEF ChainGoes

\* The handlers that a close queues.
LEMMA AbortedTypes ==
  ASSUME TypeOK
  PROVE  /\ AbortedSends \in Seq(StaleHandler) /\ Len(AbortedSends) = Len(writes)
         /\ AbortedRead \in Seq(StaleHandler)
         /\ AbortedConnect \in Seq(StaleHandler)
         /\ writes # <<>> => Tail(AbortedSends) \in Seq(StaleHandler)
<1>1. \A i \in 1 .. Len(writes) : [op |-> "send", ctx |-> writes[i].ctx] \in StaleHandler
  <2>1. \A i \in 1 .. Len(writes) : writes[i] \in WriteOp
    <3>1. writes \in Seq(WriteOp)
      BY DEF TypeOK, WriteOp
    <3> QED BY <3>1
  <2>2. \A i \in 1 .. Len(writes) : writes[i].ctx \in Calls
    BY <2>1 DEF WriteOp
  <2> QED BY <2>2 DEF StaleHandler
<1>2. Len(writes) \in Nat
  BY DEF TypeOK
<1>3. AbortedSends \in Seq(StaleHandler) /\ Len(AbortedSends) = Len(writes)
  BY <1>1, <1>2 DEF AbortedSends
<1>4. AbortedRead \in Seq(StaleHandler)
  <2>1. [op |-> "recv"] \in StaleHandler
    BY DEF StaleHandler
  <2> QED BY <2>1 DEF AbortedRead
<1>5. AbortedConnect \in Seq(StaleHandler)
  <2>1. [op |-> "connect", ok |-> connOp = "ready"] \in StaleHandler
    BY DEF StaleHandler
  <2> QED BY <2>1 DEF AbortedConnect
<1>6. writes # <<>> => Tail(AbortedSends) \in Seq(StaleHandler)
  BY <1>3 DEF TypeOK
<1> QED BY <1>3, <1>4, <1>5, <1>6

\* The types of what stop_rpc_service leaves behind.
LEMMA StopTypes ==
  ASSUME TypeOK, NEW e \in Errors, NEW also, NEW lost \in SUBSET Calls,
         NEW aborted \in Seq(StaleHandler), StopService(e, also, lost, aborted)
  PROVE  /\ status' = "disconnected" /\ open' = FALSE /\ connOp' = "none"
         /\ toCalls' \in Seq(Calls) /\ stranded' = FALSE
         /\ callMap' = {} /\ writes' \in Seq(WriteOp)
         /\ reading' = "none" /\ readMsg' = {} /\ readCtx' = {}
         /\ stale' \in Seq(StaleHandler)
         /\ served' = {} /\ replies' \in Seq(Reply)
         /\ err' \in [Calls -> Errors] /\ result' \in [Calls -> {"none", "ok", "error"}]
         /\ dropped' \subseteq Calls
<1>1. /\ err' \in [Calls -> Errors] /\ result' \in [Calls -> {"none", "ok", "error"}]
  BY FailTypes DEF StopService, TypeOK
<1>2. toCalls' \in Seq(Calls) /\ writes' \in Seq(WriteOp) /\ replies' \in Seq(Reply)
  BY DEF StopService
<1>3. dropped' \subseteq Calls
  BY DEF StopService, TypeOK
<1> QED BY <1>1, <1>2, <1>3 DEF StopService, Stopped

\* call_complete reports one result.
LEMMA CompleteTypes ==
  ASSUME TypeOK, NEW c \in Calls, NEW m \in Reply, Complete(c, m)
  PROVE  /\ err' \in [Calls -> Errors] /\ result' \in [Calls -> {"none", "ok", "error"}]
         /\ answer' \in [Calls -> SUBSET Calls]
<1>1. m.ctx \in Calls
  BY DEF Reply
<1>2. answer' \in [Calls -> SUBSET Calls]
  BY <1>1 DEF Complete, TypeOK
<1>3. CASE m.kind = "fail"
  <2>1. "remote_error" \in Errors
    BY DEF Errors
  <2>2. FailCalls({c}, "remote_error")
    BY <1>3 DEF Complete
  <2>3. err \in [Calls -> Errors] /\ result \in [Calls -> {"none", "ok", "error"}]
    BY DEF TypeOK
  <2> QED BY <1>2, <2>1, <2>2, <2>3, FailTypes
<1>4. CASE m.kind # "fail"
  BY <1>2, <1>4 DEF Complete, TypeOK
<1> QED BY <1>3, <1>4

\* start_rpc_service after a connect leaves every field within its type.
LEMMA SucceedsTypes ==
  ASSUME TypeOK, NEW q \in Seq(StaleHandler), ConnectSucceeds(q)
  PROVE  /\ status' = "connected" /\ open' = open
         /\ connFor' = {} /\ UNCHANGED attempts /\ stranded' \in BOOLEAN
         /\ callList' \in Seq(Calls) /\ toCalls' \in Seq(Calls)
         /\ writes' \in Seq(WriteOp) /\ retries' \in Nat /\ stale' \in Seq(StaleHandler)
         /\ armed' \subseteq Calls
         /\ err' \in [Calls -> Errors] /\ result' \in [Calls -> {"none", "ok", "error"}]
         /\ reading' \in {"none", "head"}
         /\ pc' \in [Calls -> {"new", "connect", "connecting", "push", "issued",
                               "waiting", "returned", "threw"}]
<1> DEFINE aft == q \o IF open THEN <<>> ELSE <<[op |-> "recv"]>>
<1>1. aft \in Seq(StaleHandler)
  <2>1. [op |-> "recv"] \in StaleHandler
    BY DEF StaleHandler
  <2>2. (IF open THEN <<>> ELSE <<[op |-> "recv"]>>) \in Seq(StaleHandler)
    BY <2>1
  <2> QED BY <2>2, ConcatProperties
<1>2. CallImpl(toCalls, writes, retries, aft)
  BY DEF ConnectSucceeds
<1> HIDE DEF aft
<1>3. toCalls \in Seq(Calls) /\ writes \in Seq(WriteOp) /\ retries \in Nat
      /\ callList \in Seq(Calls) /\ open \in BOOLEAN
  BY DEF TypeOK, WriteOp
<1>4. ChainGoes(toCalls, writes, retries, aft)
  BY <1>2, <1>3, CallImplEffect DEF ChainGoes
<1>5. /\ callList' \in Seq(Calls) /\ toCalls' \in Seq(Calls)
      /\ writes' \in Seq(WriteOp) /\ retries' \in Nat /\ stale' \in Seq(StaleHandler)
      /\ armed' \subseteq Calls /\ stranded' \in BOOLEAN
      /\ err' \in [Calls -> Errors] /\ result' \in [Calls -> {"none", "ok", "error"}]
  BY <1>1, <1>3, <1>4, ChainTypes
<1>6. status' = "connected" /\ open' = open /\ connFor' = {} /\ UNCHANGED attempts
      /\ reading' \in {"none", "head"}
  BY DEF ConnectSucceeds
<1>7. pc' \in [Calls -> {"new", "connect", "connecting", "push", "issued",
                         "waiting", "returned", "threw"}]
  BY DEF ConnectSucceeds, TypeOK
<1> QED BY <1>5, <1>6, <1>7

-----------------------------------------------------------------------------
(* Types *)

\* The fields of a new channel have their types.
LEMMA InitTypes == Init => TypeOK
<1> SUFFICES ASSUME Init PROVE TypeOK
  OBVIOUS
<1>1. 0 \in 0 .. CallIds - 1 /\ 0 \in 0 .. MaxConnects
  BY ChannelAssumption
<1>2. "none" \in Errors
  BY DEF Errors
<1>3. /\ id \in [Calls -> 0 .. CallIds - 1] /\ err \in [Calls -> Errors]
      /\ result \in [Calls -> {"none", "ok", "error"}]
      /\ answer \in [Calls -> SUBSET Calls]
      /\ pc \in [Calls -> {"new", "connect", "connecting", "push", "issued",
                           "waiting", "returned", "threw"}]
  BY <1>1, <1>2 DEF Init
<1>4. <<>> \in Seq(Calls) /\ <<>> \in Seq(WriteOp) /\ <<>> \in Seq(StaleHandler)
      /\ <<>> \in Seq(Reply)
  BY EmptySeq
<1> QED BY <1>1, <1>3, <1>4 DEF Init, TypeOK, WriteOp

\* Each operation keeps the types of the channel's state.
LEMMA TypeStep == TypeOK /\ [Next]_vars => TypeOK'
<1> SUFFICES ASSUME TypeOK, [Next]_vars PROVE TypeOK'
  OBVIOUS
<1> USE DEF vars, connVars, callVars, ioVars, peerVars, attempts, sending
<1>1. /\ err \in [Calls -> Errors] /\ result \in [Calls -> {"none", "ok", "error"}]
      /\ toCalls \in Seq(Calls) /\ callList \in Seq(Calls) /\ retries \in Nat
      /\ triggers \in Nat /\ writes \in Seq(WriteOp) /\ stale \in Seq(StaleHandler)
      /\ replies \in Seq(Reply) /\ open \in BOOLEAN /\ readCtx \in SUBSET Calls
      /\ connFor \subseteq Calls
  BY DEF TypeOK, WriteOp
<1>2. /\ "cancel" \in Errors /\ "timeout" \in Errors /\ "badconnect" \in Errors
      /\ "be_disconnected" \in Errors /\ "connect_fail" \in Errors
      /\ "repeat_connect" \in Errors /\ "invalid_header" \in Errors
  BY DEF Errors
<1>3. CASE UNCHANGED vars
  BY <1>3 DEF TypeOK
<1>4. ASSUME NEW c \in Calls, CallBegin(c) PROVE TypeOK'
  BY <1>4 DEF CallBegin, TypeOK
<1>5. ASSUME NEW c \in Calls, CallConnect(c) PROVE TypeOK'
  <2>1. CASE status # "disconnected"
    <3>1. FailCalls({c} \ (Sync \union Silent), "repeat_connect") /\ UNCHANGED connVars
      BY <1>5, <2>1 DEF CallConnect
    <3>2. /\ err' \in [Calls -> Errors]
          /\ result' \in [Calls -> {"none", "ok", "error"}]
      BY <1>1, <1>2, <3>1, FailTypes
    <3> QED BY <1>5, <2>1, <3>1, <3>2 DEF CallConnect, TypeOK
  <2>2. CASE status = "disconnected"
    <3>1. connects' \in 0 .. MaxConnects
      BY <1>5, <2>2, ChannelAssumption DEF CallConnect, TypeOK
    <3> QED BY <1>5, <2>2, <3>1 DEF CallConnect, TypeOK
  <2> QED BY <2>1, <2>2
<1>6. ASSUME NEW c \in Calls, CallPush(c) PROVE TypeOK'
  <2>1. CASE status = "disconnected"
    <3>1. /\ err' \in [Calls -> Errors]
          /\ result' \in [Calls -> {"none", "ok", "error"}]
      BY <1>1, <1>2, <1>6, <2>1, FailTypes DEF CallPush
    <3> QED BY <1>6, <2>1, <3>1 DEF CallPush, TypeOK
  <2>2. CASE status # "disconnected"
    <3>1. NextId \in 0 .. CallIds - 1
      BY ChannelAssumption DEF NextId, TypeOK
    <3>2. PushCall(c) /\ callList' = Append(callList, c) /\ triggers' \in {triggers, triggers + 1}
      BY <1>6, <2>2 DEF CallPush
    <3>3. /\ callId' \in 0 .. CallIds - 1 /\ id' \in [Calls -> 0 .. CallIds - 1]
          /\ callMap' \subseteq (0 .. CallIds - 1) \X Calls
          /\ accepted' = Append(accepted, c)
      <4>1. CASE c \in Silent
        BY <3>2, <4>1 DEF PushCall, TypeOK
      <4>2. CASE c \notin Silent
        <5>1. callId' = NextId /\ id' = [id EXCEPT ![c] = NextId]
              /\ callMap' \subseteq callMap \union {<<NextId, c>>}
              /\ accepted' = Append(accepted, c)
          BY <3>2, <4>2 DEF PushCall
        <5> QED BY <3>1, <5>1 DEF TypeOK
      <4> QED BY <4>1, <4>2
    <3>4. callList' \in Seq(Calls) /\ accepted' \in Seq(Calls) /\ triggers' \in Nat
      BY <1>1, <3>2, <3>3 DEF TypeOK
    <3> QED BY <1>6, <2>2, <3>3, <3>4 DEF CallPush, TypeOK
  <2> QED BY <2>1, <2>2
<1>7. ASSUME NEW c \in Calls, WaitReturn(c) PROVE TypeOK'
  BY <1>7 DEF WaitReturn, TypeOK
<1>8. ASSUME NEW c \in Calls, Cancel(c) PROVE TypeOK'
  <2>1. /\ err' \in [Calls -> Errors]
        /\ result' \in [Calls -> {"none", "ok", "error"}]
    BY <1>1, <1>2, <1>8, FailTypes DEF Cancel
  <2>2. callMap' \subseteq callMap
    BY <1>8 DEF Cancel
  <2>3. callMap' \subseteq (0 .. CallIds - 1) \X Calls
    BY <2>2 DEF TypeOK
  <2>4. UNCHANGED <<connVars, callList, sending, callId, id, ioVars, pc, peerVars,
                    accepted, sent, answer, dropped>>
    BY <1>8 DEF Cancel
  <2> QED BY <2>1, <2>3, <2>4 DEF TypeOK
<1>9. ASSUME NEW c \in Calls, Timeout(c) PROVE TypeOK'
  <2>1. /\ err' \in [Calls -> Errors]
        /\ result' \in [Calls -> {"none", "ok", "error"}]
    BY <1>1, <1>2, <1>9, FailTypes DEF Timeout
  <2> QED BY <1>9, <2>1 DEF Timeout, TypeOK
<1>10. CASE Disconnect
  <2> DEFINE ab == stale \o AbortedRead \o AbortedSends \o AbortedConnect
  <2>1. ab \in Seq(StaleHandler)
    BY <1>1, AbortedTypes, ConcatProperties
  <2>2. StopService("be_disconnected", {}, readCtx, ab)
    BY <1>10 DEF Disconnect
  <2> HIDE DEF ab
  <2> QED BY <1>1, <1>2, <1>10, <2>1, <2>2, StopTypes DEF Disconnect, TypeOK, WriteOp
<1>11. CASE ConnectReady
  BY <1>11 DEF ConnectReady, TypeOK
<1>12a. ASSUME NEW o \in {"none", "failed"}, NobodyTold(o) PROVE TypeOK'
  BY <1>12a DEF NobodyTold, TypeOK
<1>12. CASE HandleConnectOk
  <2>1. CASE ConnectSucceeds(stale) /\ connOp' = "none"
    BY <1>1, <2>1, SucceedsTypes DEF ConnectSucceeds, TypeOK, WriteOp
  <2> QED BY <1>12, <1>12a, <2>1 DEF HandleConnectOk
<1>13. ASSUME NEW q \in Seq(StaleHandler), ConnectFails(q) PROVE TypeOK'
  <2>1. StopService("connect_fail", connFor \ (Sync \union Silent), readCtx, q)
    BY <1>13 DEF ConnectFails
  <2>2. pc' \in [Calls -> {"new", "connect", "connecting", "push", "issued",
                           "waiting", "returned", "threw"}]
    BY <1>13 DEF ConnectFails, TypeOK
  <2> QED BY <1>1, <1>2, <1>13, <2>1, <2>2, StopTypes DEF ConnectFails, TypeOK, WriteOp
<1>14. CASE HandleConnectFail
  <2>1. stale \o AbortedRead \o AbortedSends \in Seq(StaleHandler)
    BY <1>1, AbortedTypes, ConcatProperties
  <2> QED BY <1>12a, <1>13, <1>14, <2>1 DEF HandleConnectFail
<1>15. CASE RunStale
  <2>1. Tail(stale) \in Seq(StaleHandler)
    BY <1>1, <1>15 DEF RunStale, StaleConnect, StaleReturns, StaleFails, StaleSent
  <2>2. Tail(stale) \o AbortedAll \in Seq(StaleHandler)
    BY <2>1, AbortedTypes, ConcatProperties DEF AbortedAll
  <2>3. CASE StaleConnect
    <3>1. CASE ConnectSucceeds(Tail(stale)) /\ UNCHANGED connOp
      BY <1>1, <2>1, <3>1, SucceedsTypes DEF ConnectSucceeds, TypeOK, WriteOp
    <3>2. CASE ConnectFails(Tail(stale) \o AbortedAll)
      BY <1>13, <2>2, <3>2
    <3> QED BY <2>3, <3>1, <3>2 DEF StaleConnect
  <2>4. CASE StaleReturns
    BY <2>1, <2>4 DEF StaleReturns, TypeOK
  <2>5. CASE StaleFails
    <3>1. StopService("badconnect", {}, readCtx, Tail(stale) \o AbortedAll)
      BY <2>5 DEF StaleFails
    <3> QED BY <1>1, <1>2, <2>2, <2>5, <3>1, StopTypes DEF StaleFails, TypeOK, WriteOp
  <2>6. CASE StaleSent
    <3>1. FrontPopped \in Seq(Calls)
      BY <1>1, <2>6 DEF FrontPopped, StaleSent
    <3>2. ChainGoes(FrontPopped, writes, retries, Tail(stale))
      BY <1>1, <2>6, <3>1, SendOnEffect DEF StaleSent
    <3> QED BY <1>1, <2>1, <2>6, <3>1, <3>2, ChainTypes DEF StaleSent, TypeOK, WriteOp
  <2> QED BY <1>15, <2>3, <2>4, <2>5, <2>6 DEF RunStale
<1>16. CASE WriteReachesPeer
  <2>1. Head(writes).ctx \in Calls /\ writes # <<>>
    <3>1. writes # <<>>
      BY <1>16 DEF WriteReachesPeer
    <3>2. Head(writes) \in WriteOp
      BY <1>1, <3>1
    <3> QED BY <3>1, <3>2 DEF WriteOp
  <2>2. writes' \in Seq(WriteOp)
    <3>1. writes' = [writes EXCEPT ![1] = [writes[1] EXCEPT !.onWire = TRUE]]
      BY <1>16 DEF WriteReachesPeer
    <3>2. writes[1] \in WriteOp
      BY <1>1, <2>1
    <3>3. [writes[1] EXCEPT !.onWire = TRUE] \in WriteOp
      BY <3>2 DEF WriteOp
    <3> QED BY <1>1, <2>1, <3>1, <3>3
  <2>3. sent' \in Seq(Calls) /\ served' \subseteq [id : 0 .. CallIds - 1, ctx : Calls]
    <3>1. sent' = Append(sent, Head(writes).ctx)
          /\ served' = served \union {[id |-> id[Head(writes).ctx], ctx |-> Head(writes).ctx]}
      BY <1>16 DEF WriteReachesPeer
    <3>2. id[Head(writes).ctx] \in 0 .. CallIds - 1
      BY <2>1 DEF TypeOK
    <3>3. [id |-> id[Head(writes).ctx], ctx |-> Head(writes).ctx]
            \in [id : 0 .. CallIds - 1, ctx : Calls]
      BY <2>1, <3>2
    <3>4. sent \in Seq(Calls) /\ served \subseteq [id : 0 .. CallIds - 1, ctx : Calls]
      BY DEF TypeOK
    <3>5. sent' \in Seq(Calls)
      BY <2>1, <3>1, <3>4, AppendProperties
    <3> QED BY <3>1, <3>3, <3>4, <3>5
  <2> QED BY <1>16, <2>2, <2>3 DEF WriteReachesPeer, TypeOK, WriteOp
<1>17. CASE HandleSend
  <2>1. Tail(writes) \in Seq(WriteOp)
    BY <1>1, <1>17 DEF HandleSend
  <2>2. FrontPopped \in Seq(Calls)
    BY <1>1, <1>17 DEF FrontPopped, HandleSend
  <2>3. ChainGoes(FrontPopped, Tail(writes), retries, stale)
    BY <1>1, <1>17, <2>2, SendOnEffect DEF HandleSend
  <2> QED BY <1>1, <1>17, <2>1, <2>2, <2>3, ChainTypes DEF HandleSend, TypeOK, WriteOp
<1>18. CASE SendFails
  <2> DEFINE ab == stale \o AbortedRead \o Tail(AbortedSends) \o AbortedConnect
  <2>1. ab \in Seq(StaleHandler)
    BY <1>1, <1>18, AbortedTypes, ConcatProperties DEF SendFails
  <2>2. StopService("badconnect", {}, readCtx, ab)
    BY <1>18 DEF SendFails
  <2> HIDE DEF ab
  <2> QED BY <1>1, <1>2, <1>18, <2>1, <2>2, StopTypes DEF SendFails, TypeOK, WriteOp
<1>19. CASE RunTrigger
  <2>1. triggers' \in Nat
    BY <1>1, <1>19 DEF RunTrigger
  <2>2. CASE SenderIdle
    <3>1. ChainGoes(toCalls, writes, retries, stale)
      BY <1>1, <1>19, <2>2, CallImplEffect DEF RunTrigger, ChainGoes
    <3> QED BY <1>1, <1>19, <2>1, <3>1, ChainTypes DEF RunTrigger, TypeOK, WriteOp
  <2>3. CASE ~SenderIdle
    BY <1>19, <2>1, <2>3 DEF RunTrigger, TypeOK
  <2> QED BY <2>2, <2>3
<1>20. CASE RunRetry
  <2>1. retries - 1 \in Nat
    BY <1>1, <1>20 DEF RunRetry
  <2>2. ChainGoes(toCalls, writes, retries - 1, stale)
    BY <1>1, <1>20, <2>1, SendOnEffect DEF RunRetry
  <2> QED BY <1>1, <1>20, <2>1, <2>2, ChainTypes DEF RunRetry, TypeOK, WriteOp
<1>21. ASSUME NEW m \in Reply, ServerReply(m) PROVE TypeOK'
  <2>1. /\ served' \subseteq served /\ replies' = Append(replies, m)
        /\ UNCHANGED <<connVars, callVars, ioVars, pc, err, result, accepted, sent,
                       answer, dropped>>
    BY <1>21 DEF ServerReply
  <2>2. \A x \in Reply : Append(replies, x) \in Seq(Reply)
    BY <1>1, AppendProperties
  <2>3. replies' \in Seq(Reply)
    BY <2>1, <2>2
  <2> QED BY <1>1, <2>1, <2>3 DEF TypeOK
<1>22. CASE HandleRecvHead
  <2>1. Head(replies) \in Reply /\ Tail(replies) \in Seq(Reply)
    BY <1>1, <1>22 DEF HandleRecvHead
  <2> DEFINE m == Head(replies)
             C == Matching(m.id)
  <2>2. C \in SUBSET Calls
    BY DEF Matching
  <2> HIDE DEF C
  <2>3. CASE m.kind \in {"empty", "fail"}
    <3>1. /\ err' \in [Calls -> Errors]
          /\ result' \in [Calls -> {"none", "ok", "error"}]
          /\ answer' \in [Calls -> SUBSET Calls]
      <4>1. CASE C = {}
        <5>1. UNCHANGED <<answer, err, result>>
          BY <1>22, <2>3, <4>1 DEF HandleRecvHead, C
        <5> QED BY <5>1 DEF TypeOK
      <4>2. CASE C # {}
        <5>1. \E c \in C : Complete(c, m)
          BY <1>22, <2>3, <4>2 DEF HandleRecvHead, C
        <5> QED BY <2>1, <2>2, <5>1, CompleteTypes
      <4> QED BY <4>1, <4>2
    <3>2. callMap' \subseteq callMap /\ replies' = Tail(replies)
      BY <1>22, <2>3 DEF HandleRecvHead
    <3> QED BY <1>22, <2>1, <2>3, <3>1, <3>2 DEF HandleRecvHead, TypeOK
  <2>4. CASE m.kind = "body"
    <3>1. /\ callMap' \subseteq callMap /\ replies' = Tail(replies)
          /\ reading' = "body" /\ readMsg' = {m} /\ readCtx' = C
      BY <1>22, <2>4 DEF HandleRecvHead, C
    <3> QED BY <1>22, <2>1, <2>2, <2>4, <3>1 DEF HandleRecvHead, TypeOK
  <2>5. CASE m.kind = "huge"
    <3> DEFINE ab == stale \o AbortedSends \o AbortedConnect
    <3>1. ab \in Seq(StaleHandler)
      BY <1>1, AbortedTypes, ConcatProperties
    <3>2. StopService("invalid_header", {}, C, ab)
      BY <1>22, <2>5 DEF HandleRecvHead, C
    <3> HIDE DEF ab
    <3> QED BY <1>1, <1>2, <1>22, <2>2, <2>5, <3>1, <3>2, StopTypes DEF HandleRecvHead, TypeOK, WriteOp
  <2> QED BY <1>22, <2>3, <2>4, <2>5 DEF HandleRecvHead
<1>23. CASE HandleRecvBody
  <2>1. /\ err' \in [Calls -> Errors]
        /\ result' \in [Calls -> {"none", "ok", "error"}]
        /\ answer' \in [Calls -> SUBSET Calls]
    <3>1. CASE readCtx = {}
      <4>1. UNCHANGED <<answer, err, result>>
        BY <1>23, <3>1 DEF HandleRecvBody
      <4> QED BY <4>1 DEF TypeOK
    <3>2. CASE readCtx # {}
      <4>1. \E c \in readCtx, m \in readMsg : Complete(c, m)
        BY <1>23, <3>2 DEF HandleRecvBody
      <4>2. readCtx \subseteq Calls /\ readMsg \subseteq Reply
        BY DEF TypeOK
      <4> QED BY <4>1, <4>2, CompleteTypes
    <3> QED BY <3>1, <3>2
  <2> QED BY <1>23, <2>1 DEF HandleRecvBody, TypeOK
<1>24. CASE RecvFails
  <2> DEFINE ab == stale \o AbortedSends \o AbortedConnect
  <2>1. ab \in Seq(StaleHandler)
    BY <1>1, AbortedTypes, ConcatProperties
  <2>2. StopService("badconnect", {}, readCtx, ab)
    BY <1>24 DEF RecvFails
  <2> HIDE DEF ab
  <2> QED BY <1>1, <1>2, <1>24, <2>1, <2>2, StopTypes DEF RecvFails, TypeOK, WriteOp
<1>25. CASE Corrupts
  BY <1>25 DEF Corrupts, TypeOK
<1> QED BY <1>3, <1>4, <1>5, <1>6, <1>7, <1>8, <1>9, <1>10, <1>11, <1>12, <1>14,
            <1>15, <1>16, <1>17, <1>18, <1>19, <1>20, <1>21, <1>22, <1>23, <1>24, <1>25
         DEF Next, Step, CallStep, PeerReplies

-----------------------------------------------------------------------------
(* The connection and the sending chain *)

\* A new channel has nothing in flight and nothing queued.
LEMMA InitSender == Init => SenderInv
<1> SUFFICES ASSUME Init PROVE SenderInv
  OBVIOUS
<1>1. BaseInv /\ QueueInv
  BY DEF Init, BaseInv, QueueInv
<1>2. ConnInv /\ ChainInv
  BY DEF Init, ConnInv, ChainInv, Drained
<1> QED BY <1>1, <1>2, InitTypes DEF SenderInv

\* A stop leaves a closed channel on which nothing is in flight.
LEMMA StopKeepsSender ==
  ASSUME TypeOK', NEW e, NEW also, NEW lost, NEW aborted,
         StopService(e, also, lost, aborted),
         \A c \in connFor' : pc'[c] = "connecting"
  PROVE  SenderInv'
<1>1. ConnInv'
  BY DEF ConnInv, StopService, Stopped
<1>2. ChainInv'
  BY DEF ChainInv, StopService
<1>3. BaseInv'
  BY DEF BaseInv, StopService, Stopped
<1>4. QueueInv'
  BY DEF QueueInv, StopService, Stopped
<1> QED BY <1>1, <1>2, <1>3, <1>4 DEF SenderInv

\* Whatever starts it, call_impl leaves a sender of to_calls_ behind, or a to_calls_
\* that a closed socket was given.
LEMMA ChainKeepsQueue ==
  ASSUME NEW t \in Seq(Calls), NEW w, NEW r \in Nat, NEW q, ChainGoes(t, w, r, q),
         t # <<>> => FrontGoes(t, w, r, q) \/ w # <<>> \/ r > 0 \/ stranded,
         w \in Seq(WriteOp), callList \in Seq(Calls)
  PROVE  QueueInv' /\ (~open => writes' = w)
<1>1. ASSUME NEW list \in Seq(Calls), FrontGoes(list, w, r, q)
      PROVE  (writes' # <<>> \/ retries' > 0 \/ stranded') /\ (~open => writes' = w)
  <2>1. CASE retries' = r + 1 /\ writes' = w
    BY <2>1
  <2>2. CASE /\ open
             /\ writes' = Append(w, [ctx |-> Head(list), onWire |-> FALSE])
    BY <2>2
  <2>3. CASE ~open /\ writes' = w /\ stranded' = TRUE
    BY <2>3
  <2> QED BY <1>1, <2>1, <2>2, <2>3 DEF FrontGoes
<1>2. CASE NothingToSend(t, w, r, q)
  <2>1. toCalls' = t /\ writes' = w /\ retries' = r /\ callList' = <<>>
        /\ stranded' = (stranded /\ t # <<>>)
    BY <1>2 DEF NothingToSend
  <2>2. toCalls' # <<>> => writes' # <<>> \/ retries' > 0 \/ stranded'
    BY <1>1, <2>1
  <2> QED BY <2>1, <2>2 DEF QueueInv
<1>3. CASE callList # <<>> /\ callList' = <<>> /\ FrontGoes(callList, w, r, q)
  BY <1>1, <1>3 DEF QueueInv
<1>4. CASE t # <<>> /\ callList' = callList /\ FrontGoes(t, w, r, q)
  <2>1. toCalls' = t
    BY <1>4 DEF FrontGoes
  <2> QED BY <1>1, <1>4, <2>1 DEF QueueInv
<1> QED BY <1>2, <1>3, <1>4 DEF ChainGoes

\* The chain goes on once its only write or retry has been taken off.
LEMMA ChainKeepsSender ==
  ASSUME open \in BOOLEAN, open' = open, callList \in Seq(Calls),
         NEW t \in Seq(Calls), NEW r \in Nat, NEW q \in Seq(StaleHandler),
         q # <<>> => ~open, r = 0 \/ ~open, ChainGoes(t, <<>>, r, q)
  PROVE  ChainInv' /\ (stale' # <<>> => ~open)
<1>1. ASSUME NEW list \in Seq(Calls), list # <<>>, FrontGoes(list, <<>>, r, q)
      PROVE  ChainInv' /\ (stale' # <<>> => ~open)
  <2>0. toCalls' = list
    BY <1>1 DEF FrontGoes
  <2>1. CASE retries' = r + 1 /\ writes' = <<>> /\ stale' = q
    BY <1>1, <2>0, <2>1 DEF ChainInv
  <2>2. CASE /\ open /\ retries' = r /\ stale' = q
             /\ writes' = Append(<<>>, [ctx |-> Head(list), onWire |-> FALSE])
    <3>1. writes' = <<[ctx |-> Head(list), onWire |-> FALSE]>>
      BY <2>2
    <3>2. Len(writes') = 1 /\ Head(writes').ctx = Head(list)
      BY <3>1
    <3>3. r = 0
      BY <2>2
    <3> QED BY <1>1, <2>0, <2>2, <3>2, <3>3 DEF ChainInv
  <2>3. CASE /\ ~open /\ retries' = r /\ writes' = <<>>
             /\ stale' = Append(q, [op |-> "send", ctx |-> Head(list)])
    BY <1>1, <2>0, <2>3 DEF ChainInv
  <2> QED BY <1>1, <2>1, <2>2, <2>3 DEF FrontGoes
<1>2. CASE NothingToSend(t, <<>>, r, q)
  BY <1>2 DEF NothingToSend, ChainInv
<1>3. CASE callList # <<>> /\ callList' = <<>> /\ FrontGoes(callList, <<>>, r, q)
  BY <1>1, <1>3
<1>4. CASE t # <<>> /\ callList' = callList /\ FrontGoes(t, <<>>, r, q)
  BY <1>1, <1>4
<1> QED BY <1>2, <1>3, <1>4 DEF ChainGoes

\* start_rpc_service of a new connection starts the one chain of sends.
LEMMA SucceedsKeepsSender ==
  ASSUME SenderInv, TypeOK', NEW q \in Seq(StaleHandler), ConnectSucceeds(q), connFor # {},
         ~crossed => connOp' = "none" /\ writes = <<>> /\ (open => q = <<>> /\ retries = 0)
  PROVE  SenderInv'
<1> DEFINE aft == q \o IF open THEN <<>> ELSE <<[op |-> "recv"]>>
<1>1. aft \in Seq(StaleHandler)
  <2>1. [op |-> "recv"] \in StaleHandler
    BY DEF StaleHandler
  <2>2. (IF open THEN <<>> ELSE <<[op |-> "recv"]>>) \in Seq(StaleHandler)
    BY <2>1
  <2> QED BY <2>2, ConcatProperties
<1>2. open /\ q = <<>> => aft = <<>>
  BY ConcatProperties
<1>3. CallImpl(toCalls, writes, retries, aft)
  BY DEF ConnectSucceeds
<1> HIDE DEF aft
<1>4. /\ toCalls \in Seq(Calls) /\ retries \in Nat /\ callList \in Seq(Calls)
      /\ open \in BOOLEAN /\ writes \in Seq(WriteOp)
  BY DEF SenderInv, TypeOK, WriteOp
<1>5. ChainGoes(toCalls, writes, retries, aft)
  BY <1>3, <1>4, CallImplEffect DEF ChainGoes
<1>6. open' = open /\ status' = "connected" /\ connFor' = {} /\ readMsg' = readMsg
      /\ readCtx' = readCtx /\ reading' = (IF open THEN "head" ELSE "none")
      /\ crossed' = crossed
  BY DEF ConnectSucceeds, attempts
<1>7. BaseInv /\ QueueInv
  BY DEF SenderInv
<1>8. readMsg = {} /\ readCtx = {} /\ (~open => writes = <<>>)
  BY <1>7 DEF BaseInv
<1>9. toCalls # <<>> => writes # <<>> \/ retries > 0 \/ stranded
  BY <1>7 DEF QueueInv
<1>10. QueueInv' /\ (~open => writes' = writes)
  BY <1>4, <1>5, <1>9, ChainKeepsQueue
<1>11. BaseInv'
  BY <1>4, <1>6, <1>8, <1>10 DEF BaseInv
<1>12. ASSUME ~crossed PROVE ConnInv' /\ ChainInv'
  <2>1. /\ connOp' = "none" /\ (aft # <<>> => ~open) /\ (retries = 0 \/ ~open)
        /\ ChainGoes(toCalls, <<>>, retries, aft)
    BY <1>2, <1>4, <1>5, <1>12
  <2>2. ChainInv' /\ (stale' # <<>> => ~open)
    BY <1>1, <1>4, <1>6, <2>1, ChainKeepsSender
  <2> QED BY <1>6, <2>1, <2>2 DEF ConnInv
<1> QED BY <1>6, <1>10, <1>11, <1>12 DEF SenderInv

\* An operation that leaves the connection and the chain alone.
LEMMA UnchangedSender ==
  ASSUME SenderInv, TypeOK',
         UNCHANGED <<status, open, connOp, connFor, crossed, toCalls, stranded, triggers,
                     retries, writes, stale, callList, reading, readMsg, readCtx>>,
         \A c \in connFor : pc'[c] = "connecting"
  PROVE  SenderInv'
<1>1. ConnInv => ConnInv'
  BY DEF ConnInv, Drained
<1>2. ChainInv => ChainInv'
  BY DEF ChainInv
<1>3. BaseInv' /\ QueueInv'
  BY DEF SenderInv, BaseInv, QueueInv
<1> QED BY <1>1, <1>2, <1>3 DEF SenderInv

\* The inductive step: which of the posted functions, handlers and timers runs next
\* does not matter.
LEMMA SenderStep == SenderInv /\ [Next]_vars => SenderInv'
<1> SUFFICES ASSUME SenderInv, [Next]_vars PROVE SenderInv'
  OBVIOUS
<1> USE DEF vars, connVars, callVars, ioVars, peerVars, attempts, sending
<1>0. TypeOK /\ BaseInv /\ QueueInv /\ (~crossed => ConnInv /\ ChainInv)
  BY DEF SenderInv
<1>1. TypeOK'
  BY <1>0, TypeStep
<1>2. /\ toCalls \in Seq(Calls) /\ callList \in Seq(Calls) /\ retries \in Nat
      /\ triggers \in Nat /\ writes \in Seq(WriteOp) /\ stale \in Seq(StaleHandler)
      /\ open \in BOOLEAN /\ pc \in [Calls -> {"new", "connect", "connecting", "push",
                              "issued", "waiting", "returned", "threw"}]
      /\ connFor \subseteq Calls
  BY <1>0 DEF TypeOK, WriteOp
<1>3. CASE UNCHANGED vars
  BY <1>0, <1>1, <1>3, UnchangedSender DEF BaseInv
<1>4. ASSUME NEW c \in Calls, CallBegin(c) PROVE SenderInv'
  <2>1. \A d \in connFor : pc'[d] = "connecting"
    BY <1>0, <1>2, <1>4 DEF CallBegin, BaseInv
  <2> QED BY <1>1, <1>4, <2>1, UnchangedSender DEF CallBegin
<1>5. ASSUME NEW c \in Calls, CallConnect(c) PROVE SenderInv'
  <2>1. CASE status # "disconnected"
    <3>1. \A d \in connFor : pc'[d] = "connecting"
      BY <1>0, <1>2, <1>5, <2>1 DEF CallConnect, BaseInv
    <3> QED BY <1>1, <1>5, <2>1, <3>1, UnchangedSender DEF CallConnect
  <2>2. CASE status = "disconnected"
    <3>1. /\ status' = "connecting" /\ open' = TRUE
          /\ crossed' = (crossed \/ ~Drained)
          /\ connOp' = "pending" /\ connFor' = {c} /\ pc'[c] = "connecting"
          /\ UNCHANGED <<toCalls, stranded, triggers, retries, writes, stale, callList,
                         reading, readMsg, readCtx>>
      BY <1>2, <1>5, <2>2 DEF CallConnect
    <3>2. writes = <<>> /\ reading = "none" /\ readMsg = {} /\ readCtx = {}
      BY <1>0, <1>2, <2>2 DEF BaseInv
    <3>3. BaseInv'
      BY <3>1, <3>2 DEF BaseInv
    <3>4. QueueInv'
      BY <1>0, <3>1 DEF QueueInv
    <3>5. ASSUME Drained PROVE ConnInv'
      BY <1>2, <3>1, <3>2, <3>5 DEF ConnInv, Drained
    <3>6. ASSUME Drained PROVE ChainInv'
      BY <1>2, <3>1, <3>2, <3>6 DEF ChainInv, Drained
    <3> QED BY <1>1, <3>1, <3>3, <3>4, <3>5, <3>6 DEF SenderInv
  <2> QED BY <2>1, <2>2
<1>6. ASSUME NEW c \in Calls, CallPush(c) PROVE SenderInv'
  <2>1. \A d \in connFor : pc'[d] = "connecting"
    BY <1>0, <1>2, <1>6 DEF CallPush, BaseInv
  <2>2. CASE status = "disconnected"
    BY <1>1, <1>6, <2>1, <2>2, UnchangedSender DEF CallPush
  <2>3. CASE status # "disconnected"
    <3>1. /\ callList' = Append(callList, c)
          /\ triggers' = IF PostsTrigger(callList) THEN triggers + 1 ELSE triggers
          /\ UNCHANGED <<status, open, connOp, connFor, crossed, toCalls, stranded, retries,
                         writes, stale, reading, readMsg, readCtx>>
      BY <1>6, <2>3 DEF CallPush
    <3>2. status = "connecting" => triggers' = triggers
      BY <3>1 DEF PostsTrigger
    <3>3. BaseInv'
      BY <1>0, <2>1, <3>1 DEF BaseInv
    <3>4. QueueInv'
      BY <1>0, <1>2, <3>1 DEF QueueInv, PostsTrigger
    <3>5. ConnInv => ConnInv'
      BY <3>1, <3>2 DEF ConnInv, Drained
    <3>6. ChainInv => ChainInv'
      BY <3>1 DEF ChainInv
    <3> QED BY <1>0, <1>1, <3>1, <3>3, <3>4, <3>5, <3>6 DEF SenderInv
  <2> QED BY <2>2, <2>3
<1>7. ASSUME NEW c \in Calls, WaitReturn(c) PROVE SenderInv'
  <2>1. \A d \in connFor : pc'[d] = "connecting"
    BY <1>0, <1>2, <1>7 DEF WaitReturn, BaseInv
  <2> QED BY <1>1, <1>7, <2>1, UnchangedSender DEF WaitReturn
<1>8. ASSUME NEW c \in Calls, Cancel(c) PROVE SenderInv'
  BY <1>0, <1>1, <1>8, UnchangedSender DEF Cancel, BaseInv
<1>9. ASSUME NEW c \in Calls, Timeout(c) PROVE SenderInv'
  BY <1>0, <1>1, <1>9, UnchangedSender DEF Timeout, BaseInv
<1>10. CASE Disconnect
  <2>1. \A c \in connFor' : pc'[c] = "connecting"
    BY <1>0, <1>10 DEF Disconnect, BaseInv
  <2> QED BY <1>1, <1>10, <2>1, StopKeepsSender DEF Disconnect
<1>11. ASSUME UNCHANGED <<status, open, connFor, crossed, toCalls, stranded, triggers,
                          retries, writes, stale, callList, reading, readMsg, readCtx, pc>>,
              ConnInv => ConnInv'
       PROVE  SenderInv'
  <2>1. BaseInv'
    BY <1>0, <1>11 DEF BaseInv
  <2>2. QueueInv'
    BY <1>0, <1>11 DEF QueueInv
  <2>3. ChainInv => ChainInv'
    BY <1>11 DEF ChainInv
  <2> QED BY <1>0, <1>1, <1>11, <2>1, <2>2, <2>3 DEF SenderInv
<1>12. CASE ConnectReady
  <2>1. ConnInv => ConnInv'
    BY <1>12 DEF ConnectReady, ConnInv, Drained
  <2> QED BY <1>11, <1>12, <2>1 DEF ConnectReady
<1>13. ASSUME NEW o, NobodyTold(o), connOp # "none" PROVE SenderInv'
  <2>1. ~ConnInv
    BY <1>13 DEF ConnInv, NobodyTold
  <2> QED BY <1>11, <1>13, <2>1 DEF NobodyTold
<1>14. CASE HandleConnectOk
  <2>1. CASE connFor # {} /\ connOp' = "none" /\ ConnectSucceeds(stale)
    <3>1. ~crossed => writes = <<>> /\ stale = <<>> /\ retries = 0
      BY <1>0, <1>14 DEF HandleConnectOk, ConnInv, Drained
    <3> QED BY <1>1, <1>2, <2>1, <3>1, SucceedsKeepsSender
  <2> QED BY <1>13, <1>14, <2>1 DEF HandleConnectOk
<1>15. ASSUME NEW q, ConnectFails(q) PROVE SenderInv'
  <2>1. \A c \in connFor' : pc'[c] = "connecting"
    BY <1>15 DEF ConnectFails
  <2> QED BY <1>1, <1>15, <2>1, StopKeepsSender DEF ConnectFails
<1>16. CASE HandleConnectFail
  BY <1>13, <1>15, <1>16 DEF HandleConnectFail
<1>17. ASSUME NEW t \in Seq(Calls), NEW w \in Seq(WriteOp), NEW r \in Nat,
              NEW q \in Seq(StaleHandler), ChainGoes(t, w, r, q),
              t # <<>> => FrontGoes(t, w, r, q) \/ w # <<>> \/ r > 0 \/ stranded,
              ~open => w = <<>>, UNCHANGED <<connVars, reading, readMsg, readCtx, pc>>,
              ~crossed => w = <<>> /\ q = stale /\ (r = 0 \/ ~open) /\ connOp = "none"
       PROVE  SenderInv'
  <2>1. QueueInv' /\ (~open => writes' = w)
    BY <1>2, <1>17, ChainKeepsQueue
  <2>2. BaseInv'
    BY <1>0, <1>17, <2>1 DEF BaseInv
  <2>3. ASSUME ~crossed PROVE ConnInv' /\ ChainInv'
    <3>1. ConnInv /\ ChainGoes(t, <<>>, r, stale) /\ (r = 0 \/ ~open) /\ connOp = "none"
      BY <1>0, <1>17, <2>3
    <3>2. (stale # <<>> => ~open) /\ open' = open
      BY <1>17, <3>1 DEF ConnInv
    <3>3. ChainInv' /\ (stale' # <<>> => ~open)
      BY <1>2, <3>1, <3>2, ChainKeepsSender
    <3>4. ConnInv'
      BY <1>17, <3>1, <3>3 DEF ConnInv
    <3> QED BY <3>3, <3>4
  <2> QED BY <1>1, <1>17, <2>1, <2>2, <2>3 DEF SenderInv
<1>18. toCalls # <<>> => writes # <<>> \/ retries > 0 \/ stranded
  BY <1>0 DEF QueueInv
<1>19. ~open => writes = <<>>
  BY <1>0 DEF BaseInv
<1>20. stale # <<>> /\ ~crossed => ~open /\ connOp = "none"
  BY <1>0 DEF ConnInv
<1>21. CASE RunStale
  <2>1. stale # <<>> /\ Tail(stale) \in Seq(StaleHandler)
    BY <1>2, <1>21 DEF RunStale, StaleConnect, StaleReturns, StaleFails, StaleSent
  <2>2. CASE StaleConnect
    <3>1. CASE ConnectSucceeds(Tail(stale)) /\ UNCHANGED connOp
      <4>1. connFor # {}
        BY <2>2 DEF StaleConnect
      <4> QED BY <1>1, <1>19, <1>20, <2>1, <3>1, <4>1, SucceedsKeepsSender
    <3>2. CASE ConnectFails(Tail(stale) \o AbortedAll)
      BY <1>15, <3>2
    <3> QED BY <2>2, <3>1, <3>2 DEF StaleConnect
  <2>3. CASE StaleReturns
    <3>1. /\ stale' = Tail(stale)
          /\ UNCHANGED <<status, open, connOp, connFor, crossed, toCalls, stranded, triggers,
                         retries, writes, callList, reading, readMsg, readCtx, pc>>
      BY <2>3 DEF StaleReturns
    <3>2. BaseInv'
      BY <1>0, <3>1 DEF BaseInv
    <3>3. QueueInv'
      BY <1>0, <3>1 DEF QueueInv
    <3>4. ChainInv => ChainInv'
      BY <3>1 DEF ChainInv
    <3>5. ~crossed => ConnInv'
      BY <1>0, <1>20, <2>1, <3>1 DEF ConnInv
    <3> QED BY <1>0, <1>1, <3>1, <3>2, <3>3, <3>4, <3>5 DEF SenderInv
  <2>4. CASE StaleFails
    <3>1. \A c \in connFor' : pc'[c] = "connecting"
      BY <1>0, <2>4 DEF StaleFails, BaseInv
    <3> QED BY <1>1, <2>4, <3>1, StopKeepsSender DEF StaleFails
  <2>5. CASE StaleSent
    <3>1. open /\ toCalls # <<>> /\ SendOn(FrontPopped, writes, retries, Tail(stale))
          /\ UNCHANGED <<connVars, reading, readMsg, readCtx, pc>>
      BY <2>5 DEF StaleSent
    <3>2. FrontPopped \in Seq(Calls)
      BY <1>2, <3>1 DEF FrontPopped
    <3>3. /\ ChainGoes(FrontPopped, writes, retries, Tail(stale))
          /\ FrontPopped # <<>> => FrontGoes(FrontPopped, writes, retries, Tail(stale))
      BY <1>2, <3>1, <3>2, SendOnEffect
    <3>4. crossed
      BY <1>0, <1>20, <2>1, <3>1
    <3> QED BY <1>2, <1>17, <2>1, <3>1, <3>2, <3>3, <3>4
  <2> QED BY <1>21, <2>2, <2>3, <2>4, <2>5 DEF RunStale
<1>22. CASE WriteReachesPeer
  <2>1. writes # <<>> /\ writes' = [writes EXCEPT ![1] = [writes[1] EXCEPT !.onWire = TRUE]]
    BY <1>22 DEF WriteReachesPeer
  <2>2. Head(writes) = writes[1] /\ writes[1] \in WriteOp
    BY <1>2, <2>1
  <2>3. [writes[1] EXCEPT !.onWire = TRUE].ctx = writes[1].ctx
    BY <2>2 DEF WriteOp
  <2>4. Len(writes') = Len(writes) /\ Head(writes').ctx = Head(writes).ctx /\ writes' # <<>>
    <3>1. writes' \in Seq(WriteOp)
      BY <1>1 DEF TypeOK, WriteOp
    <3>2. DOMAIN writes' = DOMAIN writes /\ writes'[1] = [writes[1] EXCEPT !.onWire = TRUE]
      <4>1. 1 \in DOMAIN writes
        BY <1>2, <2>1
      <4> QED BY <2>1, <4>1
    <3>3. Len(writes') = Len(writes)
      BY <1>2, <3>1, <3>2, LenProperties
    <3>4. Head(writes') = writes'[1] /\ writes' # <<>>
      <4>1. Len(writes) # 0
        BY <1>2, <2>1, EmptySeq
      <4> QED BY <3>1, <3>3, <4>1, EmptySeq
    <3> QED BY <2>2, <2>3, <3>2, <3>3, <3>4
  <2>5. UNCHANGED <<status, open, connOp, connFor, crossed, toCalls, stranded, triggers,
                    retries, stale, callList, reading, readMsg, readCtx, pc>>
    BY <1>22 DEF WriteReachesPeer
  <2>6. ConnInv => ConnInv'
    BY <2>1, <2>5 DEF ConnInv
  <2>7. ChainInv => ChainInv'
    BY <2>1, <2>4, <2>5 DEF ChainInv
  <2>8. BaseInv'
    BY <1>0, <2>1, <2>5 DEF BaseInv
  <2>9. QueueInv'
    BY <1>0, <2>4, <2>5 DEF QueueInv
  <2> QED BY <1>0, <1>1, <2>5, <2>6, <2>7, <2>8, <2>9 DEF SenderInv
<1>23. CASE HandleSend
  <2>1. /\ writes # <<>> /\ toCalls # <<>>
        /\ SendOn(FrontPopped, Tail(writes), retries, stale)
        /\ UNCHANGED <<connVars, reading, readMsg, readCtx, pc>>
    BY <1>23 DEF HandleSend
  <2>2. FrontPopped \in Seq(Calls) /\ Tail(writes) \in Seq(WriteOp)
    BY <1>2, <2>1 DEF FrontPopped
  <2>3. /\ ChainGoes(FrontPopped, Tail(writes), retries, stale)
        /\ FrontPopped # <<>> => FrontGoes(FrontPopped, Tail(writes), retries, stale)
    BY <1>2, <2>1, <2>2, SendOnEffect
  <2>4. ASSUME ~crossed PROVE Tail(writes) = <<>> /\ retries = 0 /\ connOp = "none"
    <3>1. ConnInv /\ ChainInv
      BY <1>0, <2>4
    <3>2. Len(writes) <= 1 /\ retries = 0 /\ connOp = "none"
      BY <2>1, <3>1 DEF ChainInv, ConnInv
    <3>3. Len(writes) \in Nat /\ Len(writes) # 0
      BY <1>2, <2>1, EmptySeq, LenProperties
    <3>4. \A n \in Nat : n <= 1 /\ n # 0 => n = 1
      OBVIOUS
    <3>5. Len(writes) = 1
      BY <3>2, <3>3, <3>4
    <3>6. Len(Tail(writes)) = 0
      BY <1>2, <2>1, <3>5, HeadTailProperties
    <3> QED BY <2>2, <3>2, <3>6, EmptySeq
  <2> QED BY <1>2, <1>17, <1>19, <2>1, <2>2, <2>3, <2>4
<1>24. CASE SendFails
  <2>1. \A c \in connFor' : pc'[c] = "connecting"
    BY <1>0, <1>24 DEF SendFails, BaseInv
  <2> QED BY <1>1, <1>24, <2>1, StopKeepsSender DEF SendFails
<1>25. CASE RunTrigger
  <2>0. triggers > 0 /\ UNCHANGED <<connVars, reading, readMsg, readCtx, pc>>
    BY <1>25 DEF RunTrigger
  <2>1. ConnInv => connOp = "none"
    BY <1>2, <2>0 DEF ConnInv, Drained
  <2>2. CASE SenderIdle
    <3>1. toCalls = <<>>
      BY <2>2 DEF SenderIdle
    <3>2. ~crossed => writes = <<>> /\ (retries = 0 \/ ~open) /\ connOp = "none"
      BY <1>0, <1>2, <2>1, <3>1 DEF ChainInv
    <3>3. ChainGoes(toCalls, writes, retries, stale)
      BY <1>2, <1>25, <2>2, CallImplEffect DEF RunTrigger, ChainGoes
    <3> QED BY <1>2, <1>17, <1>18, <1>19, <2>0, <3>2, <3>3
  <2>3. CASE ~SenderIdle
    <3>1. UNCHANGED <<status, open, connOp, connFor, crossed, toCalls, stranded, retries,
                      writes, stale, callList, reading, readMsg, readCtx, pc>>
      BY <1>25, <2>3 DEF RunTrigger
    <3>2. ConnInv => ConnInv'
      BY <2>1, <3>1 DEF ConnInv
    <3>3. ChainInv => ChainInv'
      BY <3>1 DEF ChainInv
    <3>4. BaseInv'
      BY <1>0, <3>1 DEF BaseInv
    <3>5. QueueInv'
      BY <1>0, <2>3, <3>1 DEF QueueInv, SenderIdle
    <3> QED BY <1>0, <1>1, <3>1, <3>2, <3>3, <3>4, <3>5 DEF SenderInv
  <2> QED BY <2>2, <2>3
<1>26. CASE RunRetry
  <2>1. /\ retries > 0 /\ retries - 1 \in Nat
        /\ SendOn(toCalls, writes, retries - 1, stale)
        /\ UNCHANGED <<connVars, reading, readMsg, readCtx, pc>>
    BY <1>2, <1>26 DEF RunRetry
  <2>2. ~crossed => writes = <<>> /\ (retries - 1 = 0 \/ ~open) /\ connOp = "none"
    BY <1>0, <1>2, <2>1 DEF ChainInv, ConnInv, Drained
  <2>3. /\ ChainGoes(toCalls, writes, retries - 1, stale)
        /\ toCalls # <<>> => FrontGoes(toCalls, writes, retries - 1, stale)
    BY <1>2, <2>1, SendOnEffect
  <2> QED BY <1>2, <1>17, <1>19, <2>1, <2>2, <2>3
<1>27. ASSUME NEW m \in Reply, ServerReply(m) PROVE SenderInv'
  BY <1>0, <1>1, <1>27, UnchangedSender DEF ServerReply, BaseInv
<1>28. ASSUME UNCHANGED <<status, open, connOp, connFor, crossed, toCalls, stranded, triggers,
                          retries, writes, stale, callList, pc>>,
              connFor = {}, BaseInv'
       PROVE  SenderInv'
  <2>1. QueueInv'
    BY <1>0, <1>28 DEF QueueInv
  <2>2. (ConnInv => ConnInv') /\ (ChainInv => ChainInv')
    BY <1>28 DEF ConnInv, ChainInv, Drained
  <2> QED BY <1>0, <1>1, <1>28, <2>1, <2>2 DEF SenderInv
<1>29. CASE HandleRecvHead
  <2> DEFINE m == Head(replies)
  <2>0. /\ reading = "head"
        /\ UNCHANGED <<connFor, crossed, callList, triggers, retries, pc>>
    BY <1>29 DEF HandleRecvHead
  <2>1. open /\ connFor = {}
    BY <1>0, <2>0 DEF BaseInv
  <2>2. CASE m.kind \in {"empty", "fail"}
    <3>1. UNCHANGED <<status, open, connOp, toCalls, stranded, writes, stale, reading,
                      readMsg, readCtx>>
      BY <1>29, <2>2 DEF HandleRecvHead
    <3> QED BY <1>0, <1>1, <2>0, <3>1, UnchangedSender DEF BaseInv
  <2>3. CASE m.kind = "body"
    <3>1. /\ reading' = "body"
          /\ UNCHANGED <<status, open, connOp, toCalls, stranded, writes, stale>>
      BY <1>29, <2>3 DEF HandleRecvHead
    <3>2. BaseInv'
      BY <1>0, <2>0, <2>1, <3>1 DEF BaseInv
    <3> QED BY <1>28, <2>0, <2>1, <3>1, <3>2
  <2>4. CASE m.kind = "huge"
    <3>1. StopService("invalid_header", {}, Matching(m.id),
                      stale \o AbortedSends \o AbortedConnect)
      BY <1>29, <2>4 DEF HandleRecvHead
    <3>2. \A c \in connFor' : pc'[c] = "connecting"
      BY <1>0, <2>0 DEF BaseInv
    <3> QED BY <1>1, <2>0, <3>1, <3>2, StopKeepsSender
  <2> QED BY <1>29, <2>2, <2>3, <2>4 DEF HandleRecvHead
<1>30. CASE HandleRecvBody
  <2>1. /\ reading = "body" /\ reading' = "head" /\ readMsg' = {} /\ readCtx' = {}
        /\ UNCHANGED <<connVars, callVars, triggers, retries, writes, stale, pc>>
    BY <1>30 DEF HandleRecvBody
  <2>2. connFor = {} /\ BaseInv'
    BY <1>0, <2>1 DEF BaseInv
  <2> QED BY <1>28, <2>1, <2>2
<1>31. CASE RecvFails
  <2>1. \A c \in connFor' : pc'[c] = "connecting"
    BY <1>0, <1>31 DEF RecvFails, BaseInv
  <2> QED BY <1>1, <1>31, <2>1, StopKeepsSender DEF RecvFails
<1>32. CASE Corrupts
  BY <1>0, <1>1, <1>32, UnchangedSender DEF Corrupts, BaseInv
<1> QED BY <1>3, <1>4, <1>5, <1>6, <1>7, <1>8, <1>9, <1>10, <1>12, <1>14, <1>16, <1>21,
           <1>22, <1>23, <1>24, <1>25, <1>26, <1>27, <1>29, <1>30, <1>31, <1>32
        DEF Next, Step, CallStep, PeerReplies

\* The connection and its chain of sends in every reachable state, for any calls, hooks
\* and number of connections.
THEOREM SenderInvariant == Spec => []SenderInv
<1>1. Init => SenderInv
  BY InitSender
<1>2. SenderInv /\ [Next]_vars => SenderInv'
  BY SenderStep
<1> QED BY <1>1, <1>2, PTL DEF Spec

\* One async_write at a time, of the front of to_calls_, which handle_send pops, until
\* start() is called with handlers or posted functions of an older connection queued.
THEOREM SingleWriteHolds == Spec => []SingleWrite
<1>1. SenderInv => SingleWrite
  <2> SUFFICES ASSUME SenderInv, ~crossed, writes # <<>>
               PROVE  Len(writes) = 1 /\ toCalls # <<>> /\ Head(writes).ctx = Head(toCalls)
    BY DEF SingleWrite
  <2>1. Len(writes) <= 1 /\ toCalls # <<>> /\ Head(writes).ctx = Head(toCalls)
    BY DEF SenderInv, ChainInv
  <2>2. writes \in Seq(WriteOp)
    BY DEF SenderInv, TypeOK, WriteOp
  <2>3. Len(writes) \in Nat \ {0}
    BY <2>2, EmptySeq
  <2>4. \A n \in Nat \ {0} : n <= 1 => n = 1
    OBVIOUS
  <2> QED BY <2>1, <2>3, <2>4
<1> QED BY <1>1, SenderInvariant, PTL

\* On a connected channel a queued call has a write in flight, a posted retry or a posted
\* function that will send it, even when handlers of an older connection are about; the
\* exception is a to_calls_ that was written to a closed socket.
THEOREM QueueHasSenderHolds == Spec => []QueueHasSender
<1>1. SenderInv => QueueHasSender
  BY DEF SenderInv, QueueInv, QueueHasSender
<1> QED BY <1>1, SenderInvariant, PTL

-----------------------------------------------------------------------------
(* The order of the requests *)

\* call_context queues one call behind all the others.
LEMMA PrecedesAppend ==
  ASSUME NEW acc \in Seq(Calls), NEW c \in Calls
  PROVE  /\ \A a, b : Precedes(acc, a, b) => Precedes(Append(acc, c), a, b)
         /\ \A a : InSeq(a, acc) => InSeq(a, Append(acc, c)) /\ Precedes(Append(acc, c), a, c)
         /\ InSeq(c, Append(acc, c))
<1> DEFINE app == Append(acc, c)
<1>1. /\ DOMAIN app = 1 .. Len(acc) + 1 /\ DOMAIN acc = 1 .. Len(acc)
      /\ \A i \in DOMAIN acc : app[i] = acc[i]
      /\ app[Len(acc) + 1] = c
      /\ Len(acc) \in Nat
  OBVIOUS
<1> HIDE DEF app
<1>2. ASSUME NEW a, NEW b, Precedes(acc, a, b) PROVE Precedes(app, a, b)
  <2>1. PICK p, q \in DOMAIN acc : p < q /\ acc[p] = a /\ acc[q] = b
    BY <1>2 DEF Precedes
  <2>2. p \in DOMAIN app /\ q \in DOMAIN app
    BY <1>1
  <2> QED BY <1>1, <2>1, <2>2 DEF Precedes
<1>3. ASSUME NEW a, InSeq(a, acc) PROVE InSeq(a, app) /\ Precedes(app, a, c)
  <2>1. PICK p \in DOMAIN acc : acc[p] = a
    BY <1>3 DEF InSeq
  <2>2. p \in DOMAIN app /\ Len(acc) + 1 \in DOMAIN app /\ p < Len(acc) + 1
    BY <1>1
  <2> QED BY <1>1, <2>1, <2>2 DEF InSeq, Precedes
<1>4. InSeq(c, app)
  <2>1. Len(acc) + 1 \in DOMAIN app
    BY <1>1
  <2> QED BY <1>1, <2>1 DEF InSeq
<1> QED BY <1>2, <1>3, <1>4 DEF app

\* A call that call_context queues comes after all that were queued before it.
LEMMA OrderAppend ==
  ASSUME NEW acc \in Seq(Calls), NEW c \in Calls, NEW s \in Seq(Calls), NEW t \in Seq(Calls),
         NEW left, AllIn(acc, s), AllIn(acc, t)
  PROVE  /\ AllIn(Append(acc, c), s) /\ AllIn(Append(acc, c), Append(t, c))
         /\ Ordered(acc, s) => Ordered(Append(acc, c), s)
         /\ Ordered(acc, t) => Ordered(Append(acc, c), Append(t, c))
         /\ AllPrecede(acc, s, t) => AllPrecede(Append(acc, c), s, Append(t, c))
         /\ SentBefore(acc, s, t, left) => SentBefore(Append(acc, c), s, t, left)
<1> DEFINE app == Append(acc, c)
           tc == Append(t, c)
<1>1. /\ DOMAIN tc = 1 .. Len(t) + 1 /\ DOMAIN t = 1 .. Len(t)
      /\ \A i \in DOMAIN t : tc[i] = t[i]
      /\ tc[Len(t) + 1] = c
      /\ Len(t) \in Nat
  OBVIOUS
<1>2. /\ \A a, b : Precedes(acc, a, b) => Precedes(app, a, b)
      /\ \A a : InSeq(a, acc) => InSeq(a, app) /\ Precedes(app, a, c)
      /\ InSeq(c, app)
  BY PrecedesAppend
<1> HIDE DEF app, tc
<1>3. AllIn(app, s)
  BY <1>2 DEF AllIn
<1>4. AllIn(app, tc)
  <2> SUFFICES ASSUME NEW i \in DOMAIN tc PROVE InSeq(tc[i], app)
    BY DEF AllIn
  <2>1. i \in DOMAIN t \/ i = Len(t) + 1
    BY <1>1
  <2> QED BY <1>1, <1>2, <2>1 DEF AllIn
<1>5. Ordered(acc, s) => Ordered(app, s)
  BY <1>2 DEF Ordered
<1>6. ASSUME Ordered(acc, t) PROVE Ordered(app, tc)
  <2> SUFFICES ASSUME NEW i \in DOMAIN tc, NEW j \in DOMAIN tc, i < j
               PROVE  Precedes(app, tc[i], tc[j])
    BY DEF Ordered
  <2>1. i \in DOMAIN t /\ (j \in DOMAIN t \/ j = Len(t) + 1)
    BY <1>1
  <2>2. CASE j \in DOMAIN t
    BY <1>1, <1>2, <1>6, <2>1, <2>2 DEF Ordered
  <2>3. CASE j = Len(t) + 1
    BY <1>1, <1>2, <2>1, <2>3 DEF AllIn
  <2> QED BY <2>1, <2>2, <2>3
<1>7. ASSUME AllPrecede(acc, s, t) PROVE AllPrecede(app, s, tc)
  <2> SUFFICES ASSUME NEW i \in DOMAIN s, NEW j \in DOMAIN tc PROVE Precedes(app, s[i], tc[j])
    BY DEF AllPrecede
  <2>1. j \in DOMAIN t \/ j = Len(t) + 1
    BY <1>1
  <2>2. CASE j \in DOMAIN t
    BY <1>1, <1>2, <1>7, <2>2 DEF AllPrecede
  <2>3. CASE j = Len(t) + 1
    BY <1>1, <1>2, <2>3 DEF AllIn
  <2> QED BY <2>1, <2>2, <2>3
<1>8. SentBefore(acc, s, t, left) => SentBefore(app, s, t, left)
  BY <1>2 DEF SentBefore
<1> QED BY <1>3, <1>4, <1>5, <1>6, <1>7, <1>8 DEF app, tc

\* handle_send goes on with the rest of to_calls_.
LEMMA OrderTail ==
  ASSUME NEW acc, NEW s, NEW t \in Seq(Calls), t # <<>>, NEW u, NEW left
  PROVE  /\ AllIn(acc, t) => AllIn(acc, Tail(t))
         /\ Ordered(acc, t) => Ordered(acc, Tail(t))
         /\ AllPrecede(acc, t, u) => AllPrecede(acc, Tail(t), u)
         /\ SentBefore(acc, s, t, left) => AllPrecede(acc, s, Tail(t))
<1>1. /\ DOMAIN t = 1 .. Len(t) /\ DOMAIN Tail(t) = 1 .. Len(t) - 1
      /\ \A i \in DOMAIN Tail(t) : Tail(t)[i] = t[i + 1]
      /\ Len(t) \in Nat \ {0}
  BY HeadTailProperties, EmptySeq
<1> DEFINE r == Tail(t)
<1> HIDE DEF r
<1>2. \A i \in DOMAIN r : i \in Nat /\ i + 1 \in DOMAIN t /\ r[i] = t[i + 1] /\ i + 1 > 1
  BY <1>1 DEF r
<1>3. AllIn(acc, t) => AllIn(acc, r)
  BY <1>2 DEF AllIn
<1>4. Ordered(acc, t) => Ordered(acc, r)
  BY <1>2 DEF Ordered
<1>5. AllPrecede(acc, t, u) => AllPrecede(acc, r, u)
  BY <1>2 DEF AllPrecede
<1>6. SentBefore(acc, s, t, left) => AllPrecede(acc, s, r)
  BY <1>2 DEF AllPrecede, SentBefore
<1> QED BY <1>3, <1>4, <1>5, <1>6 DEF r

\* A new channel has queued and sent nothing.
LEMMA InitOrder == Init => ArrivalInv
  BY DEF Init, ArrivalInv, AcceptInv, OrderInv, Ordered, AllPrecede, AllIn, CtxIn, SentBefore

\* Nothing is queued and nothing leaves: to_calls_ is as it was, has lost its front, is
\* cleared, or is replaced by call_list_.
LEMMA OrderKept ==
  ASSUME SenderInv, ArrivalInv, UNCHANGED <<accepted, sent, crossed>>,
         \A c \in Calls : pc[c] \notin Unpushed => pc'[c] \notin Unpushed,
         CtxIn(accepted, writes'),
         \/ toCalls' = toCalls /\ callList' = callList /\ (crossed \/ (FrontLeft => FrontLeft'))
         \/ toCalls' = <<>> /\ callList' = callList
         \/ toCalls # <<>> /\ toCalls' = Tail(toCalls) /\ callList' = callList
         \/ toCalls' = callList /\ callList' = <<>>
  PROVE  ArrivalInv'
<1>0. toCalls \in Seq(Calls) /\ callList \in Seq(Calls) /\ accepted \in Seq(Calls)
  BY DEF SenderInv, TypeOK
<1>1. AcceptInv /\ (~crossed => OrderInv)
  BY DEF ArrivalInv
<1>2. AcceptInv'
  <2>1. AllIn(accepted, toCalls') /\ AllIn(accepted, callList')
    <3>1. AllIn(accepted, <<>>)
      BY DEF AllIn
    <3>2. toCalls # <<>> => AllIn(accepted, Tail(toCalls))
      BY <1>0, <1>1, OrderTail DEF AcceptInv
    <3> QED BY <1>1, <3>1, <3>2 DEF AcceptInv
  <2> QED BY <1>0, <1>1, <2>1 DEF AcceptInv
<1>3. ASSUME OrderInv, ~crossed PROVE OrderInv'
  <2>1. SUFFICES /\ Ordered(accepted, toCalls') /\ Ordered(accepted, callList')
                 /\ AllPrecede(accepted, sent, callList')
                 /\ AllPrecede(accepted, toCalls', callList')
                 /\ SentBefore(accepted, sent, toCalls', FrontLeft')
    BY <1>3 DEF OrderInv
  <2> USE <1>3 DEF OrderInv
  <2>2. CASE toCalls' = toCalls /\ callList' = callList /\ (FrontLeft => FrontLeft')
    <3>1. SentBefore(accepted, sent, toCalls', FrontLeft')
      BY <2>2 DEF SentBefore
    <3> QED BY <2>2, <3>1
  <2>3. CASE toCalls' = <<>> /\ callList' = callList
    BY <2>3 DEF Ordered, AllPrecede, SentBefore
  <2>4. CASE toCalls # <<>> /\ toCalls' = Tail(toCalls) /\ callList' = callList
    <3>1. /\ Ordered(accepted, toCalls') /\ AllPrecede(accepted, toCalls', callList')
          /\ AllPrecede(accepted, sent, toCalls')
      BY <1>0, <2>4, OrderTail
    <3>2. SentBefore(accepted, sent, toCalls', FrontLeft')
      BY <3>1 DEF SentBefore, AllPrecede
    <3> QED BY <2>4, <3>1, <3>2
  <2>5. CASE toCalls' = callList /\ callList' = <<>>
    <3>1. SentBefore(accepted, sent, toCalls', FrontLeft')
      BY <2>5 DEF SentBefore, AllPrecede
    <3>2. Ordered(accepted, <<>>) /\ AllPrecede(accepted, sent, <<>>)
          /\ AllPrecede(accepted, toCalls', <<>>)
      BY DEF Ordered, AllPrecede
    <3> QED BY <2>5, <3>1, <3>2
  <2> QED BY <2>2, <2>3, <2>4, <2>5
<1> QED BY <1>1, <1>2, <1>3 DEF ArrivalInv

\* A stop clears to_calls_ and leaves call_list_ as it is.
LEMMA StopKeepsOrder ==
  ASSUME SenderInv, ArrivalInv, UNCHANGED <<accepted, sent, callList, crossed>>,
         NEW e, NEW also, NEW lost, NEW aborted, StopService(e, also, lost, aborted),
         \A c \in Calls : pc[c] \notin Unpushed => pc'[c] \notin Unpushed
  PROVE  ArrivalInv'
<1>1. toCalls' = <<>> /\ writes' = <<>>
  BY DEF StopService
<1>2. CtxIn(accepted, writes')
  BY <1>1 DEF CtxIn
<1> QED BY <1>1, <1>2, OrderKept

\* call_impl sends from the front of to_calls_, or of what follows it.
LEMMA ChainKeepsOrder ==
  ASSUME SenderInv, ArrivalInv, UNCHANGED <<accepted, sent, crossed>>,
         \A c \in Calls : pc[c] \notin Unpushed => pc'[c] \notin Unpushed,
         NEW t, NEW w \in Seq(WriteOp), NEW r, NEW q, ChainGoes(t, w, r, q),
         CtxIn(accepted, w),
         \/ t = toCalls /\ (crossed \/ ~FrontLeft)
         \/ toCalls # <<>> /\ t = Tail(toCalls)
  PROVE  ArrivalInv'
<1>1. \/ toCalls' = t /\ callList' = callList
      \/ toCalls' = callList /\ callList' = <<>>
  BY DEF ChainGoes, FrontGoes, NothingToSend
<1>2. /\ t \in Seq(Calls) /\ AllIn(accepted, t)
      /\ callList \in Seq(Calls) /\ AllIn(accepted, callList)
  <2>1. toCalls \in Seq(Calls) /\ AllIn(accepted, toCalls)
        /\ callList \in Seq(Calls) /\ AllIn(accepted, callList)
    BY DEF SenderInv, TypeOK, ArrivalInv, AcceptInv
  <2>2. toCalls # <<>> => Tail(toCalls) \in Seq(Calls) /\ AllIn(accepted, Tail(toCalls))
    <3>1. ASSUME toCalls # <<>> PROVE Tail(toCalls) \in Seq(Calls)
      BY <2>1, <3>1
    <3>2. ASSUME toCalls # <<>> PROVE AllIn(accepted, Tail(toCalls))
      BY <2>1, <3>2, OrderTail
    <3> QED BY <3>1, <3>2
  <2> QED BY <2>1, <2>2
<1>3. CtxIn(accepted, writes')
  <2>1. \/ writes' = w
        \/ \E list \in {t, callList} :
              list # <<>> /\ writes' = Append(w, [ctx |-> Head(list), onWire |-> FALSE])
    BY DEF ChainGoes, FrontGoes, NothingToSend
  <2>2. ASSUME NEW list \in {t, callList}, list # <<>>,
               writes' = Append(w, [ctx |-> Head(list), onWire |-> FALSE])
        PROVE  CtxIn(accepted, writes')
    <3>1. Head(list) = list[1] /\ 1 \in DOMAIN list
      BY <1>2, <2>2
    <3>2. InSeq(Head(list), accepted)
      BY <1>2, <3>1 DEF AllIn
    <3>3. PICK x : x = [ctx |-> Head(list), onWire |-> FALSE]
      OBVIOUS
    <3>4. InSeq(x.ctx, accepted)
      BY <3>2, <3>3
    <3>5. /\ DOMAIN writes' = 1 .. Len(w) + 1 /\ DOMAIN w = 1 .. Len(w) /\ Len(w) \in Nat
          /\ \A i \in DOMAIN w : writes'[i] = w[i]
          /\ writes'[Len(w) + 1] = x
      BY <2>2, <3>3
    <3>6. \A i \in DOMAIN writes' : i \in DOMAIN w \/ i = Len(w) + 1
      BY <3>5
    <3> QED BY <3>4, <3>5, <3>6 DEF CtxIn
  <2> QED BY <2>1, <2>2
<1> QED BY <1>1, <1>3, OrderKept

\* Every step of the channel keeps the order of the calls.
LEMMA OrderStep == SenderInv /\ ArrivalInv /\ [Next]_vars => ArrivalInv'
<1> SUFFICES ASSUME SenderInv, ArrivalInv, [Next]_vars PROVE ArrivalInv'
  OBVIOUS
<1> USE DEF vars, connVars, callVars, ioVars, peerVars, attempts, sending
<1>0. /\ TypeOK /\ BaseInv /\ (~crossed => ConnInv /\ ChainInv)
      /\ AcceptInv /\ (~crossed => OrderInv)
  BY DEF SenderInv, ArrivalInv
<1>1. /\ toCalls \in Seq(Calls) /\ callList \in Seq(Calls) /\ retries \in Nat
      /\ writes \in Seq(WriteOp) /\ stale \in Seq(StaleHandler)
      /\ accepted \in Seq(Calls) /\ sent \in Seq(Calls)
      /\ open \in BOOLEAN /\ pc \in [Calls -> {"new", "connect", "connecting", "push",
                              "issued", "waiting", "returned", "threw"}]
  BY <1>0 DEF TypeOK, WriteOp
<1>2a. CtxIn(accepted, writes) /\ (writes # <<>> => CtxIn(accepted, Tail(writes)))
  <2>1. CtxIn(accepted, writes)
    BY <1>0 DEF AcceptInv
  <2>2. ASSUME writes # <<>>, NEW i \in DOMAIN Tail(writes)
        PROVE  i + 1 \in DOMAIN writes /\ Tail(writes)[i] = writes[i + 1]
    BY <1>1, <2>2
  <2> QED BY <2>1, <2>2 DEF CtxIn
<1>2. ASSUME UNCHANGED <<accepted, sent, toCalls, callList, writes, crossed>>,
             \A c \in Calls : pc[c] \notin Unpushed => pc'[c] \notin Unpushed
      PROVE  ArrivalInv'
  <2>1. FrontLeft' = FrontLeft
    BY <1>2 DEF FrontLeft
  <2> QED BY <1>2, <1>2a, <2>1, OrderKept
<1>3. ASSUME UNCHANGED pc
      PROVE  \A c \in Calls : pc[c] \notin Unpushed => pc'[c] \notin Unpushed
  BY <1>3
<1>4. ASSUME NEW q, ConnectSucceeds(q), crossed \/ ~FrontLeft PROVE ArrivalInv'
  <2>1. \A c \in Calls : pc[c] \notin Unpushed => pc'[c] \notin Unpushed
    BY <1>0, <1>1, <1>4 DEF ConnectSucceeds, BaseInv, Unpushed
  <2>2. PICK aft : CallImpl(toCalls, writes, retries, aft)
    BY <1>4 DEF ConnectSucceeds
  <2>3. ChainGoes(toCalls, writes, retries, aft)
    BY <1>1, <2>2, CallImplEffect DEF ChainGoes
  <2> QED BY <1>1, <1>2a, <1>4, <2>1, <2>3, ChainKeepsOrder DEF ConnectSucceeds
<1>5. ASSUME NEW q, ConnectFails(q) PROVE ArrivalInv'
  <2>1. \A c \in Calls : pc[c] \notin Unpushed => pc'[c] \notin Unpushed
    BY <1>1, <1>5 DEF ConnectFails, Unpushed
  <2> QED BY <1>5, <2>1, StopKeepsOrder DEF ConnectFails
<1>6. CASE UNCHANGED vars
  BY <1>2, <1>6
<1>7. ASSUME NEW c \in Calls, CallBegin(c) PROVE ArrivalInv'
  BY <1>1, <1>2, <1>7 DEF CallBegin, Unpushed
<1>8. ASSUME NEW c \in Calls, CallConnect(c) PROVE ArrivalInv'
  <2>1. \A d \in Calls : pc[d] \notin Unpushed => pc'[d] \notin Unpushed
    BY <1>1, <1>8 DEF CallConnect, Unpushed
  <2>2. UNCHANGED <<accepted, sent, toCalls, callList, writes>> /\ (~crossed' => ~crossed)
    <3>1. UNCHANGED <<accepted, sent, toCalls, callList, writes>>
      BY <1>8 DEF CallConnect
    <3>2. crossed' = crossed \/ crossed' = (crossed \/ ~Drained)
      BY <1>8 DEF CallConnect
    <3>3. crossed \in BOOLEAN
      BY <1>0 DEF TypeOK
    <3>4. crossed => crossed'
      BY Zenon, <3>2, <3>3
    <3> QED BY <3>1, <3>4
  <2>3. AcceptInv'
    BY <1>0, <1>1, <2>1, <2>2 DEF AcceptInv
  <2>4. FrontLeft' = FrontLeft
    BY <2>2 DEF FrontLeft
  <2>5. OrderInv => OrderInv'
    BY <2>2, <2>4 DEF OrderInv
  <2> QED BY <1>0, <2>2, <2>3, <2>5 DEF ArrivalInv
<1>9. ASSUME NEW c \in Calls, CallPush(c) PROVE ArrivalInv'
  <2>1. \A d \in Calls : pc[d] \notin Unpushed => pc'[d] \notin Unpushed
    BY <1>1, <1>9 DEF CallPush, Unpushed
  <2>2. CASE status = "disconnected"
    BY <1>2, <1>9, <2>1, <2>2 DEF CallPush
  <2>3. CASE status # "disconnected"
    <3>1. /\ accepted' = Append(accepted, c) /\ callList' = Append(callList, c)
          /\ UNCHANGED <<sent, toCalls, writes, crossed>>
      BY <1>9, <2>3 DEF CallPush, PushCall
    <3>2. FrontLeft' = FrontLeft
      BY <3>1 DEF FrontLeft
    <3>3. pc[c] \in Unpushed /\ pc'[c] \notin Unpushed
      BY <1>1, <1>9 DEF CallPush, Unpushed
    <3>4. /\ DOMAIN accepted' = 1 .. Len(accepted) + 1
          /\ DOMAIN accepted = 1 .. Len(accepted) /\ Len(accepted) \in Nat
          /\ \A i \in DOMAIN accepted : accepted'[i] = accepted[i] /\ accepted[i] \in Calls
          /\ accepted'[Len(accepted) + 1] = c
      BY <1>1, <3>1
    <3>5. \A i \in DOMAIN accepted' : pc'[accepted'[i]] \notin Unpushed
      <4> SUFFICES ASSUME NEW i \in DOMAIN accepted'
                   PROVE  pc'[accepted'[i]] \notin Unpushed
        OBVIOUS
      <4>1. i \in DOMAIN accepted \/ i = Len(accepted) + 1
        BY <3>4
      <4> QED BY <1>0, <2>1, <3>3, <3>4, <4>1 DEF AcceptInv
    <3>6. \A i, j \in DOMAIN accepted' : accepted'[i] = accepted'[j] => i = j
      <4> SUFFICES ASSUME NEW i \in DOMAIN accepted', NEW j \in DOMAIN accepted',
                          accepted'[i] = accepted'[j]
                   PROVE  i = j
        OBVIOUS
      <4>1. \A k \in DOMAIN accepted : accepted[k] # c
        BY <1>0, <3>3 DEF AcceptInv
      <4>2. /\ i \in DOMAIN accepted \/ i = Len(accepted) + 1
            /\ j \in DOMAIN accepted \/ j = Len(accepted) + 1
        BY <3>4
      <4> QED BY <1>0, <3>4, <4>1, <4>2 DEF AcceptInv
    <3>7. AllIn(accepted, sent) /\ AllIn(accepted, toCalls) /\ AllIn(accepted, callList)
      BY <1>0 DEF AcceptInv
    <3>8. AllIn(accepted', sent') /\ AllIn(accepted', toCalls') /\ AllIn(accepted', callList')
      BY <1>1, <3>1, <3>7, OrderAppend
    <3>9. CtxIn(accepted', writes')
      <4>1. \A d : InSeq(d, accepted) => InSeq(d, accepted')
        BY <1>1, <3>1, PrecedesAppend
      <4> QED BY <1>2a, <3>1, <4>1 DEF CtxIn
    <3>10. AcceptInv'
      BY <3>5, <3>6, <3>8, <3>9 DEF AcceptInv
    <3>11. ASSUME OrderInv PROVE OrderInv'
      <4>1. /\ Ordered(accepted', sent') /\ Ordered(accepted', toCalls')
            /\ Ordered(accepted', callList')
            /\ AllPrecede(accepted', sent', callList')
            /\ AllPrecede(accepted', toCalls', callList')
        BY <1>1, <3>1, <3>7, <3>11, OrderAppend DEF OrderInv
      <4>2. SentBefore(accepted', sent', toCalls', FrontLeft')
        BY <1>1, <3>1, <3>2, <3>7, <3>11, OrderAppend DEF OrderInv
      <4> QED BY <4>1, <4>2 DEF OrderInv
    <3> QED BY <1>0, <3>1, <3>10, <3>11 DEF ArrivalInv
  <2> QED BY <2>2, <2>3
<1>10. ASSUME NEW c \in Calls, WaitReturn(c) PROVE ArrivalInv'
  BY <1>1, <1>2, <1>10 DEF WaitReturn, Unpushed
<1>11. ASSUME NEW c \in Calls, Cancel(c) PROVE ArrivalInv'
  BY <1>2, <1>11 DEF Cancel
<1>12. ASSUME NEW c \in Calls, Timeout(c) PROVE ArrivalInv'
  BY <1>2, <1>12 DEF Timeout
<1>13. CASE Disconnect
  BY <1>3, <1>13, StopKeepsOrder DEF Disconnect
<1>14. CASE ConnectReady
  BY <1>2, <1>14 DEF ConnectReady
<1>15a. ASSUME NEW o, NobodyTold(o) PROVE ArrivalInv'
  BY <1>2, <1>15a DEF NobodyTold
<1>15. CASE HandleConnectOk
  <2>1. crossed \/ ~FrontLeft
    BY <1>0, <1>15 DEF HandleConnectOk, ConnInv, FrontLeft
  <2> QED BY <1>4, <1>15, <1>15a, <2>1 DEF HandleConnectOk
<1>16. CASE HandleConnectFail
  BY <1>5, <1>15a, <1>16 DEF HandleConnectFail
<1>17. CASE RunStale
  <2>1. CASE StaleConnect
    <3>1. crossed \/ ~FrontLeft
      BY <1>0, <2>1 DEF StaleConnect, ConnInv, BaseInv, FrontLeft
    <3> QED BY <1>4, <1>5, <2>1, <3>1 DEF StaleConnect
  <2>2. CASE StaleReturns
    BY <1>2, <2>2 DEF StaleReturns
  <2>3. CASE StaleFails
    BY <1>3, <2>3, StopKeepsOrder DEF StaleFails
  <2>4. CASE StaleSent
    <3>1. toCalls # <<>> /\ SendOn(FrontPopped, writes, retries, Tail(stale))
      BY <2>4 DEF StaleSent
    <3>2. FrontPopped = Tail(toCalls) /\ FrontPopped \in Seq(Calls)
      BY <1>1, <3>1 DEF FrontPopped
    <3>3. ChainGoes(FrontPopped, writes, retries, Tail(stale))
      BY <1>1, <3>1, <3>2, SendOnEffect
    <3> QED BY <1>1, <1>2a, <1>3, <2>4, <3>1, <3>2, <3>3, ChainKeepsOrder DEF StaleSent
  <2> QED BY <1>17, <2>1, <2>2, <2>3, <2>4 DEF RunStale
<1>18. CASE WriteReachesPeer
  <2> DEFINE f == Head(writes).ctx
  <2>1. /\ writes # <<>> /\ ~Head(writes).onWire
        /\ writes' = [writes EXCEPT ![1] = [writes[1] EXCEPT !.onWire = TRUE]]
        /\ sent' = Append(sent, f)
        /\ UNCHANGED <<accepted, pc, toCalls, callList, crossed>>
    BY <1>18 DEF WriteReachesPeer
  <2>2. 1 \in DOMAIN writes /\ Head(writes) = writes[1] /\ writes[1] \in WriteOp
    BY <1>1, <2>1
  <2>3. f \in Calls /\ InSeq(f, accepted)
    BY <1>2a, <2>2 DEF CtxIn, WriteOp
  <2> HIDE DEF f
  <2>4. /\ DOMAIN sent' = 1 .. Len(sent) + 1 /\ DOMAIN sent = 1 .. Len(sent)
        /\ Len(sent) \in Nat
        /\ \A i \in DOMAIN sent : sent'[i] = sent[i]
        /\ sent'[Len(sent) + 1] = f
    BY <1>1, <2>1, <2>3
  <2>5. \A i \in DOMAIN sent' : i \in DOMAIN sent \/ i = Len(sent) + 1
    BY <2>4
  <2>6. AllIn(accepted, sent')
    BY <1>0, <2>3, <2>4, <2>5 DEF AcceptInv, AllIn
  <2>7. writes' \in Seq(WriteOp) /\ DOMAIN writes' = DOMAIN writes
    <3>1. TypeOK'
      BY <1>0, TypeStep
    <3> QED BY <2>1, <3>1 DEF TypeOK, WriteOp
  <2>8. CtxIn(accepted, writes')
    <3> SUFFICES ASSUME NEW i \in DOMAIN writes PROVE writes'[i].ctx = writes[i].ctx
      BY <1>2a, <2>7 DEF CtxIn
    <3>1. CASE i = 1
      BY <2>1, <2>2, <3>1 DEF WriteOp
    <3>2. CASE i # 1
      BY <2>1, <3>2
    <3> QED BY <3>1, <3>2
  <2>9. AcceptInv'
    BY <1>0, <1>1, <2>1, <2>6, <2>8 DEF AcceptInv
  <2>10. ASSUME ~crossed PROVE OrderInv'
    <3>1. OrderInv /\ ChainInv
      BY <1>0, <2>10
    <3>2. toCalls # <<>> /\ f = Head(toCalls)
      BY <2>1, <3>1 DEF ChainInv, f
    <3>3. f = toCalls[1] /\ 1 \in DOMAIN toCalls
      BY <1>1, <3>2
    <3>4. ~FrontLeft
      BY <2>1 DEF FrontLeft
    <3>5. FrontLeft'
      <4>1. writes'[1].onWire = TRUE
        BY <2>1, <2>2 DEF WriteOp
      <4>2. writes' # <<>> /\ Head(writes') = writes'[1]
        BY <2>2, <2>7
      <4> QED BY <4>1, <4>2 DEF FrontLeft
    <3>6. \A i \in DOMAIN sent : Precedes(accepted, sent[i], f)
      BY <3>1, <3>3, <3>4 DEF OrderInv, SentBefore
    <3>7. Ordered(accepted, sent')
      <4> SUFFICES ASSUME NEW i \in DOMAIN sent', NEW j \in DOMAIN sent', i < j
                   PROVE  Precedes(accepted, sent'[i], sent'[j])
        BY DEF Ordered
      <4>1. i \in DOMAIN sent /\ (j \in DOMAIN sent \/ j = Len(sent) + 1)
        BY <2>4
      <4> QED BY <2>4, <3>1, <3>6, <4>1 DEF OrderInv, Ordered
    <3>8. AllPrecede(accepted, sent', callList)
      BY <2>4, <2>5, <3>1, <3>3 DEF OrderInv, AllPrecede
    <3>9. SentBefore(accepted, sent', toCalls, TRUE)
      <4> SUFFICES ASSUME NEW i \in DOMAIN sent', NEW j \in DOMAIN toCalls, j > 1
                   PROVE  Precedes(accepted, sent'[i], toCalls[j])
        BY DEF SentBefore
      <4>1. CASE i \in DOMAIN sent
        BY <2>4, <3>1, <4>1 DEF OrderInv, SentBefore
      <4>2. CASE i = Len(sent) + 1
        BY <2>4, <3>1, <3>3, <4>2 DEF OrderInv, Ordered
      <4> QED BY <2>5, <4>1, <4>2
    <3>10. SentBefore(accepted', sent', toCalls', FrontLeft')
      BY <2>1, <3>5, <3>9 DEF SentBefore
    <3> QED BY <2>1, <3>1, <3>7, <3>8, <3>10 DEF OrderInv
  <2> QED BY <2>1, <2>9, <2>10 DEF ArrivalInv
<1>19. CASE HandleSend
  <2>1. /\ writes # <<>> /\ toCalls # <<>>
        /\ SendOn(FrontPopped, Tail(writes), retries, stale)
    BY <1>19 DEF HandleSend
  <2>2. Tail(writes) \in Seq(WriteOp)
    BY <1>1, <2>1
  <2>3. FrontPopped = Tail(toCalls) /\ FrontPopped \in Seq(Calls)
    BY <1>1, <2>1 DEF FrontPopped
  <2>4. ChainGoes(FrontPopped, Tail(writes), retries, stale)
    BY <1>1, <2>1, <2>3, SendOnEffect
  <2> QED BY <1>2a, <1>3, <1>19, <2>1, <2>2, <2>3, <2>4, ChainKeepsOrder DEF HandleSend
<1>20. CASE SendFails
  BY <1>3, <1>20, StopKeepsOrder DEF SendFails
<1>21. CASE RunTrigger
  <2>1. CASE SenderIdle
    <3>1. crossed \/ ~FrontLeft
      BY <1>0, <2>1 DEF ChainInv, SenderIdle, FrontLeft
    <3>2. ChainGoes(toCalls, writes, retries, stale)
      BY <1>1, <1>21, <2>1, CallImplEffect DEF RunTrigger, ChainGoes
    <3> QED BY <1>1, <1>2a, <1>3, <1>21, <3>1, <3>2, ChainKeepsOrder DEF RunTrigger
  <2>2. CASE ~SenderIdle
    BY <1>2, <1>21, <2>2 DEF RunTrigger
  <2> QED BY <2>1, <2>2
<1>22. CASE RunRetry
  <2>1. retries - 1 \in Nat /\ retries # 0
    BY <1>1, <1>22 DEF RunRetry
  <2>2. crossed \/ ~FrontLeft
    BY <1>0, <2>1 DEF ChainInv, FrontLeft
  <2>3. ChainGoes(toCalls, writes, retries - 1, stale)
    BY <1>1, <1>22, <2>1, SendOnEffect DEF RunRetry
  <2> QED BY <1>1, <1>2a, <1>3, <1>22, <2>2, <2>3, ChainKeepsOrder DEF RunRetry
<1>23. ASSUME NEW m \in Reply, ServerReply(m) PROVE ArrivalInv'
  BY <1>2, <1>23 DEF ServerReply
<1>24. CASE HandleRecvHead
  <2> DEFINE m == Head(replies)
  <2>0. UNCHANGED <<callList, pc, accepted, sent, crossed>>
    BY <1>24 DEF HandleRecvHead
  <2>1. CASE m.kind \in {"empty", "fail"} \/ m.kind = "body"
    <3>1. UNCHANGED <<toCalls, writes>>
      BY <1>24, <2>1 DEF HandleRecvHead
    <3> QED BY <1>2, <2>0, <3>1
  <2>2. CASE m.kind = "huge"
    <3>1. StopService("invalid_header", {}, Matching(m.id),
                      stale \o AbortedSends \o AbortedConnect)
      BY <1>24, <2>2 DEF HandleRecvHead
    <3> QED BY <1>3, <2>0, <3>1, StopKeepsOrder
  <2> QED BY <1>24, <2>1, <2>2 DEF HandleRecvHead
<1>25. CASE HandleRecvBody
  BY <1>2, <1>25 DEF HandleRecvBody
<1>26. CASE RecvFails
  BY <1>3, <1>26, StopKeepsOrder DEF RecvFails
<1>27. CASE Corrupts
  BY <1>2, <1>27 DEF Corrupts
<1> QED BY <1>6, <1>7, <1>8, <1>9, <1>10, <1>11, <1>12, <1>13, <1>14, <1>15, <1>16,
           <1>17, <1>18, <1>19, <1>20, <1>21, <1>22, <1>23, <1>24, <1>25, <1>26, <1>27
        DEF Next, Step, CallStep, PeerReplies

\* The order in which call_context queued the calls is kept up to the wire, until a
\* connection is begun with handlers or posted functions of an older one queued.
THEOREM OrderInvariant == Spec => [](SenderInv /\ ArrivalInv)
<1>1. Init => SenderInv /\ ArrivalInv
  BY InitSender, InitOrder
<1>2. SenderInv /\ ArrivalInv /\ [Next]_vars => (SenderInv /\ ArrivalInv)'
  BY SenderStep, OrderStep
<1> QED BY <1>1, <1>2, PTL DEF Spec

\* Requests leave in the order in which call_context queued them, each at most once, over
\* lost connections, refusing hooks and retries too, until start() is called with handlers
\* or posted functions of an older connection queued.
THEOREM SendsInOrderHolds == Spec => []SendsInOrder
<1>1. ArrivalInv => SendsInOrder
  BY DEF ArrivalInv, AcceptInv, OrderInv, Ordered, Precedes, SendsInOrder
<1> QED BY <1>1, OrderInvariant, PTL

-----------------------------------------------------------------------------
(* The ids of the calls, their replies and their results *)

ChannelInv == SenderInv /\ ArrivalInv /\ MatchInv

\* A new channel has given no call id and has no result.
LEMMA InitMatch == Init => MatchInv
<1> SUFFICES ASSUME Init PROVE MatchInv
  OBVIOUS
<1>1. Pushed = {}
  BY DEF Init, Pushed, InSeq
<1>2. Cardinality({}) = 0
  BY FS_EmptySet
<1>3. IdInv
  BY <1>1, <1>2 DEF Init, IdInv
<1>4. ResultInv
  BY DEF Init, ResultInv
<1>5. ArmedInv /\ WaitingCallsTracked
  BY DEF Init, ArmedInv, WaitingCallsTracked
<1> QED BY <1>3, <1>4, <1>5 DEF MatchInv

\* WaitingCallsTracked, said of the calls that have an id.
LEMMA TrackedPushed ==
  ASSUME accepted \in Seq(Calls)
  PROVE  WaitingCallsTracked <=>
           \A c \in Pushed : result[c] = "none" =>
              c \in dropped \/ (status # "disconnected" /\ c \in InMap \union readCtx)
<1>1. \A i \in DOMAIN accepted : accepted[i] \in Calls
  OBVIOUS
<1> QED BY <1>1 DEF WaitingCallsTracked, Pushed, InSeq

\* An operation that gives out no id and makes nothing of the peer's.
LEMMA IdKept ==
  ASSUME IdInv, accepted' = accepted, callId' = callId, id' = id,
         callMap' \subseteq callMap, served' \subseteq served,
         \A c : InSeq(c, sent) => InSeq(c, sent'),
         \A i \in DOMAIN replies' : \E j \in DOMAIN replies : replies'[i] = replies[j],
         readMsg' \subseteq readMsg, readCtx' \subseteq readCtx
  PROVE  IdInv'
<1>1. Pushed' = Pushed
  BY DEF Pushed
<1>2. \A m : Carries(m) => m.id = id'[m.ctx] /\ InSeq(m.ctx, sent')
  BY DEF Carries
<1>3. /\ \A m \in served' : m.id = id'[m.ctx] /\ InSeq(m.ctx, sent')
      /\ \A m \in readMsg' : m.id = id'[m.ctx] /\ InSeq(m.ctx, sent')
  BY <1>2 DEF IdInv
<1>4. \A i \in DOMAIN replies' : replies'[i].id = id'[replies'[i].ctx] /\ InSeq(replies'[i].ctx, sent')
  BY <1>2 DEF IdInv
<1>5. /\ callId' = Cardinality(Pushed')
      /\ \A c \in Pushed' : id'[c] \in 1 .. callId'
      /\ \A c \in Calls \ Pushed' : id'[c] = 0
      /\ \A c, d \in Pushed' : id'[c] = id'[d] => c = d
      /\ \A p \in callMap' : p[2] \in Pushed' /\ p[1] = id'[p[2]]
      /\ \A m \in readMsg', c \in readCtx' : c = m.ctx
      /\ readCtx' \subseteq Pushed'
  BY <1>1 DEF IdInv
<1> QED BY <1>3, <1>4, <1>5 DEF IdInv, Carries

\* What is read of the calls in a step: a call that has no result had none before.
Later == \A c \in Calls : result'[c] = "none" => result[c] = "none"

\* base_rpc_context::error gives each call that has no result yet an error, and no other.
LEMMA FailResult ==
  ASSUME TypeOK, ResultInv, NEW C, NEW e, e # "none", FailCalls(C, e), answer' = answer,
         \A c \in Calls : pc'[c] = "returned" => pc[c] = "returned"
  PROVE  ResultInv' /\ Later /\ \A c \in Calls \intersect C : result'[c] # "none"
<1>1. \A c \in Calls : /\ err'[c] = (IF c \in C THEN e ELSE err[c])
                       /\ result'[c] = (IF c \in C /\ result[c] = "none" THEN "error"
                                                                        ELSE result[c])
  BY DEF FailCalls
<1>2. Later /\ \A c \in Calls \intersect C : result'[c] # "none"
  BY <1>1 DEF Later
<1>3. ASSUME NEW c \in Calls
      PROVE  /\ answer'[c] \subseteq {c}
             /\ result'[c] = "ok" => answer'[c] = {c}
             /\ result'[c] = "error" => err'[c] # "none"
             /\ pc'[c] = "returned" => result'[c] = "ok"
  <2>1. /\ answer[c] \subseteq {c}
        /\ result[c] = "ok" => answer[c] = {c}
        /\ result[c] = "error" => err[c] # "none"
        /\ pc[c] = "returned" => result[c] = "ok"
    BY DEF ResultInv
  <2> QED BY <1>1, <2>1
<1> QED BY <1>2, <1>3 DEF ResultInv

\* A step that tells no caller anything leaves the results as they are.
LEMMA SameResult ==
  ASSUME ResultInv, UNCHANGED <<err, result, answer>>,
         \A c \in Calls : pc'[c] = "returned" => pc[c] = "returned"
  PROVE  ResultInv' /\ Later
  BY DEF ResultInv, Later

\* call_complete of a call with its own reply.
LEMMA CompleteResult ==
  ASSUME TypeOK, ResultInv, NEW c \in Calls, NEW m \in Reply, Complete(c, m), m.ctx = c,
         pc' = pc
  PROVE  ResultInv' /\ Later /\ result'[c] # "none"
<1>1. answer' = [answer EXCEPT ![c] = IF result[c] = "none" THEN {c} ELSE @]
  BY DEF Complete
<1>2. /\ \A d \in Calls : d # c => /\ result'[d] = result[d] /\ err'[d] = err[d]
                                   /\ answer'[d] = answer[d]
      /\ result'[c] \in {"ok", "error"} /\ (result[c] # "none" => result'[c] = result[c])
      /\ result'[c] = "error" /\ result[c] = "none" => err'[c] # "none"
      /\ result[c] = "error" /\ err[c] # "none" => err'[c] # "none"
  <2>1. CASE m.kind = "fail"
    <3>1. /\ err' = [d \in Calls |-> IF d \in {c} THEN "remote_error" ELSE err[d]]
          /\ result' = [d \in Calls |-> IF d \in {c} /\ result[d] = "none" THEN "error"
                                                                         ELSE result[d]]
      BY <2>1 DEF Complete, FailCalls
    <3>2. result[c] \in {"none", "ok", "error"}
      BY DEF TypeOK
    <3> QED BY <1>1, <3>1, <3>2 DEF TypeOK
  <2>2. CASE m.kind # "fail"
    <3>1. result' = [result EXCEPT ![c] = IF @ = "none" THEN "ok" ELSE @] /\ err' = err
      BY <2>2 DEF Complete
    <3>2. result \in [Calls -> {"none", "ok", "error"}]
      BY DEF TypeOK
    <3> QED BY <1>1, <3>1, <3>2 DEF TypeOK
  <2> QED BY <2>1, <2>2
<1>3. answer'[c] = IF result[c] = "none" THEN {c} ELSE answer[c]
  BY <1>1 DEF TypeOK
<1>4. ASSUME NEW d \in Calls
      PROVE  /\ answer'[d] \subseteq {d}
             /\ result'[d] = "ok" => answer'[d] = {d}
             /\ result'[d] = "error" => err'[d] # "none"
             /\ pc'[d] = "returned" => result'[d] = "ok"
  <2>1. /\ answer[d] \subseteq {d}
        /\ result[d] = "ok" => answer[d] = {d}
        /\ result[d] = "error" => err[d] # "none"
        /\ pc[d] = "returned" => result[d] = "ok"
    BY DEF ResultInv
  <2>2. CASE d # c
    BY <1>2, <2>1, <2>2
  <2>3. CASE d = c
    <3>1. CASE result[c] = "none"
      BY <1>2, <1>3, <2>1, <2>3, <3>1
    <3>2. CASE result[c] # "none"
      BY <1>2, <1>3, <2>1, <2>3, <3>2
    <3> QED BY <3>1, <3>2
  <2> QED BY <2>2, <2>3
<1>5. Later /\ result'[c] # "none"
  BY <1>2 DEF Later
<1> QED BY <1>4, <1>5 DEF ResultInv

\* A waiting call stays where a result can reach it.
LEMMA TrackKept ==
  ASSUME TypeOK, WaitingCallsTracked, Later, accepted' = accepted,
         \A c \in Pushed : result'[c] = "none" =>
            /\ c \in dropped => c \in dropped'
            /\ status # "disconnected" /\ c \in InMap \union readCtx =>
                  c \in dropped' \/ (status' # "disconnected" /\ c \in InMap' \union readCtx')
  PROVE  WaitingCallsTracked'
<1>1. accepted \in Seq(Calls) /\ accepted' \in Seq(Calls)
  BY DEF TypeOK
<1>2. Pushed' = Pushed
  BY DEF Pushed
<1>3. \A c \in Pushed : result[c] = "none" =>
        c \in dropped \/ (status # "disconnected" /\ c \in InMap \union readCtx)
  BY <1>1, TrackedPushed
<1>4. \A c \in Pushed' : result'[c] = "none" =>
        c \in dropped' \/ (status' # "disconnected" /\ c \in InMap' \union readCtx')
  BY <1>2, <1>3 DEF Pushed, Later
<1>5. WaitingCallsTracked' <=>
        \A c \in Pushed' : result'[c] = "none" =>
          c \in dropped' \/ (status' # "disconnected" /\ c \in InMap' \union readCtx')
  <2>1. \A i \in DOMAIN accepted' : accepted'[i] \in Calls
    BY <1>1
  <2> QED BY <2>1 DEF WaitingCallsTracked, Pushed, InSeq
<1> QED BY <1>4, <1>5

\* stop_rpc_service tells every call of the map; those whose body is lost are dropped.
LEMMA StopKeepsMatch ==
  ASSUME ChannelInv, NEW e, e # "none", NEW also, NEW lost, NEW aborted,
         StopService(e, also, lost, aborted), readCtx \subseteq lost,
         UNCHANGED <<callId, id, accepted, sent, armed, answer>>,
         \A c \in Calls : pc'[c] = "returned" => pc[c] = "returned"
  PROVE  MatchInv'
<1>0. TypeOK /\ IdInv /\ ResultInv /\ ArmedInv /\ WaitingCallsTracked
  BY DEF ChannelInv, SenderInv, MatchInv
<1>1. /\ callMap' = {} /\ served' = {} /\ replies' = <<>> /\ readMsg' = {} /\ readCtx' = {}
      /\ FailCalls(ToldOnStop(also, lost), e)
      /\ dropped' = dropped \union {c \in lost : result[c] = "none"}
  BY DEF StopService
<1>2. IdInv'
  BY <1>0, <1>1, IdKept
<1>3. /\ ResultInv' /\ Later
      /\ \A c \in Calls \intersect ToldOnStop(also, lost) : result'[c] # "none"
  BY <1>0, <1>1, FailResult
<1>4. ArmedInv'
  BY <1>0 DEF ArmedInv
<1>5. WaitingCallsTracked'
  <2>1. ASSUME NEW c \in Pushed, result'[c] = "none", c \in InMap \union readCtx
        PROVE  c \in dropped'
    <3>1. c \in Calls
      BY DEF Pushed
    <3>2. c \in lost
      BY <1>3, <2>1, <3>1 DEF ToldOnStop
    <3>3. result[c] = "none"
      BY <1>3, <2>1, <3>1 DEF Later
    <3> QED BY <1>1, <3>2, <3>3
  <2> QED BY <1>0, <1>1, <1>3, <2>1, TrackKept
<1> QED BY <1>2, <1>3, <1>4, <1>5 DEF MatchInv

\* The chain of sends leaves the map and the peer alone; a hook may fail a call.
LEMMA ChainKeepsMatch ==
  ASSUME ChannelInv, NEW t \in Seq(Calls), AllIn(accepted, t), NEW w, NEW r, NEW q,
         ChainGoes(t, w, r, q), status' # "disconnected" \/ status' = status,
         UNCHANGED <<callMap, callId, id, readMsg, readCtx, served, replies, accepted, sent,
                     answer, dropped>>,
         \A c \in Calls : pc'[c] = "returned" => pc[c] = "returned"
  PROVE  MatchInv'
<1>0. TypeOK /\ IdInv /\ ResultInv /\ ArmedInv /\ WaitingCallsTracked
  BY DEF ChannelInv, SenderInv, MatchInv
<1>1. \/ UNCHANGED <<err, result, armed>>
      \/ \E list \in {t, callList} : /\ list # <<>>
                                     /\ \E C : FailCalls(C, "cancel")
                                     /\ armed' \subseteq armed \union {Head(list)}
  BY DEF ChainGoes, FrontGoes, NothingToSend
<1>2. IdInv'
  BY <1>0, IdKept
<1>3. ResultInv' /\ Later
  <2>1. CASE UNCHANGED <<err, result, armed>>
    BY <1>0, <2>1, SameResult
  <2>2. ASSUME NEW C, FailCalls(C, "cancel") PROVE ResultInv' /\ Later
    BY <1>0, <2>2, FailResult
  <2> QED BY <1>1, <2>1, <2>2
<1>4. ArmedInv'
  <2>1. CASE UNCHANGED <<err, result, armed>>
    BY <1>0, <2>1 DEF ArmedInv
  <2>2. ASSUME NEW list \in {t, callList}, list # <<>>,
               armed' \subseteq armed \union {Head(list)}
        PROVE  ArmedInv'
    <3>1. list \in Seq(Calls) /\ AllIn(accepted, list)
      BY <1>0 DEF TypeOK, ChannelInv, ArrivalInv, AcceptInv
    <3>2. Head(list) = list[1] /\ 1 \in DOMAIN list
      BY <2>2, <3>1
    <3> QED BY <1>0, <2>2, <3>1, <3>2 DEF ArmedInv, AllIn
  <2> QED BY <1>1, <2>1, <2>2
<1>5. InMap' = InMap
  BY DEF InMap
<1>6. WaitingCallsTracked'
  BY <1>0, <1>3, <1>5, TrackKept
<1> QED BY <1>2, <1>3, <1>4, <1>6 DEF MatchInv

\* push_call gives the call an id that none has had.
LEMMA PushKeepsId ==
  ASSUME IdsSuffice, ChannelInv, NEW c \in Calls \ Silent, ~InSeq(c, accepted), PushCall(c),
         UNCHANGED <<sent, served, replies, readMsg, readCtx>>
  PROVE  /\ IdInv' /\ Pushed' = Pushed \union {c}
         /\ callMap' = callMap \union {<<callId + 1, c>>} /\ callId + 1 < CallIds
<1>0. TypeOK /\ IdInv /\ AcceptInv
  BY DEF ChannelInv, SenderInv, ArrivalInv, MatchInv
<1>1a. c \in Calls /\ c \notin Silent
  OBVIOUS
<1>1b. /\ callId' = NextId /\ id' = [id EXCEPT ![c] = NextId]
       /\ accepted' = Append(accepted, c)
  BY <1>1a DEF PushCall
<1>1c. callMap' = IF \E d \in Calls : <<NextId, d>> \in callMap
                  THEN callMap ELSE callMap \union {<<NextId, c>>}
  BY <1>1a DEF PushCall
<1>1d. callId \in Nat /\ callId < CallIds /\ CallIds \in Nat \ {0}
  BY <1>0, ChannelAssumption DEF TypeOK
<1>1e. accepted \in Seq(Calls) /\ id \in [Calls -> 0 .. CallIds - 1]
  BY <1>0 DEF TypeOK
<1>2. Pushed' = Pushed \union {c} /\ c \notin Pushed
  <2>1. \A d : InSeq(d, accepted') <=> InSeq(d, accepted) \/ d = c
    <3>1. /\ DOMAIN accepted' = 1 .. Len(accepted) + 1 /\ DOMAIN accepted = 1 .. Len(accepted)
          /\ Len(accepted) \in Nat
          /\ \A i \in DOMAIN accepted : accepted'[i] = accepted[i]
          /\ accepted'[Len(accepted) + 1] = c
      BY <1>1a, <1>1b, <1>1e
    <3>2. \A i \in DOMAIN accepted' : i \in DOMAIN accepted \/ i = Len(accepted) + 1
      BY <3>1
    <3>3. \A i \in DOMAIN accepted : i \in DOMAIN accepted'
      BY <3>1
    <3>4. Len(accepted) + 1 \in DOMAIN accepted'
      BY <3>1
    <3> QED BY <3>1, <3>2, <3>3, <3>4 DEF InSeq
  <2> QED BY <2>1 DEF Pushed
<1>3. IsFiniteSet(Calls \ Silent) /\ Cardinality(Calls \ Silent) \in Nat
  BY FS_Subset, FS_CardinalityType DEF IdsSuffice
<1>4. Pushed \subseteq Calls \ Silent /\ Pushed' \subseteq Calls \ Silent
  BY <1>2 DEF Pushed
<1>5. /\ IsFiniteSet(Pushed) /\ IsFiniteSet(Pushed') /\ Cardinality(Pushed') <= Cardinality(Calls \ Silent)
      /\ Cardinality(Pushed') \in Nat
  BY <1>3, <1>4, FS_Subset, FS_CardinalityType
<1>6. Cardinality(Pushed') = Cardinality(Pushed) + 1
  BY <1>2, <1>5, FS_AddElement
<1>7. callId = Cardinality(Pushed)
  BY <1>0 DEF IdInv
<1>8. callId + 1 < CallIds
  BY <1>1d, <1>3, <1>5, <1>6, <1>7 DEF IdsSuffice
<1>9. NextId = callId + 1
  <2>1. \A n, k \in Nat : n < k => n % k = n
    OBVIOUS
  <2> QED BY <1>1d, <1>8, <2>1 DEF NextId
<1>10. /\ \A d \in Calls : d # c => id'[d] = id[d]
       /\ id'[c] = callId + 1
  BY <1>1a, <1>1b, <1>1e, <1>9
<1>11. \A d \in Pushed : id[d] \in 1 .. callId /\ d # c /\ d \in Calls
  BY <1>0, <1>2, <1>4 DEF IdInv
<1>12. ~\E d \in Calls : <<NextId, d>> \in callMap
  <2> SUFFICES ASSUME NEW d \in Calls, <<NextId, d>> \in callMap PROVE FALSE
    OBVIOUS
  <2>1. d \in Pushed /\ NextId = id[d]
    BY <1>0 DEF IdInv
  <2> QED BY <1>1d, <1>9, <1>11, <2>1
<1>13. callMap' = callMap \union {<<callId + 1, c>>}
  BY <1>1c, <1>9, <1>12
<1>14. ASSUME NEW m, Carries(m) PROVE m.id = id'[m.ctx] /\ InSeq(m.ctx, sent')
  <2>1. InSeq(m.ctx, sent) /\ m.id = id[m.ctx]
    BY <1>14 DEF Carries
  <2>2. InSeq(m.ctx, accepted)
    BY <1>0, <2>1 DEF InSeq, AcceptInv, AllIn
  <2>3. m.ctx \in Calls /\ m.ctx # c
    BY <1>1e, <2>2 DEF InSeq
  <2> QED BY <1>10, <2>1, <2>3
<1>15. /\ \A m \in served' : m.id = id'[m.ctx] /\ InSeq(m.ctx, sent')
       /\ \A i \in DOMAIN replies' : replies'[i].id = id'[replies'[i].ctx] /\ InSeq(replies'[i].ctx, sent')
       /\ \A m \in readMsg' : m.id = id'[m.ctx] /\ InSeq(m.ctx, sent')
  BY <1>0, <1>14 DEF IdInv
<1>16. \A d \in Pushed' : id'[d] \in 1 .. callId'
  BY <1>1b, <1>1d, <1>2, <1>9, <1>10, <1>11
<1>17. \A d \in Calls \ Pushed' : id'[d] = 0
  BY <1>0, <1>2, <1>10 DEF IdInv
<1>18. \A d, f \in Pushed' : id'[d] = id'[f] => d = f
  <2> SUFFICES ASSUME NEW d \in Pushed', NEW f \in Pushed', id'[d] = id'[f] PROVE d = f
    OBVIOUS
  <2>1. CASE d \in Pushed /\ f \in Pushed
    BY <1>0, <1>10, <1>11, <2>1 DEF IdInv
  <2>2. CASE d = c /\ f = c
    BY <2>2
  <2>3. CASE d = c /\ f \in Pushed
    BY <1>1d, <1>10, <1>11, <2>3
  <2>4. CASE f = c /\ d \in Pushed
    BY <1>1d, <1>10, <1>11, <2>4
  <2> QED BY <1>2, <2>1, <2>2, <2>3, <2>4
<1>19. \A p \in callMap' : p[2] \in Pushed' /\ p[1] = id'[p[2]]
  <2>1. \A p \in callMap : p[2] \in Pushed /\ p[1] = id[p[2]]
    BY <1>0 DEF IdInv
  <2> QED BY <1>2, <1>10, <1>11, <1>13, <2>1
<1>20. /\ \A m \in readMsg', d \in readCtx' : d = m.ctx
       /\ readCtx' \subseteq Pushed'
  BY <1>0, <1>2 DEF IdInv
<1>21. callId' = Cardinality(Pushed')
  BY <1>1b, <1>6, <1>7, <1>9
<1>22. IdInv'
  BY <1>15, <1>16, <1>17, <1>18, <1>19, <1>20, <1>21 DEF IdInv, Carries
<1> QED BY <1>2, <1>8, <1>13, <1>22

\* Under one id the map holds one call, the one whose request carried the id.
LEMMA MatchingOwn ==
  ASSUME ChannelInv, NEW m \in Reply, Carries(m)
  PROVE  /\ Matching(m.id) \subseteq {m.ctx} \intersect Pushed
         /\ Matching(m.id) \subseteq InMap
<1>0. TypeOK /\ IdInv /\ AcceptInv
  BY DEF ChannelInv, SenderInv, ArrivalInv, MatchInv
<1>1. m.id \in 0 .. CallIds - 1 /\ m.ctx \in Calls /\ m.id = id[m.ctx]
  BY DEF Reply, Carries
<1>2. ASSUME NEW c \in Calls, <<m.id, c>> \in callMap
      PROVE  c = m.ctx /\ c \in Pushed
  <2>1. c \in Pushed /\ m.id = id[c]
    BY <1>0, <1>2 DEF IdInv
  <2>2. id[c] \in 1 .. callId /\ callId \in Nat
    <3>1. id[c] \in 1 .. callId
      BY <1>0, <2>1 DEF IdInv
    <3>2. callId \in Nat
      BY <1>0, ChannelAssumption DEF TypeOK
    <3> QED BY <3>1, <3>2
  <2>3. m.ctx \in Pushed
    <3>1. m.ctx \notin Pushed => id[m.ctx] = 0
      BY <1>0, <1>1 DEF IdInv
    <3>2. id[m.ctx] # 0
      BY <1>1, <2>1, <2>2
    <3> QED BY <3>1, <3>2
  <2>4. \A d, f \in Pushed : id[d] = id[f] => d = f
    BY <1>0 DEF IdInv
  <2> QED BY <1>1, <2>1, <2>3, <2>4
<1> QED BY <1>1, <1>2 DEF Matching, InMap

\* The inductive step: whatever the order of replies, timeouts, cancels and lost
\* connections, a result is reported to the call it belongs to.
LEMMA MatchStep == ASSUME IdsSuffice PROVE ChannelInv /\ [Next]_vars => MatchInv'
<1> SUFFICES ASSUME ChannelInv, [Next]_vars PROVE MatchInv'
  OBVIOUS
<1> USE DEF vars, connVars, callVars, ioVars, peerVars, attempts, sending
<1>0. TypeOK /\ BaseInv /\ AcceptInv /\ IdInv /\ ResultInv /\ ArmedInv
      /\ WaitingCallsTracked /\ SenderInv
  BY DEF ChannelInv, SenderInv, ArrivalInv, MatchInv
<1>1. /\ toCalls \in Seq(Calls) /\ callList \in Seq(Calls) /\ retries \in Nat
      /\ writes \in Seq(WriteOp) /\ stale \in Seq(StaleHandler)
      /\ accepted \in Seq(Calls) /\ sent \in Seq(Calls) /\ replies \in Seq(Reply)
      /\ open \in BOOLEAN
  BY <1>0 DEF TypeOK, WriteOp
<1>2. pc \in [Calls -> {"new", "connect", "connecting", "push",
                        "issued", "waiting", "returned", "threw"}]
  BY <1>0 DEF TypeOK
<1>3. ASSUME accepted' = accepted, callId' = callId, id' = id, callMap' = callMap,
             status' # "disconnected" \/ status' = status,
             UNCHANGED <<served, sent, replies, readMsg, readCtx, dropped>>,
             armed' \subseteq armed, ResultInv', Later
      PROVE  MatchInv'
  <2>1. IdInv'
    BY <1>0, <1>3, IdKept
  <2>2. ArmedInv'
    BY <1>0, <1>3 DEF ArmedInv
  <2>3. InMap' = InMap
    BY <1>3 DEF InMap
  <2>4. WaitingCallsTracked'
    BY <1>0, <1>3, <2>3, TrackKept
  <2> QED BY <1>3, <2>1, <2>2, <2>4 DEF MatchInv
<1>4. ASSUME NEW q, ConnectSucceeds(q) PROVE MatchInv'
  <2>1. \A c \in Calls : pc'[c] = "returned" => pc[c] = "returned"
    BY <1>2, <1>4 DEF ConnectSucceeds
  <2>2. PICK aft : CallImpl(toCalls, writes, retries, aft)
    BY <1>4 DEF ConnectSucceeds
  <2>3. ChainGoes(toCalls, writes, retries, aft)
    BY <1>1, <2>2, CallImplEffect DEF ChainGoes
  <2>4. AllIn(accepted, toCalls)
    BY <1>0 DEF AcceptInv
  <2> QED BY <1>1, <1>4, <2>1, <2>3, <2>4, ChainKeepsMatch DEF ConnectSucceeds
<1>5. ASSUME NEW q, ConnectFails(q) PROVE MatchInv'
  <2>1. \A c \in Calls : pc'[c] = "returned" => pc[c] = "returned"
    BY <1>2, <1>5 DEF ConnectFails
  <2> QED BY <1>5, <2>1, StopKeepsMatch DEF ConnectFails
<1>6. CASE UNCHANGED vars
  BY <1>0, <1>3, <1>6, SameResult
<1>7. ASSUME NEW c \in Calls, CallBegin(c) PROVE MatchInv'
  <2>1. \A d \in Calls : pc'[d] = "returned" => pc[d] = "returned"
    BY <1>2, <1>7 DEF CallBegin
  <2> QED BY <1>0, <1>3, <1>7, <2>1, SameResult DEF CallBegin
<1>8. ASSUME NEW c \in Calls, CallConnect(c) PROVE MatchInv'
  <2>1. \A d \in Calls : pc'[d] = "returned" => pc[d] = "returned"
    BY <1>2, <1>8 DEF CallConnect
  <2>2. CASE status # "disconnected"
    <3>1. FailCalls({c} \ (Sync \union Silent), "repeat_connect") /\ answer' = answer
          /\ status' = status
      BY <1>8, <2>2 DEF CallConnect
    <3>2. ResultInv' /\ Later
      BY <1>0, <2>1, <3>1, FailResult
    <3> QED BY <1>3, <1>8, <3>1, <3>2 DEF CallConnect
  <2>3. CASE status = "disconnected"
    <3>1. status' = "connecting" /\ UNCHANGED <<err, result, answer>>
      BY <1>8, <2>3 DEF CallConnect
    <3>2. ResultInv' /\ Later
      BY <1>0, <2>1, <3>1, SameResult
    <3> QED BY <1>3, <1>8, <3>1, <3>2 DEF CallConnect
  <2> QED BY <2>2, <2>3
<1>9. ASSUME NEW c \in Calls, CallPush(c) PROVE MatchInv'
  <2>1. \A d \in Calls : pc'[d] = "returned" => pc[d] = "returned"
    BY <1>2, <1>9 DEF CallPush
  <2>2. UNCHANGED <<sent, served, replies, readMsg, readCtx, answer, armed, status, dropped>>
    BY <1>9 DEF CallPush
  <2>3. CASE status = "disconnected"
    <3>1. FailCalls({c}, "badconnect") /\ UNCHANGED <<callMap, callId, id, accepted>>
      BY <1>9, <2>3 DEF CallPush
    <3>2. ResultInv' /\ Later
      BY <1>0, <2>1, <2>2, <3>1, FailResult
    <3> QED BY <1>3, <2>2, <3>1, <3>2
  <2>4. CASE status # "disconnected"
    <3>1. PushCall(c) /\ UNCHANGED <<err, result>>
      BY <1>9, <2>4 DEF CallPush
    <3>2. ResultInv' /\ Later
      BY <1>0, <2>1, <2>2, <3>1, SameResult
    <3>3. accepted' = Append(accepted, c)
      BY <3>1 DEF PushCall
    <3>4. \A d : InSeq(d, accepted) => InSeq(d, accepted')
      BY <1>1, <3>3, PrecedesAppend
    <3>5. ArmedInv'
      BY <1>0, <2>2, <3>4 DEF ArmedInv
    <3>6. ~InSeq(c, accepted)
      BY <1>0, <1>9 DEF CallPush, AcceptInv, InSeq, Unpushed
    <3>7. accepted' \in Seq(Calls)
      BY <1>1, <3>3
    <3>8. WaitingCallsTracked' <=>
            \A d \in Pushed' : result'[d] = "none" =>
              d \in dropped' \/ (status' # "disconnected" /\ d \in InMap' \union readCtx')
      <4>1. \A i \in DOMAIN accepted' : accepted'[i] \in Calls
        BY <3>7
      <4> QED BY <4>1 DEF WaitingCallsTracked, Pushed, InSeq
    <3>9. \A d \in Pushed : result[d] = "none" =>
             d \in dropped \/ (status # "disconnected" /\ d \in InMap \union readCtx)
      BY <1>0, <1>1, TrackedPushed
    <3>10. CASE c \in Silent
      <4>1. UNCHANGED <<callId, id, callMap>>
        BY <3>1, <3>10 DEF PushCall
      <4>2. Pushed' = Pushed
        <5>1. \A d \in Calls \ Silent : InSeq(d, accepted') => InSeq(d, accepted)
          <6> SUFFICES ASSUME NEW d \in Calls \ Silent, InSeq(d, accepted')
                       PROVE  InSeq(d, accepted)
            OBVIOUS
          <6>1. PICK i \in DOMAIN accepted' : accepted'[i] = d
            BY DEF InSeq
          <6>2. i \in 1 .. Len(accepted) \/ i = Len(accepted) + 1
            BY <1>1, <3>3, <6>1
          <6>3. accepted'[Len(accepted) + 1] = c
            BY <1>1, <3>3
          <6>4. i \in 1 .. Len(accepted)
            BY <3>10, <6>1, <6>2, <6>3
          <6>5. i \in DOMAIN accepted /\ accepted[i] = d
            BY <1>1, <3>3, <6>1, <6>4
          <6> QED BY <6>5 DEF InSeq
        <5> QED BY <3>4, <5>1 DEF Pushed
      <4>3. InMap' = InMap
        BY <4>1 DEF InMap
      <4>4. WaitingCallsTracked'
        BY <2>2, <3>1, <3>8, <3>9, <4>2, <4>3
      <4>5. IdInv'
        BY <1>0, <2>2, <4>1, <4>2 DEF IdInv, Carries
      <4> QED BY <3>2, <3>5, <4>4, <4>5 DEF MatchInv
    <3>11. CASE c \notin Silent
      <4>1. /\ IdInv' /\ Pushed' = Pushed \union {c}
            /\ callMap' = callMap \union {<<callId + 1, c>>} /\ callId + 1 < CallIds
        BY <2>2, <3>1, <3>6, <3>11, PushKeepsId
      <4>2. callId + 1 \in 0 .. CallIds - 1
        BY <1>0, <4>1, ChannelAssumption DEF TypeOK
      <4>3. InMap \subseteq InMap' /\ c \in InMap'
        BY <4>1, <4>2 DEF InMap
      <4>4. WaitingCallsTracked'
        BY <2>2, <2>4, <3>1, <3>8, <3>9, <4>1, <4>3
      <4> QED BY <3>2, <3>5, <4>1, <4>4 DEF MatchInv
    <3> QED BY <3>10, <3>11
  <2> QED BY <2>3, <2>4
<1>10. ASSUME NEW c \in Calls, WaitReturn(c) PROVE MatchInv'
  <2>1. /\ result[c] # "none" /\ UNCHANGED <<err, result, answer>>
        /\ \A d \in Calls : pc'[d] = "returned" => pc[d] = "returned" \/ (d = c /\ err[c] = "none")
    BY <1>2, <1>10 DEF WaitReturn
  <2>2. result[c] \in {"ok", "error"}
    BY <1>0, <2>1 DEF TypeOK
  <2>3. err[c] = "none" => result[c] = "ok"
    BY <1>0, <2>2 DEF ResultInv
  <2>4. ResultInv'
    BY <1>0, <2>1, <2>3 DEF ResultInv
  <2>5. Later
    BY <2>1 DEF Later
  <2> QED BY <1>3, <1>10, <2>4, <2>5 DEF WaitReturn
<1>11. ASSUME NEW c \in Calls, Cancel(c) PROVE MatchInv'
  <2>1. FailCalls({c}, "cancel") /\ UNCHANGED <<answer, pc, status, accepted, callId, id, sent,
                           served, replies, readMsg, readCtx, armed, dropped>>
    BY <1>11 DEF Cancel
  <2>2. callMap' \subseteq callMap /\ \A p \in callMap : p[1] # id[c] => p \in callMap'
    BY <1>11 DEF Cancel
  <2>3. ResultInv' /\ Later /\ result'[c] # "none"
    BY <1>0, <2>1, FailResult
  <2>4. IdInv'
    BY <1>0, <2>1, <2>2, IdKept
  <2>5. ArmedInv'
    BY <1>0, <2>1 DEF ArmedInv
  <2>6. ASSUME NEW d \in Pushed, d # c, d \in InMap PROVE d \in InMap'
    <3>1. PICK n \in 0 .. CallIds - 1 : <<n, d>> \in callMap
      BY <2>6 DEF InMap
    <3>2. n = id[d]
      BY <1>0, <3>1 DEF IdInv
    <3>3. id[d] # id[c]
      <4>1. CASE c \in Pushed
        BY <1>0, <2>6, <4>1 DEF IdInv
      <4>2. CASE c \notin Pushed
        <5>1. id[c] = 0 /\ id[d] \in 1 .. callId /\ callId \in Nat
          BY <1>0, <2>6, <4>2 DEF IdInv, TypeOK
        <5> QED BY <5>1
      <4> QED BY <4>1, <4>2
    <3>4. <<n, d>> \in callMap'
      BY <2>2, <3>1, <3>2, <3>3
    <3> QED BY <3>1, <3>4, <2>6 DEF InMap
  <2>7. WaitingCallsTracked'
    BY <1>0, <2>1, <2>3, <2>6, TrackKept
  <2> QED BY <2>3, <2>4, <2>5, <2>7 DEF MatchInv
<1>12. ASSUME NEW c \in Calls, Timeout(c) PROVE MatchInv'
  <2>1. FailCalls({c}, "timeout") /\ answer' = answer /\ pc' = pc /\ armed' \subseteq armed
    BY <1>12 DEF Timeout
  <2>2. ResultInv' /\ Later
    BY <1>0, <2>1, FailResult
  <2> QED BY <1>3, <1>12, <2>1, <2>2 DEF Timeout
<1>13. CASE Disconnect
  BY <1>13, StopKeepsMatch DEF Disconnect
<1>14. CASE ConnectReady
  BY <1>0, <1>3, <1>14, SameResult DEF ConnectReady
<1>15a. ASSUME NEW o, NobodyTold(o) PROVE MatchInv'
  BY <1>0, <1>3, <1>15a, SameResult DEF NobodyTold
<1>15. CASE HandleConnectOk
  BY <1>4, <1>15, <1>15a DEF HandleConnectOk
<1>16. CASE HandleConnectFail
  BY <1>5, <1>15a, <1>16 DEF HandleConnectFail
<1>17a. toCalls # <<>> => /\ FrontPopped \in Seq(Calls) /\ FrontPopped = Tail(toCalls)
                          /\ AllIn(accepted, FrontPopped)
  <2>1. AllIn(accepted, toCalls)
    BY <1>0 DEF AcceptInv
  <2>2. ASSUME toCalls # <<>> PROVE Tail(toCalls) \in Seq(Calls)
    BY <1>1, <2>2
  <2>3. ASSUME toCalls # <<>> PROVE AllIn(accepted, Tail(toCalls))
    BY <1>1, <2>1, <2>3, OrderTail
  <2> QED BY <2>2, <2>3 DEF FrontPopped
<1>17. CASE RunStale
  <2>1. CASE StaleConnect
    BY <1>4, <1>5, <2>1 DEF StaleConnect
  <2>2. CASE StaleReturns
    BY <1>0, <1>3, <2>2, SameResult DEF StaleReturns
  <2>3. CASE StaleFails
    BY <2>3, StopKeepsMatch DEF StaleFails
  <2>4. CASE StaleSent
    <3>1. toCalls # <<>> /\ SendOn(FrontPopped, writes, retries, Tail(stale))
      BY <2>4 DEF StaleSent
    <3>2. ChainGoes(FrontPopped, writes, retries, Tail(stale))
      BY <1>1, <1>17a, <3>1, SendOnEffect
    <3> QED BY <1>17a, <2>4, <3>1, <3>2, ChainKeepsMatch DEF StaleSent
  <2> QED BY <1>17, <2>1, <2>2, <2>3, <2>4 DEF RunStale
<1>18. CASE WriteReachesPeer
  <2> DEFINE c == Head(writes).ctx
  <2>1. /\ writes # <<>> /\ sent' = Append(sent, c)
        /\ served' = served \union {[id |-> id[c], ctx |-> c]}
        /\ UNCHANGED <<accepted, callId, id, callMap, replies, readMsg, readCtx, armed, pc,
                       err, result, answer, dropped, status>>
    BY <1>18 DEF WriteReachesPeer
  <2>2. InSeq(c, sent') /\ \A d : InSeq(d, sent) => InSeq(d, sent')
    <3>1. c \in Calls
      <4>1. Head(writes) \in WriteOp
        BY <1>1, <2>1
      <4> QED BY <4>1 DEF WriteOp
    <3> HIDE DEF c
    <3> QED BY <1>1, <2>1, <3>1, PrecedesAppend
  <2> HIDE DEF c
  <2>3. Pushed' = Pushed
    BY <2>1 DEF Pushed
  <2>4. \A m : Carries(m) => m.id = id'[m.ctx] /\ InSeq(m.ctx, sent')
    BY <2>1, <2>2 DEF Carries
  <2>5. \A m \in served' : m.id = id'[m.ctx] /\ InSeq(m.ctx, sent')
    <3> SUFFICES ASSUME NEW m \in served' PROVE m.id = id'[m.ctx] /\ InSeq(m.ctx, sent')
      OBVIOUS
    <3>1. CASE m \in served
      BY <1>0, <2>4, <3>1 DEF IdInv
    <3>2. CASE m = [id |-> id[c], ctx |-> c]
      BY <2>1, <2>2, <3>2
    <3> QED BY <2>1, <3>1, <3>2
  <2>6. /\ \A i \in DOMAIN replies' : replies'[i].id = id'[replies'[i].ctx] /\ InSeq(replies'[i].ctx, sent')
        /\ \A m \in readMsg' : m.id = id'[m.ctx] /\ InSeq(m.ctx, sent')
    BY <1>0, <2>1, <2>4 DEF IdInv
  <2>7. IdInv'
    BY <1>0, <2>1, <2>3, <2>5, <2>6 DEF IdInv, Carries
  <2>8. ResultInv' /\ Later
    BY <1>0, <2>1, SameResult
  <2>9. ArmedInv'
    BY <1>0, <2>1 DEF ArmedInv
  <2>10. InMap' = InMap
    BY <2>1 DEF InMap
  <2>11. WaitingCallsTracked'
    BY <1>0, <2>1, <2>8, <2>10, TrackKept
  <2> QED BY <2>7, <2>8, <2>9, <2>11 DEF MatchInv
<1>19. CASE HandleSend
  <2>1. toCalls # <<>> /\ SendOn(FrontPopped, Tail(writes), retries, stale)
    BY <1>19 DEF HandleSend
  <2>2. ChainGoes(FrontPopped, Tail(writes), retries, stale)
    BY <1>1, <1>17a, <2>1, SendOnEffect
  <2> QED BY <1>17a, <1>19, <2>1, <2>2, ChainKeepsMatch DEF HandleSend
<1>20. CASE SendFails
  BY <1>20, StopKeepsMatch DEF SendFails
<1>21. CASE RunTrigger
  <2>1. CASE SenderIdle
    <3>1. ChainGoes(toCalls, writes, retries, stale)
      BY <1>1, <1>21, <2>1, CallImplEffect DEF RunTrigger, ChainGoes
    <3>2. AllIn(accepted, toCalls)
      BY <1>0 DEF AcceptInv
    <3> QED BY <1>1, <1>21, <3>1, <3>2, ChainKeepsMatch DEF RunTrigger
  <2>2. CASE ~SenderIdle
    BY <1>0, <1>3, <1>21, <2>2, SameResult DEF RunTrigger
  <2> QED BY <2>1, <2>2
<1>22. CASE RunRetry
  <2>1. retries - 1 \in Nat
    BY <1>1, <1>22 DEF RunRetry
  <2>2. ChainGoes(toCalls, writes, retries - 1, stale)
    BY <1>1, <1>22, <2>1, SendOnEffect DEF RunRetry
  <2>3. AllIn(accepted, toCalls)
    BY <1>0 DEF AcceptInv
  <2> QED BY <1>1, <1>22, <2>2, <2>3, ChainKeepsMatch DEF RunRetry
<1>23. ASSUME NEW m \in Reply, ServerReply(m) PROVE MatchInv'
  <2>1. /\ [id |-> m.id, ctx |-> m.ctx] \in served /\ served' \subseteq served
        /\ replies' = Append(replies, m)
        /\ UNCHANGED <<accepted, callId, id, callMap, sent, readMsg, readCtx, armed, pc,
                       err, result, answer, dropped, status>>
    BY <1>23 DEF ServerReply
  <2>2. Carries(m)
    BY <1>0, <2>1 DEF IdInv, Carries
  <2>3. Pushed' = Pushed
    BY <2>1 DEF Pushed
  <2>4. \A i \in DOMAIN replies' : replies'[i].id = id[replies'[i].ctx] /\ InSeq(replies'[i].ctx, sent)
    <3> SUFFICES ASSUME NEW i \in DOMAIN replies'
                 PROVE  Carries(replies'[i])
      BY DEF Carries
    <3>1. i \in DOMAIN replies \/ i = Len(replies) + 1
      BY <1>1, <1>23, <2>1
    <3>2. CASE i \in DOMAIN replies
      <4>1. replies'[i] = replies[i]
        BY <1>1, <1>23, <2>1, <3>2
      <4> QED BY <1>0, <3>2, <4>1 DEF IdInv
    <3>3. CASE i = Len(replies) + 1
      <4>1. replies'[i] = m
        BY <1>1, <1>23, <2>1, <3>3
      <4> QED BY <2>2, <4>1
    <3> QED BY <3>1, <3>2, <3>3
  <2>5. IdInv'
    BY <1>0, <2>1, <2>3, <2>4 DEF IdInv, Carries
  <2>6. ResultInv' /\ Later
    BY <1>0, <2>1, SameResult
  <2>7. ArmedInv'
    BY <1>0, <2>1 DEF ArmedInv
  <2>8. InMap' = InMap
    BY <2>1 DEF InMap
  <2>9. WaitingCallsTracked'
    BY <1>0, <2>1, <2>6, <2>8, TrackKept
  <2> QED BY <2>5, <2>6, <2>7, <2>9 DEF MatchInv
<1>24. CASE HandleRecvHead
  <2> DEFINE m == Head(replies)
             C == Matching(m.id)
  <2>0. /\ reading = "head" /\ replies # <<>>
        /\ UNCHANGED <<connFor, connects, callList, callId, id, triggers, retries, armed,
                       pc, accepted, sent>>
    BY <1>24 DEF HandleRecvHead
  <2>1. m \in Reply /\ m = replies[1] /\ 1 \in DOMAIN replies /\ Tail(replies) \in Seq(Reply)
        /\ \A i \in DOMAIN Tail(replies) : i + 1 \in DOMAIN replies /\ Tail(replies)[i] = replies[i + 1]
    BY <1>1, <2>0
  <2>2. Carries(m)
    BY <1>0, <2>1 DEF IdInv
  <2>3. readCtx = {} /\ readMsg = {}
    BY <1>0, <2>0 DEF BaseInv
  <2>4. C \subseteq {m.ctx} /\ C \subseteq Pushed /\ C \subseteq InMap
    BY <2>1, <2>2, MatchingOwn
  <2>5. Pushed' = Pushed
    BY <2>0 DEF Pushed
  <2>6. ArmedInv'
    BY <1>0, <2>0 DEF ArmedInv
  <2>7. ASSUME callMap' = callMap \ ({m.id} \X C), NEW d \in InMap, d \notin C
        PROVE  d \in InMap'
    <3>1. d \in Calls /\ \E n \in 0 .. CallIds - 1 : <<n, d>> \in callMap
      BY <2>7 DEF InMap
    <3> QED BY <2>7, <3>1 DEF InMap
  <2> HIDE DEF C, m
  <2>8. CASE m.kind \in {"empty", "fail"}
    <3>1. /\ replies' = Tail(replies) /\ callMap' = callMap \ ({m.id} \X C)
          /\ UNCHANGED <<status, readMsg, readCtx, served, dropped>>
      BY <1>24, <2>8 DEF HandleRecvHead, C, m
    <3>2. IF C = {} THEN UNCHANGED <<answer, err, result>> ELSE \E c \in C : Complete(c, m)
      BY <1>24, <2>8 DEF HandleRecvHead, C, m
    <3>3. ResultInv' /\ Later /\ \A c \in C : result'[c] # "none"
      <4>1. CASE C = {}
        BY <1>0, <2>0, <3>2, <4>1, SameResult
      <4>2. CASE C # {}
        <5>1. PICK c \in C : Complete(c, m)
          BY <3>2, <4>2
        <5>2. c = m.ctx /\ c \in Calls /\ C = {c}
          BY <2>4, <5>1 DEF Pushed
        <5> QED BY <1>0, <2>0, <2>1, <5>1, <5>2, CompleteResult
      <4> QED BY <4>1, <4>2
    <3>4. IdInv'
      BY <1>0, <2>0, <2>1, <3>1, IdKept
    <3>5. WaitingCallsTracked'
      BY <1>0, <2>0, <2>7, <3>1, <3>3, TrackKept
    <3> QED BY <2>6, <3>3, <3>4, <3>5 DEF MatchInv
  <2>9. CASE m.kind = "body"
    <3>1. /\ replies' = Tail(replies) /\ callMap' = callMap \ ({m.id} \X C)
          /\ readMsg' = {m} /\ readCtx' = C
          /\ UNCHANGED <<status, served, answer, err, result, dropped>>
      BY <1>24, <2>9 DEF HandleRecvHead, C, m
    <3>2. ResultInv' /\ Later
      BY <1>0, <2>0, <3>1, SameResult
    <3>3. \A i \in DOMAIN replies' : Carries(replies'[i])
      BY <1>0, <2>1, <3>1 DEF IdInv
    <3>4. /\ callMap' \subseteq callMap
          /\ \A n \in readMsg', c \in readCtx' : c = n.ctx
          /\ readCtx' \subseteq Pushed'
          /\ \A n \in readMsg' : Carries(n)
      BY <2>2, <2>4, <2>5, <3>1
    <3>5. IdInv'
      BY <1>0, <2>0, <2>5, <3>1, <3>3, <3>4 DEF IdInv, Carries
    <3>6. WaitingCallsTracked'
      BY <1>0, <2>0, <2>3, <2>7, <3>1, <3>2, TrackKept
    <3> QED BY <2>6, <3>2, <3>5, <3>6 DEF MatchInv
  <2>10. CASE m.kind = "huge"
    <3>1. /\ StopService("invalid_header", {}, C, stale \o AbortedSends \o AbortedConnect)
          /\ answer' = answer
      BY <1>24, <2>10 DEF HandleRecvHead, C, m
    <3> QED BY <2>0, <2>3, <3>1, StopKeepsMatch
  <2> QED BY <1>24, <2>8, <2>9, <2>10 DEF HandleRecvHead, m
<1>25. CASE HandleRecvBody
  <2>1. /\ readMsg' = {} /\ readCtx' = {}
        /\ UNCHANGED <<connVars, callVars, armed, pc, peerVars, accepted, sent, dropped>>
    BY <1>25 DEF HandleRecvBody
  <2>2. IF readCtx = {} THEN UNCHANGED <<answer, err, result>>
        ELSE \E c \in readCtx, m \in readMsg : Complete(c, m)
    BY <1>25 DEF HandleRecvBody
  <2>3. ResultInv' /\ Later /\ \A c \in readCtx : result'[c] # "none"
    <3>1. CASE readCtx = {}
      BY <1>0, <2>1, <2>2, <3>1, SameResult
    <3>2. CASE readCtx # {}
      <4>1. PICK c \in readCtx, m \in readMsg : Complete(c, m)
        BY <2>2, <3>2
      <4>2. c = m.ctx /\ c \in Calls /\ m \in Reply /\ \A d \in readCtx : d = c
        BY <1>0 DEF IdInv, TypeOK
      <4> QED BY <1>0, <2>1, <4>1, <4>2, CompleteResult
    <3> QED BY <3>1, <3>2
  <2>4. IdInv'
    BY <1>0, <2>1, IdKept
  <2>5. ArmedInv'
    BY <1>0, <2>1 DEF ArmedInv
  <2>6. InMap' = InMap
    BY <2>1 DEF InMap
  <2>7. WaitingCallsTracked'
    BY <1>0, <2>1, <2>3, <2>6, TrackKept
  <2> QED BY <2>3, <2>4, <2>5, <2>7 DEF MatchInv
<1>26. CASE RecvFails
  BY <1>26, StopKeepsMatch DEF RecvFails
<1>27. CASE Corrupts
  BY <1>0, <1>3, <1>27, SameResult DEF Corrupts
<1> QED BY <1>6, <1>7, <1>8, <1>9, <1>10, <1>11, <1>12, <1>13, <1>14, <1>15, <1>16,
           <1>17, <1>18, <1>19, <1>20, <1>21, <1>22, <1>23, <1>24, <1>25, <1>26, <1>27
        DEF Next, Step, CallStep, PeerReplies

\* The whole invariant of the channel: what holds of its connection, queues, ids and
\* results whatever is queued when a connection is begun, and of the sending chain and
\* its order as long as each one is begun with nothing of an older one queued.
THEOREM ChannelInvariant == ASSUME IdsSuffice PROVE Spec => []ChannelInv
<1>1. Init => ChannelInv
  BY InitSender, InitOrder, InitMatch DEF ChannelInv
<1>2. ChannelInv /\ [Next]_vars => ChannelInv'
  BY SenderStep, OrderStep, MatchStep DEF ChannelInv
<1> QED BY <1>1, <1>2, PTL DEF Spec

\* The reply that completes a call is its own, and wait() returns only with it, in
\* whatever order the peer answers, as long as call_id_ has not come round.
THEOREM AnswersMatchHolds == ASSUME IdsSuffice PROVE Spec => []AnswersMatch
<1>1. ChannelInv => AnswersMatch
  BY DEF ChannelInv, MatchInv, ResultInv, AnswersMatch
<1> QED BY <1>1, ChannelInvariant, PTL

\* No waiting call is forgotten by a lost connection, but for those whose body was
\* being read or was announced too large (dropped).
THEOREM WaitingCallsTrackedHolds == ASSUME IdsSuffice PROVE Spec => []WaitingCallsTracked
<1>1. ChannelInv => WaitingCallsTracked
  BY DEF ChannelInv, MatchInv
<1> QED BY <1>1, ChannelInvariant, PTL

-----------------------------------------------------------------------------
(* The channel implements the abstract rpc service *)

SameIssued == \A c \in Calls : pc'[c] = "new" <=> pc[c] = "new"

\* A step that neither makes, sends nor ends a call is no step of RpcService.
LEMMA ServiceStutters ==
  ASSUME SameIssued, sent' = sent, result' = result
  PROVE  [Service!Next]_(Service!vars)
  BY DEF Service!vars, SameIssued

\* ctx->error of calls that were made is a failure of those that had no result.
LEMMA ServiceFails ==
  ASSUME TypeOK, SameIssued, sent' = sent, NEW C, NEW e, FailCalls(C, e),
         \A c \in Calls \intersect C : pc[c] # "new"
  PROVE  [Service!Next]_(Service!vars)
<1> DEFINE D == {c \in Calls \intersect C : result[c] = "none"}
<1>1. result' = [c \in Calls |-> IF c \in D THEN "error" ELSE result[c]]
  BY DEF FailCalls
<1>2. D \subseteq {c \in Calls : pc[c] # "new"} /\ D \in SUBSET Calls
  OBVIOUS
<1>3. {c \in Calls : pc'[c] # "new"} = {c \in Calls : pc[c] # "new"}
  BY DEF SameIssued
<1>4. Service!Fail(D)
  BY <1>1, <1>2, <1>3 DEF Service!Fail
<1> QED BY <1>2, <1>4 DEF Service!Next

\* call_complete of a call whose request has left is a success or a failure.
LEMMA ServiceCompletes ==
  ASSUME TypeOK, pc' = pc, sent' = sent, NEW c \in Calls, NEW m, Complete(c, m),
         InSeq(c, sent), pc[c] # "new"
  PROVE  [Service!Next]_(Service!vars)
<1>1. SameIssued
  BY DEF SameIssued
<1>2. CASE m.kind = "fail"
  <2>1. FailCalls({c}, "remote_error")
    BY <1>2 DEF Complete
  <2> QED BY <1>1, <2>1, ServiceFails
<1>3. CASE m.kind # "fail"
  <2>1. result' = [result EXCEPT ![c] = IF @ = "none" THEN "ok" ELSE @]
    BY <1>3 DEF Complete
  <2>2. result \in [Calls -> {"none", "ok", "error"}]
    BY DEF TypeOK
  <2>3. CASE result[c] # "none"
    <3>1. result' = result
      BY <2>1, <2>2, <2>3
    <3> QED BY <1>1, <3>1, ServiceStutters
  <2>4. CASE result[c] = "none"
    <3>1. result' = [result EXCEPT ![c] = "ok"]
      BY <2>1, <2>4
    <3>2. c \in {sent[i] : i \in DOMAIN sent}
      BY DEF InSeq
    <3>3. Service!Succeed(c)
      BY <2>4, <3>1, <3>2 DEF Service!Succeed
    <3> QED BY <3>3 DEF Service!Next
  <2> QED BY <2>3, <2>4
<1> QED BY <1>2, <1>3

\* A stop fails calls of the map and the call that asked for the connection.
LEMMA ServiceStops ==
  ASSUME ChannelInv, SameIssued, sent' = sent, NEW e, NEW also, NEW lost, NEW aborted,
         StopService(e, also, lost, aborted), \A c \in Calls \intersect also : pc[c] # "new"
  PROVE  [Service!Next]_(Service!vars)
<1>0. TypeOK /\ AcceptInv /\ IdInv
  BY DEF ChannelInv, SenderInv, ArrivalInv, MatchInv
<1>1. \A c \in Pushed : pc[c] # "new"
  BY <1>0 DEF Pushed, InSeq, AcceptInv, Unpushed
<1>2. InMap \subseteq Pushed
  BY <1>0 DEF InMap, IdInv
<1>3. FailCalls(ToldOnStop(also, lost), e)
  BY DEF StopService
<1>4. \A c \in Calls \intersect ToldOnStop(also, lost) : pc[c] # "new"
  BY <1>1, <1>2 DEF ToldOnStop
<1> QED BY <1>0, <1>3, <1>4, ServiceFails

\* What the sending chain refuses, it fails for its caller, and nothing else.
LEMMA ServiceChain ==
  ASSUME ChannelInv, SameIssued, sent' = sent, NEW t \in Seq(Calls), AllIn(accepted, t),
         NEW w, NEW r, NEW q, ChainGoes(t, w, r, q)
  PROVE  [Service!Next]_(Service!vars)
<1>0. TypeOK /\ AcceptInv
  BY DEF ChannelInv, SenderInv, ArrivalInv
<1>1. CASE UNCHANGED result
  BY <1>1, ServiceStutters
<1>2. ASSUME NEW list \in {t, callList}, list # <<>>, NEW C \in SUBSET {Head(list)},
             FailCalls(C, "cancel")
      PROVE  [Service!Next]_(Service!vars)
  <2>1. list \in Seq(Calls) /\ AllIn(accepted, list)
    BY <1>0 DEF TypeOK, AcceptInv
  <2>2. Head(list) = list[1] /\ 1 \in DOMAIN list
    BY <1>2, <2>1
  <2>3. InSeq(Head(list), accepted)
    BY <2>1, <2>2 DEF AllIn
  <2>4. pc[Head(list)] # "new"
    BY <1>0, <2>3 DEF AcceptInv, InSeq, Unpushed
  <2> QED BY <1>0, <1>2, <2>4, ServiceFails
<1>3. \/ UNCHANGED result
      \/ \E list \in {t, callList} : /\ list # <<>>
                                     /\ \E C \in SUBSET {Head(list)} : FailCalls(C, "cancel")
  BY DEF ChainGoes, FrontGoes, NothingToSend
<1> QED BY <1>1, <1>2, <1>3

\* Every step of the channel is a step of the service or changes nothing of it.
LEMMA ServiceStep == ChannelInv /\ [Next]_vars => [Service!Next]_(Service!vars)
<1> SUFFICES ASSUME ChannelInv, [Next]_vars PROVE [Service!Next]_(Service!vars)
  OBVIOUS
<1> USE DEF vars, connVars, callVars, ioVars, peerVars, attempts, sending
<1>0. TypeOK /\ BaseInv /\ AcceptInv /\ IdInv /\ ArmedInv
  BY DEF ChannelInv, SenderInv, ArrivalInv, MatchInv
<1>1. /\ toCalls \in Seq(Calls) /\ callList \in Seq(Calls) /\ retries \in Nat
      /\ writes \in Seq(WriteOp) /\ stale \in Seq(StaleHandler)
      /\ accepted \in Seq(Calls) /\ sent \in Seq(Calls) /\ replies \in Seq(Reply)
      /\ open \in BOOLEAN
  BY <1>0 DEF TypeOK, WriteOp
<1>2. pc \in [Calls -> {"new", "connect", "connecting", "push",
                        "issued", "waiting", "returned", "threw"}]
  BY <1>0 DEF TypeOK
<1>3. ASSUME UNCHANGED pc PROVE SameIssued
  BY <1>3 DEF SameIssued
<1>4. \A c : InSeq(c, accepted) => c \in Calls /\ pc[c] # "new"
  BY <1>0, <1>1 DEF InSeq, AcceptInv, Unpushed
<1>5. ASSUME NEW q, ConnectSucceeds(q) PROVE [Service!Next]_(Service!vars)
  <2>1. SameIssued
    BY <1>0, <1>2, <1>5 DEF ConnectSucceeds, SameIssued, BaseInv
  <2>2. PICK aft : CallImpl(toCalls, writes, retries, aft)
    BY <1>5 DEF ConnectSucceeds
  <2>3. ChainGoes(toCalls, writes, retries, aft)
    BY <1>1, <2>2, CallImplEffect DEF ChainGoes
  <2>4. AllIn(accepted, toCalls)
    BY <1>0 DEF AcceptInv
  <2> QED BY <1>1, <1>5, <2>1, <2>3, <2>4, ServiceChain DEF ConnectSucceeds
<1>6. ASSUME NEW q, ConnectFails(q) PROVE [Service!Next]_(Service!vars)
  <2>1. SameIssued
    BY <1>0, <1>2, <1>6 DEF ConnectFails, SameIssued, BaseInv
  <2>2. \A c \in connFor : pc[c] # "new"
    BY <1>0 DEF BaseInv
  <2> QED BY <1>6, <2>1, <2>2, ServiceStops DEF ConnectFails
<1>7. CASE UNCHANGED vars
  BY <1>3, <1>7, ServiceStutters
<1>8. ASSUME NEW c \in Calls, CallBegin(c) PROVE [Service!Next]_(Service!vars)
  <2>1. /\ pc[c] = "new" /\ pc'[c] # "new" /\ \A d \in Calls : d # c => pc'[d] = pc[d]
        /\ sent' = sent /\ result' = result
    BY <1>2, <1>8 DEF CallBegin
  <2>2. {d \in Calls : pc'[d] # "new"} = {d \in Calls : pc[d] # "new"} \union {c}
    BY <2>1
  <2>3. Service!Issue(c)
    BY <2>1, <2>2 DEF Service!Issue
  <2> QED BY <2>3 DEF Service!Next
<1>9. ASSUME NEW c \in Calls, CallConnect(c) PROVE [Service!Next]_(Service!vars)
  <2>1. SameIssued /\ sent' = sent /\ pc[c] # "new"
    BY <1>2, <1>9 DEF CallConnect, SameIssued
  <2>2. CASE status # "disconnected"
    <3>1. FailCalls({c} \ (Sync \union Silent), "repeat_connect")
      BY <1>9, <2>2 DEF CallConnect
    <3> QED BY <1>0, <2>1, <3>1, ServiceFails
  <2>3. CASE status = "disconnected"
    BY <1>9, <2>1, <2>3, ServiceStutters DEF CallConnect
  <2> QED BY <2>2, <2>3
<1>10. ASSUME NEW c \in Calls, CallPush(c) PROVE [Service!Next]_(Service!vars)
  <2>1. SameIssued /\ sent' = sent /\ pc[c] # "new"
    BY <1>2, <1>10 DEF CallPush, SameIssued
  <2>2. CASE status = "disconnected"
    BY <1>0, <1>10, <2>1, <2>2, ServiceFails DEF CallPush
  <2>3. CASE status # "disconnected"
    BY <1>10, <2>1, <2>3, ServiceStutters DEF CallPush
  <2> QED BY <2>2, <2>3
<1>11. ASSUME NEW c \in Calls, WaitReturn(c) PROVE [Service!Next]_(Service!vars)
  <2>1. SameIssued /\ sent' = sent /\ result' = result
    BY <1>2, <1>11 DEF WaitReturn, SameIssued
  <2> QED BY <2>1, ServiceStutters
<1>12. ASSUME NEW c \in Calls, Cancel(c) PROVE [Service!Next]_(Service!vars)
  <2>1. FailCalls({c}, "cancel") /\ sent' = sent /\ UNCHANGED pc /\ pc[c] # "new"
    BY <1>12 DEF Cancel
  <2> QED BY <1>0, <1>3, <2>1, ServiceFails
<1>13. ASSUME NEW c \in Calls, Timeout(c) PROVE [Service!Next]_(Service!vars)
  <2>1. FailCalls({c}, "timeout") /\ sent' = sent /\ UNCHANGED pc /\ c \in armed
    BY <1>13 DEF Timeout
  <2>2. pc[c] # "new"
    BY <1>0, <1>4, <2>1 DEF ArmedInv
  <2> QED BY <1>0, <1>3, <2>1, <2>2, ServiceFails
<1>14. CASE Disconnect
  BY <1>3, <1>14, ServiceStops DEF Disconnect
<1>15. CASE ConnectReady
  BY <1>3, <1>15, ServiceStutters DEF ConnectReady
<1>16a. ASSUME NEW o, NobodyTold(o) PROVE [Service!Next]_(Service!vars)
  BY <1>3, <1>16a, ServiceStutters DEF NobodyTold
<1>16. CASE HandleConnectOk
  BY <1>5, <1>16, <1>16a DEF HandleConnectOk
<1>17. CASE HandleConnectFail
  BY <1>6, <1>16a, <1>17 DEF HandleConnectFail
<1>18a. toCalls # <<>> => FrontPopped \in Seq(Calls) /\ AllIn(accepted, FrontPopped)
  <2>1. AllIn(accepted, toCalls)
    BY <1>0 DEF AcceptInv
  <2>2. ASSUME toCalls # <<>> PROVE Tail(toCalls) \in Seq(Calls)
    BY <1>1, <2>2
  <2>3. ASSUME toCalls # <<>> PROVE AllIn(accepted, Tail(toCalls))
    BY <1>1, <2>1, <2>3, OrderTail
  <2> QED BY <2>2, <2>3 DEF FrontPopped
<1>18. CASE RunStale
  <2>1. CASE StaleConnect
    BY <1>5, <1>6, <2>1 DEF StaleConnect
  <2>2. CASE StaleReturns
    BY <1>3, <2>2, ServiceStutters DEF StaleReturns
  <2>3. CASE StaleFails
    BY <1>3, <2>3, ServiceStops DEF StaleFails
  <2>4. CASE StaleSent
    <3>1. toCalls # <<>> /\ SendOn(FrontPopped, writes, retries, Tail(stale))
      BY <2>4 DEF StaleSent
    <3>2. ChainGoes(FrontPopped, writes, retries, Tail(stale))
      BY <1>1, <1>18a, <3>1, SendOnEffect
    <3> QED BY <1>3, <1>18a, <2>4, <3>1, <3>2, ServiceChain DEF StaleSent
  <2> QED BY <1>18, <2>1, <2>2, <2>3, <2>4 DEF RunStale
<1>19. CASE WriteReachesPeer
  <2> DEFINE c == Head(writes).ctx
  <2>1. /\ writes # <<>> /\ sent' = Append(sent, c) /\ UNCHANGED <<pc, result>>
    BY <1>19 DEF WriteReachesPeer
  <2>2. 1 \in DOMAIN writes /\ Head(writes) = writes[1] /\ writes[1] \in WriteOp
    BY <1>1, <2>1
  <2>3. c \in Calls /\ InSeq(c, accepted)
    BY <1>0, <2>2 DEF AcceptInv, CtxIn, WriteOp
  <2> HIDE DEF c
  <2>6. {sent'[i] : i \in DOMAIN sent'} = {sent[i] : i \in DOMAIN sent} \union {c}
    <3>1. /\ DOMAIN sent' = 1 .. Len(sent) + 1 /\ DOMAIN sent = 1 .. Len(sent)
          /\ Len(sent) \in Nat
          /\ \A i \in DOMAIN sent : sent'[i] = sent[i]
          /\ sent'[Len(sent) + 1] = c
      BY <1>1, <2>1, <2>3
    <3>2. DOMAIN sent' = DOMAIN sent \union {Len(sent) + 1}
      BY <3>1
    <3> QED BY <3>1, <3>2
  <2>7. {d \in Calls : pc'[d] # "new"} = {d \in Calls : pc[d] # "new"}
    BY <2>1
  <2>8. c \in {d \in Calls : pc[d] # "new"}
    BY <1>4, <2>3
  <2>9. CASE c \notin {sent[i] : i \in DOMAIN sent}
    <3>1. /\ c \in {d \in Calls : pc[d] # "new"} \ {sent[i] : i \in DOMAIN sent}
          /\ {sent'[i] : i \in DOMAIN sent'} = {sent[i] : i \in DOMAIN sent} \union {c}
          /\ UNCHANGED result
      BY <2>1, <2>6, <2>8, <2>9
    <3>2. ASSUME NEW d \in Calls, d = c PROVE Service!Deliver(d)
      BY <2>7, <3>1, <3>2 DEF Service!Deliver
    <3>3. Service!Next
      BY <2>3, <3>2 DEF Service!Next
    <3> QED BY <3>3
  <2>10. CASE c \in {sent[i] : i \in DOMAIN sent}
    <3>1. {sent'[i] : i \in DOMAIN sent'} = {sent[i] : i \in DOMAIN sent}
      BY <2>6, <2>10
    <3> QED BY <2>1, <2>7, <3>1 DEF Service!vars
  <2> QED BY <2>9, <2>10
<1>20. CASE HandleSend
  <2>1. toCalls # <<>> /\ SendOn(FrontPopped, Tail(writes), retries, stale)
    BY <1>20 DEF HandleSend
  <2>2. ChainGoes(FrontPopped, Tail(writes), retries, stale)
    BY <1>1, <1>18a, <2>1, SendOnEffect
  <2> QED BY <1>3, <1>18a, <1>20, <2>1, <2>2, ServiceChain DEF HandleSend
<1>21. CASE SendFails
  BY <1>3, <1>21, ServiceStops DEF SendFails
<1>22. CASE RunTrigger
  <2>1. CASE SenderIdle
    <3>1. ChainGoes(toCalls, writes, retries, stale)
      BY <1>1, <1>22, <2>1, CallImplEffect DEF RunTrigger, ChainGoes
    <3>2. AllIn(accepted, toCalls)
      BY <1>0 DEF AcceptInv
    <3> QED BY <1>1, <1>3, <1>22, <3>1, <3>2, ServiceChain DEF RunTrigger
  <2>2. CASE ~SenderIdle
    BY <1>3, <1>22, <2>2, ServiceStutters DEF RunTrigger
  <2> QED BY <2>1, <2>2
<1>23. CASE RunRetry
  <2>1. retries - 1 \in Nat
    BY <1>1, <1>23 DEF RunRetry
  <2>2. ChainGoes(toCalls, writes, retries - 1, stale)
    BY <1>1, <1>23, <2>1, SendOnEffect DEF RunRetry
  <2>3. AllIn(accepted, toCalls)
    BY <1>0 DEF AcceptInv
  <2> QED BY <1>1, <1>3, <1>23, <2>2, <2>3, ServiceChain DEF RunRetry
<1>24. ASSUME NEW m \in Reply, ServerReply(m) PROVE [Service!Next]_(Service!vars)
  BY <1>3, <1>24, ServiceStutters DEF ServerReply
<1>25. \A m : Carries(m) => InSeq(m.ctx, sent) /\ m.ctx \in Calls /\ pc[m.ctx] # "new"
  <2>1. \A c : InSeq(c, sent) => InSeq(c, accepted)
    BY <1>0 DEF AcceptInv, AllIn, InSeq
  <2> QED BY <1>4, <2>1 DEF Carries
<1>26. CASE HandleRecvHead
  <2> DEFINE m == Head(replies)
             C == Matching(m.id)
  <2>0. replies # <<>> /\ UNCHANGED <<pc, sent>>
    BY <1>26 DEF HandleRecvHead
  <2>1. m \in Reply /\ m = replies[1] /\ 1 \in DOMAIN replies
    BY <1>1, <2>0
  <2>2. Carries(m)
    BY <1>0, <2>1 DEF IdInv
  <2>3. C \subseteq {m.ctx}
    BY <2>1, <2>2, MatchingOwn
  <2> HIDE DEF C, m
  <2>4. CASE m.kind \in {"empty", "fail"}
    <3>1. IF C = {} THEN UNCHANGED <<answer, err, result>> ELSE \E c \in C : Complete(c, m)
      BY <1>26, <2>4 DEF HandleRecvHead, C, m
    <3>2. CASE C = {}
      BY <1>3, <2>0, <3>1, <3>2, ServiceStutters
    <3>3. CASE C # {}
      <4>1. Complete(m.ctx, m)
        BY <2>3, <3>1, <3>3
      <4> QED BY <1>0, <1>25, <2>0, <2>2, <4>1, ServiceCompletes
    <3> QED BY <3>2, <3>3
  <2>5. CASE m.kind = "body"
    <3>1. UNCHANGED result
      BY <1>26, <2>5 DEF HandleRecvHead, m
    <3> QED BY <1>3, <2>0, <3>1, ServiceStutters
  <2>6. CASE m.kind = "huge"
    <3>1. StopService("invalid_header", {}, C, stale \o AbortedSends \o AbortedConnect)
      BY <1>26, <2>6 DEF HandleRecvHead, C, m
    <3> QED BY <1>3, <2>0, <3>1, ServiceStops
  <2> QED BY <1>26, <2>4, <2>5, <2>6 DEF HandleRecvHead, m
<1>27. CASE HandleRecvBody
  <2>1. UNCHANGED <<pc, sent>>
    BY <1>27 DEF HandleRecvBody
  <2>2. IF readCtx = {} THEN UNCHANGED <<answer, err, result>>
        ELSE \E c \in readCtx, m \in readMsg : Complete(c, m)
    BY <1>27 DEF HandleRecvBody
  <2>3. CASE readCtx = {}
    BY <1>3, <2>1, <2>2, <2>3, ServiceStutters
  <2>4. CASE readCtx # {}
    <3>1. PICK c \in readCtx, m \in readMsg : Complete(c, m)
      BY <2>2, <2>4
    <3>2. c = m.ctx /\ Carries(m)
      BY <1>0 DEF IdInv
    <3> QED BY <1>0, <1>25, <2>1, <3>1, <3>2, ServiceCompletes
  <2> QED BY <2>3, <2>4
<1>28. CASE RecvFails
  BY <1>3, <1>28, ServiceStops DEF RecvFails
<1>29. CASE Corrupts
  BY <1>3, <1>29, ServiceStutters DEF Corrupts
<1> QED BY <1>7, <1>8, <1>9, <1>10, <1>11, <1>12, <1>13, <1>14, <1>15, <1>16, <1>17,
           <1>18, <1>19, <1>20, <1>21, <1>22, <1>23, <1>24, <1>26, <1>27, <1>28, <1>29
        DEF Next, Step, CallStep, PeerReplies

\* The channel implements the rpc service: only a call that was made reaches the peer, a
\* call has one result, and a success only after the peer received its request, whatever
\* handlers of older connections meet a later one.
THEOREM ServiceRefined == ASSUME IdsSuffice PROVE Spec => ImplementsService
<1>1. Init => Service!Init
  BY DEF Init, Service!Init
<1>2. ChannelInv /\ [Next]_vars => [Service!Next]_(Service!vars)
  BY ServiceStep
<1> QED BY <1>1, <1>2, ChannelInvariant, PTL DEF Spec, ImplementsService, Service!Spec

=============================================================================
