---------------------------- MODULE ConnectionReader ----------------------------
(***************************************************************************)
(* The framing of messages on a tcp connection: detail::connection_reader  *)
(* and the read loop of tcp_connection that drives it                      *)
(* (network/net/tcp_connect.hpp).                                          *)
(*                                                                         *)
(* The peer's bytes are counted from the start of the connection: message  *)
(* i occupies the bytes Start[i] .. Start[i] + Size[i] - 1, its header the *)
(* first HeaderLength of them.  `base' is the number of the byte at the    *)
(* front of buff_, so that a position in the buffer is an offset from it.  *)
(* Bytes arrive in pieces of any size.  A header read anywhere but at the  *)
(* start of a message is garbage and may hold any length.                  *)
(***************************************************************************)
EXTENDS Integers, Sequences

CONSTANTS
    N,            \* number of messages the peer sends
    Size,         \* the length of each, its header included
    Start,        \* the first byte of each; Start[N + 1] is the end of the stream
    HeaderLength, \* header_length_
    BuffMax,      \* CLIENT_MSG_BUFF_MAX
    MaxLength     \* bound: the largest length a header can announce

ASSUME StreamAssumption ==
    /\ N \in Nat
    /\ HeaderLength \in Nat \ {0}
    /\ BuffMax \in Nat /\ HeaderLength <= BuffMax
    /\ MaxLength \in Nat /\ BuffMax <= MaxLength
    /\ Size \in [1 .. N -> HeaderLength .. MaxLength]
    /\ Start \in [1 .. N + 1 -> Nat]
    /\ Start[1] = 0
    /\ \A i \in 1 .. N : Start[i + 1] = Start[i] + Size[i]
    /\ \A i, j \in 1 .. N + 1 : i < j => Start[i] < Start[j]

VARIABLES
    mode,       \* where the read loop is: "start" (async_sequence_read), "condition"
                \* (completion_condition), "read" (waiting for bytes), "handle"
                \* (handle_sequence_read), "parse", "closed", "stalled" (no read begun)
    base,       \* see above
    bytes,      \* bytes_transfered of the read
    remainLen,  \* remain_len_
    curLen,     \* cur_len_, -1 while the next header has not been read
    pnext,      \* pnext - buff_.begin()
    isValid,    \* is_valid_
    msgList,    \* msg_list_: the messages by number, 0 for garbage
    delivered   \* history: the messages given to on_receive_msgs

vars == <<mode, base, bytes, remainLen, curLen, pnext, isValid, msgList, delivered>>

TypeOK ==
    /\ mode \in {"start", "condition", "read", "handle", "parse", "closed", "stalled"}
    /\ base \in Nat /\ bytes \in Nat /\ remainLen \in Nat /\ pnext \in Nat
    /\ curLen \in {-1} \union HeaderLength .. MaxLength
    /\ isValid \in BOOLEAN
    /\ msgList \in Seq(0 .. N) /\ delivered \in Seq(0 .. N)

Init ==
    /\ mode = "start"
    /\ base = 0 /\ bytes = 0 /\ remainLen = 0 /\ curLen = -1 /\ pnext = 0
    /\ isValid = TRUE
    /\ msgList = <<>> /\ delivered = <<>>

-----------------------------------------------------------------------------
(* The bytes of the stream *)

DataLen == remainLen + bytes

\* Mutant: the read may fill the whole buffer although something is left over.
WholeBuffer == BuffMax

\* The size of the buffer prepare_next_recv returns.
Room == BuffMax - remainLen

\* A header read at byte p may announce the length n.
HeaderAt(p, n) ==
    /\ n \in HeaderLength .. MaxLength
    /\ \A i \in 1 .. N : Start[i] = p => n = Size[i]

\* The message cut out at byte p is message i, or garbage.
MessageAt(p, i) ==
    IF i = 0 THEN \A k \in 1 .. N : Start[k] # p
    ELSE i \in 1 .. N /\ Start[i] = p

-----------------------------------------------------------------------------
(* The read loop of tcp_connection *)

\* async_sequence_read and prepare_next_recv: the read goes behind what is left
\* over, and is not begun when there is no room.
StartRead ==
    /\ mode = "start"
    /\ mode' = IF Room > 0 THEN "condition" ELSE "stalled"
    /\ bytes' = 0
    /\ msgList' = <<>>
    /\ UNCHANGED <<base, remainLen, curLen, pnext, isValid, delivered>>

\* Mutant: the read ends with the header.
AfterHeader(len) == IF len # -1 \/ bytes = Room THEN "handle" ELSE "read"

\* Mutant: the read ends only when the buffer is full.
AfterFill(len) == IF len > BuffMax \/ bytes = Room THEN "handle" ELSE "read"

\* What async_read does with the answer of completion_condition: it stops when
\* that is 0 or the buffer is full.
AfterCondition(len) ==
    IF len \in 0 .. DataLen \/ len > BuffMax \/ bytes = Room THEN "handle" ELSE "read"

\* completion_condition: called before the first and after every piece of a read.
ConditionHeader ==
    /\ mode = "condition"
    /\ curLen = -1
    /\ DataLen >= HeaderLength
    /\ \E n \in HeaderLength .. MaxLength :
          /\ HeaderAt(base, n)
          /\ curLen' = n
          /\ isValid' = (isValid /\ n <= BuffMax)
          /\ mode' = AfterCondition(n)
    /\ UNCHANGED <<base, bytes, remainLen, pnext, msgList, delivered>>

ConditionLength ==
    /\ mode = "condition"
    /\ curLen # -1 \/ DataLen < HeaderLength
    /\ mode' = AfterCondition(curLen)
    /\ UNCHANGED <<base, bytes, remainLen, curLen, pnext, isValid, msgList, delivered>>

\* The next n bytes arrive, at most as many as there is room for.
ReadSome(n) ==
    /\ mode = "read"
    /\ bytes + n <= Room
    /\ base + DataLen + n <= Start[N + 1]
    /\ bytes' = bytes + n
    /\ mode' = "condition"
    /\ UNCHANGED <<base, remainLen, curLen, pnext, isValid, msgList, delivered>>

\* The end of the stream or an error: on_error.
ReadFails ==
    /\ mode = "read"
    /\ mode' = "closed"
    /\ UNCHANGED <<base, bytes, remainLen, curLen, pnext, isValid, msgList, delivered>>

\* Mutant: off by one at the largest length.
ValidBelowMax == isValid /\ curLen # -1 /\ curLen < BuffMax

\* is_valid(): cur_len_ is unsigned, so an unread length is not valid either.
ReaderValid == isValid /\ curLen # -1 /\ curLen <= BuffMax

\* handle_sequence_read up to the loop of parse.
HandleRead ==
    /\ mode = "handle"
    /\ IF bytes = 0 \/ ~ReaderValid
       THEN mode' = "closed" /\ UNCHANGED <<bytes, remainLen>>
       ELSE mode' = "parse" /\ remainLen' = DataLen /\ bytes' = 0
    /\ UNCHANGED <<base, curLen, pnext, isValid, msgList, delivered>>

-----------------------------------------------------------------------------
(* The loop of parse, an action for each turn *)

\* Mutant: only a header is asked for.
HeaderThere == remainLen >= HeaderLength

WholeMessage == remainLen >= curLen

ParseMessage ==
    /\ mode = "parse"
    /\ curLen # -1 /\ curLen <= BuffMax
    /\ WholeMessage
    /\ \E i \in 0 .. N : MessageAt(base + pnext, i) /\ msgList' = Append(msgList, i)
    /\ pnext' = pnext + curLen
    /\ remainLen' = remainLen - curLen
    /\ curLen' = -1
    /\ UNCHANGED <<mode, base, bytes, isValid, delivered>>

ParseHeader ==
    /\ mode = "parse"
    /\ curLen = -1
    /\ remainLen >= HeaderLength
    /\ \E n \in HeaderLength .. MaxLength :
          /\ HeaderAt(base + pnext, n)
          /\ curLen' = n
          /\ isValid' = (isValid /\ n <= BuffMax)
    /\ UNCHANGED <<mode, base, bytes, remainLen, pnext, msgList, delivered>>

\* The loop is left: a length is too large, or there is no whole header or message.
TooLarge == curLen > BuffMax
LoopEnds ==
    /\ mode = "parse"
    /\ TooLarge \/ remainLen < (IF curLen = -1 THEN HeaderLength ELSE curLen)

\* Mutant: what is left over is not moved to the front of the buffer.
FrontKept == base

FrontMoved == base + pnext

\* parse_ok, and at least one message: what is left is moved to the front and the
\* messages are handled.
ParseOk ==
    /\ LoopEnds
    /\ ~TooLarge /\ pnext # 0
    /\ base' = FrontMoved
    /\ pnext' = 0
    /\ delivered' = delivered \o msgList
    /\ mode' = "start"
    /\ UNCHANGED <<bytes, remainLen, curLen, isValid, msgList>>

\* Otherwise reset() throws away all that is buffered, the whole messages too, and
\* reading goes on with whatever comes next.
ParseFails ==
    /\ LoopEnds
    /\ TooLarge \/ pnext = 0
    /\ base' = base + pnext + remainLen
    /\ pnext' = 0 /\ remainLen' = 0 /\ curLen' = -1
    /\ isValid' = TRUE
    /\ msgList' = <<>>
    /\ mode' = "start"
    /\ UNCHANGED <<bytes, delivered>>

-----------------------------------------------------------------------------
Next ==
    \/ StartRead \/ ConditionHeader \/ ConditionLength
    \/ \E n \in 1 .. BuffMax : ReadSome(n)
    \/ ReadFails \/ HandleRead
    \/ ParseMessage \/ ParseHeader \/ ParseOk \/ ParseFails

Spec == Init /\ [][Next]_vars

\* The io_service runs its handlers.  Nothing is assumed of the peer: it may stop to
\* send at any byte.
Handlers ==
    \/ StartRead \/ ConditionHeader \/ ConditionLength \/ HandleRead
    \/ ParseMessage \/ ParseHeader \/ ParseOk \/ ParseFails

FairSpec == Spec /\ WF_vars(Handlers)

-----------------------------------------------------------------------------
(* Properties *)

\* The assertions of completion_condition and parse: the data never exceeds buff_,
\* whatever the lengths the peer announces.
AssertsHold == pnext + DataLen <= BuffMax

\* "we should have at least got one msg": when the loop of parse ends, it has cut
\* out a message (the read was not ended too early), so that there is always room
\* for the next read and the loop does not end silently.
EveryReadHasMessage == (LoopEnds => pnext # 0) /\ mode # "stalled"

\* The bytes that have been read from the socket, and whether every message whose
\* header is among them fits the buffer.
Received == base + pnext + DataLen
Fitting ==
    \A i \in 1 .. N : Start[i] + HeaderLength <= Received => Size[i] <= BuffMax

\* As long as every header that was received announces a message that fits, what is
\* handed on is what the peer sent, in order, without loss, repetition or garbage,
\* however the stream is cut into pieces, and the buffer starts where the last message
\* handed on ends.
FramingExact ==
    Fitting => /\ \A i \in DOMAIN delivered : delivered[i] = i
               /\ mode = "start" => base = Start[Len(delivered) + 1]

\* ... and the connection is closed only by an error of the socket.
OnlyErrorsClose == [][Fitting' /\ mode' = "closed" => mode = "read"]_vars

\* A message that has arrived is handed on without waiting for the bytes behind it,
\* unless the connection fails or a header does not fit.
AllDelivered ==
    \A i \in 1 .. N :
        Received >= Start[i + 1] ~> Len(delivered) >= i \/ mode = "closed" \/ ~Fitting

-----------------------------------------------------------------------------
(* The inductive invariant behind the properties *)

\* No whole header or message is buffered: what is true between two reads.
Incomplete(data) ==
    IF curLen = -1 THEN data < HeaderLength ELSE curLen <= BuffMax /\ data < curLen

\* The buffer, for any stream.
BufferInv ==
    /\ AssertsHold
    /\ mode # "stalled"
    /\ mode \in {"start", "condition", "read"} => isValid
    /\ mode # "parse" => pnext = 0
    /\ mode = "start" => Incomplete(remainLen) /\ bytes = 0
    /\ mode = "condition" => curLen <= BuffMax /\ (bytes = 0 => Incomplete(remainLen))
    /\ mode = "read" => Incomplete(DataLen)
    /\ mode = "handle" => \/ curLen > BuffMax
                          \/ curLen # -1 /\ DataLen >= curLen /\ bytes > 0
    /\ mode = "parse" => /\ bytes = 0
                         /\ isValid \/ curLen > BuffMax
                         /\ pnext = 0 => /\ curLen # -1 /\ curLen <= BuffMax
                                         /\ remainLen >= curLen

\* The number of the message at the front of what is buffered and not cut out.
NextMessage == Len(delivered) + (IF mode = "parse" THEN Len(msgList) ELSE 0) + 1

\* The alignment with the stream while its messages fit.
AlignInv ==
    /\ isValid
    /\ NextMessage <= N + 1
    /\ base + pnext = Start[NextMessage]
    /\ Received <= Start[N + 1]
    /\ curLen # -1 => NextMessage <= N /\ curLen = Size[NextMessage] /\ curLen <= BuffMax
    /\ \A i \in DOMAIN delivered : delivered[i] = i
    /\ mode = "parse" => \A i \in DOMAIN msgList : msgList[i] = Len(delivered) + i
    /\ mode \in {"condition", "read", "handle"} => msgList = <<>>

ReaderInv == TypeOK /\ BufferInv /\ (Fitting => AlignInv)

=============================================================================
