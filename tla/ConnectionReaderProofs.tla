------------------------- MODULE ConnectionReaderProofs -------------------------
(***************************************************************************)
(* Proofs about ConnectionReader for every stream, buffer and header size: *)
(* the data stays within the buffer, every read ends with a message, and   *)
(* while the messages fit the buffer, exactly they are handed on, in       *)
(* order.                                                                  *)
(***************************************************************************)
EXTENDS ConnectionReader, SequenceTheorems, TLAPS

USE StreamAssumption

-----------------------------------------------------------------------------
(* Types *)

\* Every read, check and parse keeps the types.
LEMMA TypeStep == TypeOK /\ [Next]_vars => TypeOK'
<1> SUFFICES ASSUME TypeOK, [Next]_vars PROVE TypeOK'
  OBVIOUS
<1> USE DEF TypeOK
<1>1. CASE StartRead
  BY <1>1 DEF StartRead
<1>2. CASE ConditionHeader
  BY <1>2 DEF ConditionHeader, AfterCondition
<1>3. CASE ConditionLength
  BY <1>3 DEF ConditionLength, AfterCondition
<1>4. CASE \E n \in 1 .. BuffMax : ReadSome(n)
  BY <1>4 DEF ReadSome
<1>5. CASE ReadFails
  BY <1>5 DEF ReadFails
<1>6. CASE HandleRead
  BY <1>6 DEF HandleRead, DataLen
<1>7. CASE ParseMessage
  <2> PICK i \in 0 .. N : msgList' = Append(msgList, i)
    BY <1>7 DEF ParseMessage
  <2>1. msgList' \in Seq(0 .. N)
    BY AppendProperties
  <2> QED BY <1>7, <2>1 DEF ParseMessage, WholeMessage
<1>8. CASE ParseHeader
  BY <1>8 DEF ParseHeader
<1>9. CASE ParseOk
  <2>1. delivered' \in Seq(0 .. N)
    BY <1>9, ConcatProperties DEF ParseOk
  <2> QED BY <1>9, <2>1 DEF ParseOk, FrontMoved
<1>10. CASE ParseFails
  BY <1>10 DEF ParseFails
<1>11. CASE UNCHANGED vars
  BY <1>11 DEF vars
<1> QED BY <1>1, <1>2, <1>3, <1>4, <1>5, <1>6, <1>7, <1>8, <1>9, <1>10, <1>11 DEF Next

-----------------------------------------------------------------------------
(* The buffer *)

\* Every step keeps what holds of the buffer, whatever the stream.
LEMMA BufferStep == TypeOK /\ BufferInv /\ [Next]_vars => BufferInv'
<1> SUFFICES ASSUME TypeOK, BufferInv, [Next]_vars PROVE BufferInv'
  OBVIOUS
<1> USE DEF TypeOK, BufferInv, AssertsHold, DataLen, Incomplete
<1>1. CASE StartRead
  BY <1>1 DEF StartRead, Room
<1>2. CASE ConditionHeader
  <2> PICK n \in HeaderLength .. MaxLength :
          curLen' = n /\ isValid' = (isValid /\ n <= BuffMax) /\ mode' = AfterCondition(n)
    BY <1>2 DEF ConditionHeader
  <2> HIDE DEF Incomplete
  <2>0. mode = "condition" /\ curLen = -1 /\ DataLen >= HeaderLength
        /\ UNCHANGED <<base, bytes, remainLen, pnext>>
    BY <1>2 DEF ConditionHeader
  <2>1. CASE n <= BuffMax
    <3>1. isValid' = TRUE
      BY <2>0, <2>1
    <3>2. CASE n <= DataLen
      <4>1. mode' = "handle" /\ bytes > 0
        BY <2>0, <3>2 DEF AfterCondition, Incomplete
      <4> QED BY <2>0, <2>1, <3>1, <3>2, <4>1
    <3>3. CASE n > DataLen
      <4>1. mode' = "read"
        BY <2>0, <2>1, <3>3 DEF AfterCondition, Room
      <4> QED BY <2>0, <2>1, <3>1, <3>3, <4>1 DEF Incomplete
    <3> QED BY <3>2, <3>3
  <2>2. CASE n > BuffMax
    <3>1. mode' = "handle"
      BY <2>2 DEF AfterCondition
    <3> QED BY <2>0, <2>2, <3>1
  <2> QED BY <2>1, <2>2
<1>3. CASE ConditionLength
  BY <1>3 DEF ConditionLength, AfterCondition, Room
<1>4. CASE \E n \in 1 .. BuffMax : ReadSome(n)
  BY <1>4 DEF ReadSome, Room
<1>5. CASE ReadFails
  BY <1>5 DEF ReadFails
<1>6. CASE HandleRead
  BY <1>6 DEF HandleRead, ReaderValid
<1>7. CASE ParseMessage
  BY <1>7 DEF ParseMessage, WholeMessage
<1>8. CASE ParseHeader
  BY <1>8 DEF ParseHeader
<1>9. CASE ParseOk
  BY <1>9 DEF ParseOk, FrontMoved, LoopEnds, TooLarge
<1>10. CASE ParseFails
  BY <1>10 DEF ParseFails, LoopEnds, TooLarge
<1>11. CASE UNCHANGED vars
  BY <1>11 DEF vars
<1> QED BY <1>1, <1>2, <1>3, <1>4, <1>5, <1>6, <1>7, <1>8, <1>9, <1>10, <1>11 DEF Next

-----------------------------------------------------------------------------
(* The alignment with the stream *)

\* A header read at the start of message k announces its length, and the message
\* cut out there is message k.
LEMMA HeaderExact ==
  ASSUME NEW k \in 1 .. N, NEW p, p = Start[k]
  PROVE  /\ \A n : HeaderAt(p, n) => n = Size[k]
         /\ \A i \in 0 .. N : MessageAt(p, i) => i = k
<1>1. \A i \in 1 .. N : Start[i] = p => i = k
  <2> SUFFICES ASSUME NEW i \in 1 .. N, Start[i] = p, i # k PROVE FALSE
    OBVIOUS
  <2>1. i \in 1 .. N + 1 /\ k \in 1 .. N + 1 /\ (i < k \/ k < i)
    OBVIOUS
  <2>2. Start[i] < Start[k] \/ Start[k] < Start[i]
    BY <2>1
  <2> QED BY <2>1, <2>2
<1> QED BY <1>1 DEF HeaderAt, MessageAt

\* The next message has a number.
LEMMA NextMessageNat == TypeOK => NextMessage \in Nat \ {0}
  BY LenProperties DEF TypeOK, NextMessage

\* If some bytes of the stream are buffered there is a next message.
LEMMA NextMessageThere ==
  ASSUME TypeOK, AlignInv, DataLen >= HeaderLength
  PROVE  NextMessage \in 1 .. N
<1> DEFINE k == NextMessage
<1>1. k \in 1 .. N + 1
  BY NextMessageNat DEF AlignInv
<1>2. Start[k] + DataLen <= Start[N + 1]
  BY DEF AlignInv, Received
<1>3. Start[k] \in Nat /\ Start[N + 1] \in Nat /\ DataLen \in Nat
  BY <1>1 DEF TypeOK, DataLen
<1> HIDE DEF k
<1>4. k # N + 1
  BY <1>2, <1>3
<1> QED BY <1>1, <1>4 DEF k

\* The reader never takes back what it has received, so that a stream that fits now
\* has fitted before.
LEMMA FittingBefore ==
  ASSUME TypeOK, BufferInv, [Next]_vars, Fitting'
  PROVE  Fitting
<1>1. Received <= Received'
  <2> USE DEF TypeOK, Received, DataLen
  <2>1. CASE StartRead
    BY <2>1 DEF StartRead, BufferInv
  <2>2. CASE ConditionHeader \/ ConditionLength \/ ReadFails
    BY <2>2 DEF ConditionHeader, ConditionLength, ReadFails
  <2>3. CASE \E n \in 1 .. BuffMax : ReadSome(n)
    BY <2>3 DEF ReadSome
  <2>4. CASE HandleRead
    BY <2>4 DEF HandleRead
  <2>5. CASE ParseMessage
    BY <2>5 DEF ParseMessage
  <2>6. CASE ParseHeader
    BY <2>6 DEF ParseHeader
  <2>7. CASE ParseOk
    BY <2>7 DEF ParseOk, FrontMoved
  <2>8. CASE ParseFails
    BY <2>8 DEF ParseFails, LoopEnds, BufferInv
  <2>9. CASE UNCHANGED vars
    BY <2>9 DEF vars
  <2> QED BY <2>1, <2>2, <2>3, <2>4, <2>5, <2>6, <2>7, <2>8, <2>9 DEF Next
<1>2. Received \in Nat /\ Received' \in Nat
  BY TypeStep DEF TypeOK, Received, DataLen
<1>3. SUFFICES ASSUME NEW i \in 1 .. N, Start[i] + HeaderLength <= Received
               PROVE  Size[i] <= BuffMax
  BY DEF Fitting
<1>4. Start[i] \in Nat
  OBVIOUS
<1>5. Start[i] + HeaderLength <= Received'
  BY <1>1, <1>2, <1>3, <1>4
<1> QED BY <1>5 DEF Fitting

\* As long as the messages fit, every step keeps the buffer aligned with the stream.
LEMMA AlignStep ==
  ASSUME TypeOK, BufferInv, Fitting, AlignInv, [Next]_vars
  PROVE  AlignInv'
<1> DEFINE k == NextMessage
<1>k. k \in 1 .. N + 1
  BY NextMessageNat DEF AlignInv
<1>a. base + pnext = Start[k] /\ (curLen # -1 => k \in 1 .. N /\ curLen = Size[k])
  BY <1>k DEF AlignInv
<1>fit. DataLen >= HeaderLength => k \in 1 .. N /\ Size[k] <= BuffMax
  <2> SUFFICES ASSUME DataLen >= HeaderLength PROVE k \in 1 .. N /\ Size[k] <= BuffMax
    OBVIOUS
  <2>1. k \in 1 .. N
    BY NextMessageThere
  <2>2. Start[k] + HeaderLength <= Received
    BY <1>a, <2>1 DEF Received, DataLen, TypeOK
  <2> QED BY <2>1, <2>2 DEF Fitting
<1>1. CASE StartRead
  <2>1. mode = "start" /\ mode' = "condition" /\ bytes' = 0 /\ msgList' = <<>>
        /\ UNCHANGED <<base, remainLen, curLen, pnext, isValid, delivered>>
    BY <1>1 DEF StartRead, BufferInv, Incomplete, TypeOK, Room
  <2>2. NextMessage' = NextMessage
    BY <2>1 DEF NextMessage
  <2>3. pnext = 0
    BY <2>1 DEF BufferInv
  <2> QED BY <2>1, <2>2, <2>3 DEF AlignInv, Received, DataLen, TypeOK
<1>2. CASE ConditionHeader
  <2>1. PICK n \in HeaderLength .. MaxLength :
          /\ HeaderAt(base, n)
          /\ curLen' = n /\ isValid' = (isValid /\ n <= BuffMax)
          /\ mode' = AfterCondition(n)
    BY <1>2 DEF ConditionHeader
  <2>2. mode = "condition" /\ DataLen >= HeaderLength
        /\ UNCHANGED <<base, bytes, remainLen, pnext, msgList, delivered>>
    BY <1>2 DEF ConditionHeader
  <2>3. k \in 1 .. N /\ base = Start[k]
    BY <2>2, <1>a, NextMessageThere DEF BufferInv, TypeOK
  <2>4. n = Size[k] /\ n <= BuffMax
    BY <2>1, <2>2, <2>3, HeaderExact, <1>fit
  <2>5. mode' \in {"read", "handle"} /\ isValid' = TRUE
    BY <2>1, <2>4 DEF AfterCondition, AlignInv
  <2>6. NextMessage' = NextMessage
    BY <2>2, <2>5 DEF NextMessage
  <2>7. DataLen' = DataLen /\ msgList = <<>>
    BY <2>2 DEF DataLen, AlignInv
  <2>8. curLen' # -1 =>
          NextMessage' <= N /\ curLen' = Size[NextMessage'] /\ curLen' <= BuffMax
    BY <2>1, <2>3, <2>4, <2>6
  <2> QED BY <2>2, <2>5, <2>6, <2>7, <2>8 DEF AlignInv, Received
<1>3. CASE ConditionLength
  <2>1. mode = "condition" /\ mode' \in {"read", "handle"}
        /\ UNCHANGED <<base, bytes, remainLen, curLen, pnext, isValid, msgList, delivered>>
    BY <1>3 DEF ConditionLength, AfterCondition
  <2>2. NextMessage' = NextMessage
    BY <2>1 DEF NextMessage
  <2> QED BY <2>1, <2>2 DEF AlignInv, Received, DataLen
<1>4. CASE \E n \in 1 .. BuffMax : ReadSome(n)
  <2>1. PICK n \in 1 .. BuffMax : ReadSome(n)
    BY <1>4
  <2>2. mode = "read" /\ mode' = "condition" /\ bytes' = bytes + n
        /\ base + DataLen + n <= Start[N + 1]
        /\ UNCHANGED <<base, remainLen, curLen, pnext, isValid, msgList, delivered>>
    BY <2>1 DEF ReadSome
  <2>3. NextMessage' = NextMessage /\ pnext = 0
    BY <2>2 DEF NextMessage, BufferInv
  <2>4. base' + pnext' + DataLen' <= Start[N + 1]
    BY <2>2, <2>3 DEF DataLen, TypeOK
  <2> QED BY <2>2, <2>3, <2>4 DEF AlignInv, Received
<1>5. CASE ReadFails
  <2>1. mode = "read" /\ mode' = "closed"
        /\ UNCHANGED <<base, bytes, remainLen, curLen, pnext, isValid, msgList, delivered>>
    BY <1>5 DEF ReadFails
  <2>2. NextMessage' = NextMessage
    BY <2>1 DEF NextMessage
  <2> QED BY <2>1, <2>2 DEF AlignInv, Received, DataLen
<1>6. CASE HandleRead
  <2>1. mode = "handle" /\ msgList = <<>>
        /\ UNCHANGED <<base, curLen, pnext, isValid, msgList, delivered>>
    BY <1>6 DEF HandleRead, AlignInv
  <2>2. DataLen' = DataLen /\ mode' \in {"parse", "closed"}
    BY <1>6 DEF HandleRead, DataLen, TypeOK
  <2>3. NextMessage' = NextMessage
    BY <2>1, <2>2, EmptySeq DEF NextMessage, TypeOK
  <2> QED BY <2>1, <2>2, <2>3 DEF AlignInv, Received
<1>7. CASE ParseMessage
  <2>1. PICK i \in 0 .. N : MessageAt(base + pnext, i) /\ msgList' = Append(msgList, i)
    BY <1>7 DEF ParseMessage
  <2>2. mode = "parse" /\ curLen # -1 /\ pnext' = pnext + curLen
        /\ remainLen' = remainLen - curLen /\ curLen' = -1
        /\ UNCHANGED <<mode, base, bytes, isValid, delivered>>
    BY <1>7 DEF ParseMessage
  <2>3. k \in 1 .. N /\ curLen = Size[k]
    BY <1>a, <2>2
  <2>4. i = k
    BY <2>1, <2>3, <1>a, HeaderExact
  <2>5. /\ msgList' \in Seq(0 .. N) /\ Len(msgList') = Len(msgList) + 1
        /\ \A j \in 1 .. Len(msgList) : msgList'[j] = msgList[j]
        /\ msgList'[Len(msgList) + 1] = i
    BY <2>1, AppendProperties DEF TypeOK
  <2>6. k = Len(delivered) + Len(msgList) + 1 /\ NextMessage' = k + 1
    BY <2>2, <2>5, LenProperties DEF NextMessage, TypeOK
  <2>7. \A j \in DOMAIN msgList' : msgList'[j] = Len(delivered) + j
    <3>1. DOMAIN msgList' = 1 .. Len(msgList) + 1 /\ DOMAIN msgList = 1 .. Len(msgList)
      BY <2>5, LenProperties DEF TypeOK
    <3>2. \A j \in 1 .. Len(msgList) : msgList[j] = Len(delivered) + j
      BY <3>1, <2>2 DEF AlignInv
    <3>3. Len(msgList) \in Nat /\ Len(delivered) \in Nat
      BY LenProperties DEF TypeOK
    <3> DEFINE m == Len(msgList)
               d == Len(delivered)
    <3> HIDE DEF m, d, k
    <3>4. SUFFICES ASSUME NEW j \in 1 .. m + 1 PROVE msgList'[j] = d + j
      BY <3>1 DEF m, d
    <3>5. CASE j = m + 1
      BY <2>4, <2>5, <2>6, <3>3, <3>5 DEF m, d
    <3>6. CASE j \in 1 .. m
      BY <2>5, <3>2, <3>6 DEF m, d
    <3>7. m \in Nat
      BY <3>3 DEF m
    <3>8. j = m + 1 \/ j \in 1 .. m
      BY <3>7
    <3> QED BY <3>5, <3>6, <3>8
  <2>8. base' + pnext' = Start[k + 1]
    BY <1>a, <2>2, <2>3 DEF TypeOK
  <2>9. base' + pnext' + DataLen' = base + pnext + DataLen
    BY <2>2 DEF DataLen, TypeOK
  <2>10. NextMessage' <= N + 1 /\ base' + pnext' = Start[NextMessage']
    BY <2>3, <2>6, <2>8
  <2>11. base' + pnext' + DataLen' <= Start[N + 1] /\ isValid'
    BY <2>2, <2>9 DEF AlignInv, Received
  <2>12. \A j \in DOMAIN delivered' : delivered'[j] = j
    BY <2>2 DEF AlignInv
  <2>13. mode' = "parse" /\ Len(delivered') = Len(delivered) /\ curLen' = -1
    BY <2>2
  <2> QED BY <2>7, <2>10, <2>11, <2>12, <2>13 DEF AlignInv, Received
<1>8. CASE ParseHeader
  <2>1. PICK n \in HeaderLength .. MaxLength :
          /\ HeaderAt(base + pnext, n)
          /\ curLen' = n /\ isValid' = (isValid /\ n <= BuffMax)
    BY <1>8 DEF ParseHeader
  <2>2. mode = "parse" /\ remainLen >= HeaderLength
        /\ UNCHANGED <<mode, base, bytes, remainLen, pnext, msgList, delivered>>
    BY <1>8 DEF ParseHeader
  <2>3. k \in 1 .. N
    BY <2>2, NextMessageThere DEF BufferInv, TypeOK, DataLen
  <2>4. n = Size[k] /\ n <= BuffMax
    <3>1. DataLen >= HeaderLength
      BY <2>2 DEF BufferInv, TypeOK, DataLen
    <3> QED BY <2>1, <2>3, <3>1, <1>a, HeaderExact, <1>fit
  <2>5. isValid' = TRUE
    BY <2>1, <2>4 DEF AlignInv
  <2>6. NextMessage' = NextMessage
    BY <2>2 DEF NextMessage
  <2> QED BY <2>1, <2>2, <2>3, <2>4, <2>5, <2>6 DEF AlignInv, Received, DataLen
<1>9. CASE ParseOk
  <2>1. mode = "parse" /\ mode' = "start" /\ base' = base + pnext /\ pnext' = 0
        /\ delivered' = delivered \o msgList /\ bytes = 0
        /\ UNCHANGED <<bytes, remainLen, curLen, isValid, msgList>>
    BY <1>9 DEF ParseOk, LoopEnds, FrontMoved, BufferInv
  <2>2. /\ delivered' \in Seq(0 .. N) /\ Len(delivered') = Len(delivered) + Len(msgList)
        /\ \A j \in 1 .. Len(delivered) + Len(msgList) : delivered'[j] =
               IF j <= Len(delivered) THEN delivered[j] ELSE msgList[j - Len(delivered)]
    BY <2>1, ConcatProperties DEF TypeOK
  <2>3. NextMessage' = NextMessage
    BY <2>1, <2>2, LenProperties DEF NextMessage, TypeOK
  <2>4. \A j \in DOMAIN delivered' : delivered'[j] = j
    <3>1. /\ DOMAIN delivered' = 1 .. Len(delivered) + Len(msgList)
          /\ DOMAIN delivered = 1 .. Len(delivered) /\ DOMAIN msgList = 1 .. Len(msgList)
          /\ Len(delivered) \in Nat /\ Len(msgList) \in Nat
      BY <2>2, LenProperties DEF TypeOK
    <3>2. /\ \A j \in 1 .. Len(delivered) : delivered[j] = j
          /\ \A j \in 1 .. Len(msgList) : msgList[j] = Len(delivered) + j
      BY <3>1, <2>1 DEF AlignInv
    <3> DEFINE d == Len(delivered)
               m == Len(msgList)
    <3> HIDE DEF d, m
    <3>3. SUFFICES ASSUME NEW j \in 1 .. d + m PROVE delivered'[j] = j
      BY <3>1 DEF d, m
    <3>4. CASE j <= d
      BY <3>4, <3>1, <3>2, <2>2 DEF d, m
    <3>5. CASE j > d
      <4>1. j - d \in 1 .. m
        BY <3>5, <3>1 DEF d, m
      <4>2. delivered'[j] = msgList[j - d] /\ msgList[j - d] = d + (j - d)
        BY <4>1, <3>5, <3>1, <3>2, <2>2 DEF d, m
      <4> QED BY <4>2, <3>1 DEF d, m
    <3> QED BY <3>4, <3>5, <3>1 DEF d, m
  <2>5. base' + pnext' = base + pnext /\ Received' = Received
    BY <2>1 DEF Received, DataLen, TypeOK
  <2> QED BY <2>1, <2>3, <2>4, <2>5 DEF AlignInv
<1>10. CASE ParseFails
  <2>1. ~TooLarge
    BY DEF TooLarge, AlignInv, TypeOK
  <2>2. pnext # 0
    BY <1>10, <2>1 DEF ParseFails, LoopEnds, TooLarge, BufferInv, TypeOK
  <2> QED BY <1>10, <2>1, <2>2 DEF ParseFails
<1>11. CASE UNCHANGED vars
  BY <1>11 DEF vars, AlignInv, NextMessage, Received, DataLen
<1> QED BY <1>1, <1>2, <1>3, <1>4, <1>5, <1>6, <1>7, <1>8, <1>9, <1>10, <1>11 DEF Next

-----------------------------------------------------------------------------
(* Theorems *)

\* The inductive invariant of the reader holds for every stream.
THEOREM ReaderInvariant == Spec => []ReaderInv
<1>1. Init => ReaderInv
  <2> SUFFICES ASSUME Init PROVE ReaderInv
    OBVIOUS
  <2>1. TypeOK
    BY EmptySeq DEF Init, TypeOK
  <2>2. BufferInv
    BY DEF Init, BufferInv, AssertsHold, DataLen, Incomplete
  <2>3. NextMessage = 1 /\ Start[1] = 0 /\ Start[N + 1] \in Nat
    BY DEF Init, NextMessage
  <2>4. Received = 0 /\ delivered = <<>> /\ curLen = -1 /\ base + pnext = 0
        /\ mode = "start" /\ isValid
    BY DEF Init, Received, DataLen
  <2>5. AlignInv
    BY <2>3, <2>4 DEF AlignInv
  <2> QED BY <2>1, <2>2, <2>5 DEF ReaderInv
<1>2. ReaderInv /\ [Next]_vars => ReaderInv'
  <2> SUFFICES ASSUME ReaderInv, [Next]_vars PROVE ReaderInv'
    OBVIOUS
  <2>1. TypeOK /\ BufferInv /\ TypeOK' /\ BufferInv'
    BY TypeStep, BufferStep DEF ReaderInv
  <2>2. ASSUME Fitting' PROVE AlignInv'
    <3>1. Fitting /\ AlignInv
      BY <2>1, <2>2, FittingBefore DEF ReaderInv
    <3> QED BY <2>1, <3>1, AlignStep
  <2> QED BY <2>1, <2>2 DEF ReaderInv
<1> QED BY <1>1, <1>2, PTL DEF Spec

\* Type correctness of the reader.
THEOREM TypeCorrect == Spec => []TypeOK
<1>1. ReaderInv => TypeOK
  BY DEF ReaderInv
<1> QED BY <1>1, ReaderInvariant, PTL

\* The assertions of completion_condition and parse never fail, whatever lengths
\* the peer announces.
THEOREM WithinBuffer == Spec => []AssertsHold
<1>1. ReaderInv => AssertsHold
  BY DEF ReaderInv, BufferInv
<1> QED BY <1>1, ReaderInvariant, PTL

\* Every read that is parsed yields a message, and the next read has room.
THEOREM ReadsHaveMessages == Spec => []EveryReadHasMessage
<1>1. ReaderInv => EveryReadHasMessage
  BY DEF ReaderInv, BufferInv, TypeOK, EveryReadHasMessage, LoopEnds, TooLarge
<1> QED BY <1>1, ReaderInvariant, PTL

\* However the stream is cut into pieces, the messages handed on are the messages
\* sent, in order and without loss, if they fit the buffer.
THEOREM FramingIsExact == Spec => []FramingExact
<1>1. ReaderInv => FramingExact
  <2> SUFFICES ASSUME ReaderInv, Fitting
               PROVE  /\ \A i \in DOMAIN delivered : delivered[i] = i
                      /\ mode = "start" => base = Start[Len(delivered) + 1]
    BY DEF FramingExact
  <2>1. AlignInv /\ TypeOK /\ BufferInv
    BY DEF ReaderInv
  <2>2. ASSUME mode = "start" PROVE base = Start[Len(delivered) + 1]
    <3>1. pnext = 0 /\ NextMessage = Len(delivered) + 1
      BY <2>1, <2>2, LenProperties DEF BufferInv, NextMessage, TypeOK
    <3> QED BY <2>1, <3>1 DEF AlignInv, TypeOK
  <2> QED BY <2>1, <2>2 DEF AlignInv
<1> QED BY <1>1, ReaderInvariant, PTL

\* If the messages fit, the reader itself never closes the connection.
THEOREM ClosedByErrors == Spec => OnlyErrorsClose
<1>1. ReaderInv /\ [Next]_vars => [Fitting' /\ mode' = "closed" => mode = "read"]_vars
  <2> SUFFICES ASSUME ReaderInv, Next, Fitting', mode' = "closed", mode # "read"
               PROVE  vars' = vars
    BY DEF vars
  <2>1. HandleRead
    BY DEF Next, StartRead, ConditionHeader, ConditionLength, AfterCondition, ReadSome,
           ReadFails, HandleRead, ParseMessage, ParseHeader, ParseOk, ParseFails, LoopEnds,
           ReaderInv, TypeOK
  <2>2. AlignInv /\ TypeOK /\ BufferInv
    BY FittingBefore DEF ReaderInv
  <2>3. curLen <= BuffMax
    BY <2>2 DEF AlignInv, TypeOK
  <2>4. bytes > 0 /\ ReaderValid
    BY <2>1, <2>2, <2>3 DEF HandleRead, BufferInv, TypeOK, ReaderValid, AlignInv
  <2> QED BY <2>1, <2>2, <2>4 DEF HandleRead, TypeOK
<1> QED BY <1>1, ReaderInvariant, PTL DEF Spec, OnlyErrorsClose

=============================================================================
