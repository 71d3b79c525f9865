--------------------------- MODULE TxStream_proofs --------------------------
(***************************************************************************)
(* Proofs about TxStream, for every set of transactions, every block size  *)
(* and every buffer size: type correctness, that no byte is lost between   *)
(* two blocks, that the hash covers each consumed byte once, that the      *)
(* handlers write inside their buffers, that a block is asked for only     *)
(* when one is missing, and that the parser implements TxFields.           *)
(***************************************************************************)
EXTENDS TxStream, SequenceTheorems, TLAPS

-----------------------------------------------------------------------------
(* The operators of the model.                                             *)

\* The handlers are at a field that has a successor: currentField + 1 is still
\* in the enumeration, and so is currentField + 2 after the outer list.
LEMMA FieldOrder ==
    ASSUME NEW type \in {"LEGACY", "EIP2930"}, NEW i \in 1..Len(FieldsOf(type))
    PROVE  /\ FieldsOf(type)[i] # "DONE" => i + 1 \in 1..Len(FieldsOf(type))
           /\ FieldsOf(type)[i] = "CONTENT" => i = 1
           /\ 3 \in 1..Len(FieldsOf(type))
<1>1. CASE type = "LEGACY"
  <2>1. FieldsOf(type) = LegacyFields
    BY <1>1 DEF FieldsOf
  <2>2. Len(LegacyFields) = 12 /\ LegacyFields[12] = "DONE"
    BY DEF LegacyFields
  <2>3. \A j \in 2..12 : LegacyFields[j] # "CONTENT"
    BY DEF LegacyFields
  <2> QED
    BY <2>1, <2>2, <2>3
<1>2. CASE type = "EIP2930"
  <2>1. FieldsOf(type) = Eip2930Fields
    BY <1>2 DEF FieldsOf
  <2>2. Len(Eip2930Fields) = 14 /\ Eip2930Fields[14] = "DONE"
    BY DEF Eip2930Fields
  <2>3. \A j \in 2..14 : Eip2930Fields[j] # "CONTENT"
    BY DEF Eip2930Fields
  <2> QED
    BY <2>1, <2>2, <2>3
<1> QED
  BY <1>1, <1>2

\* What one byte says: a self-encoded byte has length 1 and is not a list.
LEMMA FirstHeaderByte ==
    ASSUME NEW b \in 0..255
    PROVE  /\ LengthBytes(b) \in 0..8
           /\ LengthBytes(b) = 0 => RlpShortLength(b) \in Nat
           /\ RlpSelfEncoded(b) \in BOOLEAN
           /\ RlpIsList(b) \in BOOLEAN
           /\ RlpSelfEncoded(b) =>
                  LengthBytes(b) = 0 /\ RlpShortLength(b) = 1 /\ ~RlpIsList(b)
BY DEF RlpShortLength, LengthBytes, RlpSelfEncoded, RlpIsList

\* Big-endian numbers are natural numbers.
LEMMA ShiftedNat ==
    \A high \in Nat, low \in Byte : low \in Nat /\ Shifted(high, low) \in Nat
BY DEF Shifted, Byte

\* A length written on one to four bytes is a number.
LEMMA LongLengthNat ==
    ASSUME NEW buf, NEW n \in 1..4, \A i \in 2..5 : i <= n + 1 => buf[i] \in Byte
    PROVE  RlpLongLength(buf, n) \in Nat
<1> DEFINE two == Shifted(buf[2], buf[3])
           three == Shifted(two, buf[4])
<1>0. buf[2] \in Byte /\ 0 \in Nat
  OBVIOUS
<1>1. buf[2] \in Nat
  BY <1>0, ShiftedNat, Zenon
<1>2. n > 1 => two \in Nat
  <2>1. n > 1 => buf[3] \in Byte
    OBVIOUS
  <2> QED
    BY <1>1, <2>1, ShiftedNat, Zenon
<1>3. n > 2 => three \in Nat
  <2>1. n > 2 => n > 1 /\ buf[4] \in Byte
    OBVIOUS
  <2> QED
    BY <1>2, <2>1, ShiftedNat, Zenon
<1>4. n > 3 => Shifted(three, buf[5]) \in Nat
  <2>1. n > 3 => n > 2 /\ buf[5] \in Byte
    OBVIOUS
  <2> QED
    BY <1>3, <2>1, ShiftedNat, Zenon
<1> HIDE DEF two, three
<1>5. CASE n = 1
  BY <1>1, <1>5 DEF RlpLongLength
<1>6. CASE n = 2
  <2>1. RlpLongLength(buf, n) = two
    BY <1>6 DEF RlpLongLength, two
  <2> QED
    BY <1>2, <1>6, <2>1
<1>7. CASE n = 3
  <2>1. RlpLongLength(buf, n) = three
    BY <1>7 DEF RlpLongLength, two, three
  <2> QED
    BY <1>3, <1>7, <2>1
<1>8. CASE n = 4
  <2>1. RlpLongLength(buf, n) = Shifted(three, buf[5])
    BY <1>8 DEF RlpLongLength, two, three
  <2> QED
    BY <1>4, <1>8, <2>1
<1> QED
  BY <1>5, <1>6, <1>7, <1>8

\* A complete header decodes to a length, 1 for a byte that is its own payload.
LEMMA DecodedLength ==
    ASSUME NEW buf \in Seq(Byte), Len(buf) > 0, Len(buf) <= RlpBufferSize,
           RlpCanDecode(buf)
    PROVE  /\ RlpDecodeLength(buf) \in Nat
           /\ RlpSelfEncoded(buf[1]) \in BOOLEAN
           /\ RlpIsList(buf[1]) \in BOOLEAN
           /\ RlpSelfEncoded(buf[1]) =>
                  RlpDecodeLength(buf) = 1 /\ ~RlpIsList(buf[1])
<1>1. Len(buf) \in Nat
  BY LenProperties
<1>2. \A i \in 1..5 : i <= Len(buf) => buf[i] \in Byte
  BY <1>1, ElementOfSeq
<1>3. buf[1] \in 0..255
  BY <1>1, <1>2 DEF Byte
<1>4. LengthBytes(buf[1]) \in 0..8
  BY <1>3, FirstHeaderByte
<1>5. LengthBytes(buf[1]) \in 0..4 /\ LengthBytes(buf[1]) < Len(buf)
  BY <1>1, <1>4 DEF RlpCanDecode, RlpBufferSize
<1>6. LengthBytes(buf[1]) # 0 => RlpLongLength(buf, LengthBytes(buf[1])) \in Nat
  <2>1. \A i \in 2..5 : i <= LengthBytes(buf[1]) + 1 => buf[i] \in Byte
    BY <1>1, <1>2, <1>5
  <2> QED
    BY <1>5, <2>1, LongLengthNat
<1>7. CASE LengthBytes(buf[1]) = 0
  BY <1>3, <1>7, FirstHeaderByte DEF RlpDecodeLength
<1>8. CASE LengthBytes(buf[1]) # 0
  BY <1>3, <1>6, <1>8, FirstHeaderByte DEF RlpDecodeLength
<1> QED
  BY <1>7, <1>8

-----------------------------------------------------------------------------
(* Types and positions.                                                    *)

\* What the types leave open between a header and its field: a field is
\* dispatched after its header, a header that fills rlpBuffer is a fault, and
\* a self-encoded byte is a string of one byte.
HeaderInv ==
    /\ status # "FAULT" => Len(rlpBuffer) < RlpBufferSize
    /\ status = "DISPATCH" => processingField
    /\ processingField /\ fieldSingleByte =>
           currentFieldLength = 1 /\ ~currentFieldIsList

IInv == TypeOK /\ NothingLost /\ HeaderInv

\* A handler takes no more than the block and the field hold.
LEMMA CopySizeBounds ==
    ASSUME TypeOK
    PROVE  /\ CopySize \in Nat
           /\ CopySize <= commandLength
           /\ currentFieldPos + CopySize <= currentFieldLength
BY DEF TypeOK, CopySize, Smaller

\* The positions given to Keccak are numbers.
LEMMA UpcomingSeq ==
    ASSUME workBuffer \in Nat, NEW n \in Nat
    PROVE  /\ Upcoming(n) \in Seq(Nat)
           /\ Len(Upcoming(n)) = n
           /\ \A i \in 1..n : Upcoming(n)[i] = workBuffer + i
BY DEF Upcoming

\* The initial state satisfies the inductive invariant.
LEMMA InitInv == Init => IInv
<1> SUFFICES ASSUME Init PROVE IInv
  OBVIOUS
<1>1. Len(FieldsOf(txType)) \in Nat /\ 1 \in 1..Len(FieldsOf(txType))
  BY DEF Init, FieldsOf, LegacyFields
<1>2. <<>> \in Seq(Byte) /\ <<>> \in Seq(Nat) /\ Len(<<>>) = 0
  BY EmptySeq
<1>3. /\ tx \in Seq(Byte) /\ rlpBuffer \in Seq(Byte) /\ hashed \in Seq(Nat)
      /\ Len(tx) = 0 /\ Len(rlpBuffer) = 0
  BY <1>2, Zenon DEF Init
<1>4. length \in [BufferFields -> Nat]
  BY DEF Init
<1>5. TypeOK
  <2>1. currentField \in 1..Len(FieldsOf(txType)) /\ txType \in {"LEGACY", "EIP2930"}
    BY <1>1 DEF Init
  <2>2. /\ delivered = 0 /\ workBuffer = 0 /\ commandLength = 0 /\ dataLength = 0
        /\ currentFieldLength = 0 /\ currentFieldPos = 0 /\ fieldAt = 0
        /\ currentFieldIsList = FALSE /\ processingField = FALSE
        /\ fieldSingleByte = FALSE /\ status = "IDLE"
    BY DEF Init
  <2>3. /\ currentFieldIsList \in BOOLEAN /\ processingField \in BOOLEAN
        /\ fieldSingleByte \in BOOLEAN
    BY <2>2
  <2>5. Len(rlpBuffer) <= RlpBufferSize
    BY <1>3 DEF RlpBufferSize
  <2>4. /\ delivered \in 0..Len(tx) /\ workBuffer \in 0..Len(tx) /\ fieldAt \in 0..Len(tx)
        /\ commandLength \in Nat /\ dataLength \in Nat /\ currentFieldLength \in Nat
        /\ currentFieldPos \in 0..currentFieldLength
        /\ status \in Returned \cup {"IDLE", "CONTINUE", "DISPATCH"}
    BY <1>3, <2>2
  <2> QED
    BY <1>3, <1>4, <2>1, <2>3, <2>4, <2>5 DEF TypeOK
<1>6. NothingLost
  BY DEF Init, NothingLost
<1>7. HeaderInv
  BY <1>3 DEF Init, HeaderInv, RlpBufferSize
<1> QED
  BY <1>5, <1>6, <1>7 DEF IInv

\* A handler that consumes n bytes of its field keeps the invariant.
LEMMA ConsumeInv ==
    ASSUME IInv, NEW n \in Nat, n <= CopySize, Field # "DONE",
           ConsumeField(n), hashed' \in Seq(Nat), status # "FAULT",
           length' \in [BufferFields -> Nat], status' \in {"CONTINUE", "SUSPENDED"}
    PROVE  IInv'
<1>1. /\ n <= commandLength
      /\ currentFieldPos + n <= currentFieldLength
  BY CopySizeBounds DEF IInv, TypeOK
<1>2. /\ workBuffer' = workBuffer + n
      /\ commandLength' = commandLength - n
      /\ currentFieldPos' = currentFieldPos + n
  BY DEF ConsumeField, CopyTxData
<1>3. /\ UNCHANGED <<tx, delivered, txType, currentFieldLength, currentFieldIsList>>
      /\ UNCHANGED <<fieldSingleByte, rlpBuffer, dataLength>>
  BY DEF ConsumeField, transaction, header
<1>4. /\ currentField' \in 1..Len(FieldsOf(txType))
      /\ processingField' \in BOOLEAN
      /\ processingField' => processingField
      /\ fieldAt' \in 0..Len(tx)
  <2>1. CASE currentFieldPos + n = currentFieldLength
    <3>1. /\ currentField' = currentField + 1
          /\ processingField' = FALSE
          /\ fieldAt' = workBuffer + n
      BY <2>1 DEF ConsumeField, NextFieldAfter
    <3>2. currentField + 1 \in 1..Len(FieldsOf(txType))
      BY FieldOrder DEF IInv, TypeOK, Field
    <3>3. workBuffer + n \in 0..Len(tx)
      BY <1>1, LenProperties DEF IInv, TypeOK, NothingLost
    <3> QED
      BY <3>1, <3>2, <3>3
  <2>2. CASE currentFieldPos + n # currentFieldLength
    <3>1. UNCHANGED <<currentField, processingField, fieldAt>>
      BY <2>2 DEF ConsumeField, NextFieldAfter
    <3> QED
      BY <3>1 DEF IInv, TypeOK
  <2> QED
    BY <2>1, <2>2
<1>5. TypeOK'
  <2>1. workBuffer' \in 0..Len(tx) /\ commandLength' \in Nat
    BY <1>1, <1>2, LenProperties DEF IInv, TypeOK, NothingLost
  <2>2. currentFieldPos' \in 0..currentFieldLength
    BY <1>1, <1>2 DEF IInv, TypeOK
  <2> QED
    BY <1>3, <1>4, <2>1, <2>2 DEF IInv, TypeOK, Returned
<1>6. NothingLost'
  BY <1>2, <1>3 DEF IInv, TypeOK, NothingLost
<1>7. HeaderInv'
  BY <1>3, <1>4 DEF IInv, HeaderInv
<1> QED
  BY <1>5, <1>6, <1>7 DEF IInv

\* One APDU block: a new transaction, or more of the current one.
LEMMA FirstBlockInv ==
    ASSUME NEW t \in Transactions, NEW n \in 1..MaxBlock, FirstBlock(t, n)
    PROVE  IInv'
<1>1. t \in Seq(Byte) /\ n \in Nat /\ n > 0 /\ n <= Len(t) /\ Len(t) \in Nat
  BY StreamAssumption, LenProperties DEF FirstBlock
<1>2. /\ TypeBytes(t) \in 0..1
      /\ TypeOf(t) \in {"LEGACY", "EIP2930"}
  BY DEF TypeBytes, TypeOf
<1>3. 1 \in 1..Len(FieldsOf(TypeOf(t)))
  BY <1>2 DEF FieldsOf, LegacyFields, Eip2930Fields
<1>4. rlpBuffer' \in Seq(Byte) /\ hashed' \in Seq(Nat) /\ Len(rlpBuffer') = 0
  BY EmptySeq, Zenon DEF FirstBlock, InitTx
<1>5. length' \in [BufferFields -> Nat]
  BY DEF FirstBlock, InitTx
<1>6. /\ tx' = t /\ delivered' = n /\ workBuffer' = TypeBytes(t)
      /\ commandLength' = n - TypeBytes(t) /\ fieldAt' = TypeBytes(t)
      /\ txType' = TypeOf(t) /\ currentField' = 1 /\ status' = "CONTINUE"
      /\ processingField' = FALSE /\ fieldSingleByte' = FALSE
      /\ currentFieldIsList' = FALSE /\ currentFieldLength' = 0
      /\ currentFieldPos' = 0 /\ dataLength' = 0
  BY DEF FirstBlock, InitTx
<1>7. TypeOK'
  <2>1. /\ currentFieldIsList' \in BOOLEAN /\ processingField' \in BOOLEAN
        /\ fieldSingleByte' \in BOOLEAN
    BY <1>6
  <2>5. Len(rlpBuffer') <= RlpBufferSize
    BY <1>4 DEF RlpBufferSize
  <2>2. /\ tx' \in Seq(Byte) /\ delivered' \in 0..Len(tx')
        /\ workBuffer' \in 0..Len(tx') /\ fieldAt' \in 0..Len(tx')
    BY <1>1, <1>2, <1>6
  <2>3. /\ commandLength' \in Nat /\ dataLength' \in Nat /\ currentFieldLength' \in Nat
        /\ currentFieldPos' \in 0..currentFieldLength'
        /\ status' \in Returned \cup {"IDLE", "CONTINUE", "DISPATCH"}
    BY <1>1, <1>2, <1>6
  <2>4. /\ txType' \in {"LEGACY", "EIP2930"}
        /\ currentField' \in 1..Len(FieldsOf(txType'))
    BY <1>2, <1>3, <1>6
  <2> QED
    BY <1>4, <1>5, <2>1, <2>2, <2>3, <2>4, <2>5 DEF TypeOK
<1>8. NothingLost'
  BY <1>1, <1>2, <1>6 DEF NothingLost
<1>9. HeaderInv'
  BY <1>4, <1>6 DEF HeaderInv, RlpBufferSize
<1> QED
  BY <1>7, <1>8, <1>9 DEF IInv

\* The next block keeps it.
LEMMA MoreBlockInv ==
    ASSUME IInv, NEW n \in 0..MaxBlock, MoreBlock(n)
    PROVE  IInv'
<1>1. n \in Nat /\ Len(tx) \in Nat
  BY StreamAssumption, LenProperties DEF IInv, TypeOK
<1>2. /\ delivered' = delivered + n /\ delivered + n <= Len(tx)
      /\ workBuffer' = delivered /\ commandLength' = n
      /\ status = "PROCESSING" /\ status' = "CONTINUE"
      /\ UNCHANGED <<tx, txType, currentField, currentFieldPos, processingField>>
      /\ UNCHANGED <<currentFieldLength, currentFieldIsList, fieldSingleByte,
                     rlpBuffer, dataLength, length, hashed, fieldAt>>
  BY DEF MoreBlock, header, content
<1>3. TypeOK'
  BY <1>1, <1>2 DEF IInv, TypeOK
<1>4. NothingLost'
  BY <1>1, <1>2 DEF IInv, TypeOK, NothingLost
<1>5. HeaderInv'
  BY <1>2 DEF IInv, HeaderInv
<1> QED
  BY <1>3, <1>4, <1>5 DEF IInv

\* A step that only sets the status, to one that the invariant allows.
LEMMA StatusInv ==
    ASSUME IInv, status # "FAULT", status' \in Returned \cup {"CONTINUE"},
           status' = "PROCESSING" => commandLength = 0,
           UNCHANGED <<tx, delivered, txType, workBuffer, commandLength>>,
           UNCHANGED <<currentField, currentFieldPos, processingField>>,
           UNCHANGED <<currentFieldLength, currentFieldIsList, fieldSingleByte,
                       rlpBuffer, dataLength, hashed, fieldAt>>,
           length' \in [BufferFields -> Nat]
    PROVE  IInv'
<1>1. TypeOK'
  BY DEF IInv, TypeOK, Returned
<1>2. NothingLost'
  BY DEF IInv, NothingLost
<1>3. HeaderInv'
  BY DEF IInv, HeaderInv, Returned
<1> QED
  BY <1>1, <1>2, <1>3 DEF IInv

\* An early return keeps it.
LEMMA ReturnInv ==
    ASSUME IInv, status # "FAULT", NEW s \in Returned, Return(s),
           s = "PROCESSING" => commandLength = 0,
           length' \in [BufferFields -> Nat]
    PROVE  IInv'
BY StatusInv DEF Return, transaction, header

\* A header byte that does not end the header keeps it.
LEMMA ReadHeaderInv ==
    ASSUME IInv, ReadHeader
    PROVE  IInv'
<1> DEFINE b == tx[workBuffer + 1]
<1>1. /\ Len(tx) \in Nat /\ Len(rlpBuffer) \in Nat
      /\ commandLength > 0 /\ workBuffer + 1 \in 1..Len(tx)
      /\ status = "CONTINUE" /\ ~processingField
  BY LenProperties DEF ReadHeader, Looping, IInv, TypeOK, NothingLost
<1>2. b \in Byte /\ workBuffer + 1 \in Nat
  BY <1>1, ElementOfSeq DEF IInv, TypeOK
<1>3. /\ rlpBuffer' = Append(rlpBuffer, b)
      /\ rlpBuffer' \in Seq(Byte)
      /\ Len(rlpBuffer') = Len(rlpBuffer) + 1
  BY <1>2, AppendProperties DEF ReadHeader, ReadTxByte, IInv, TypeOK
<1>4. /\ workBuffer' = workBuffer + 1
      /\ commandLength' = commandLength - 1
      /\ UNCHANGED <<tx, delivered, txType, currentField, currentFieldPos>>
      /\ UNCHANGED <<processingField, currentFieldLength, currentFieldIsList,
                     fieldSingleByte, dataLength, length, fieldAt>>
  BY DEF ReadHeader, transaction, content
<1>5. /\ status' \in {"FAULT", "PROCESSING", "CONTINUE"}
      /\ status' = "PROCESSING" => commandLength' = 0
      /\ status' # "FAULT" => Len(rlpBuffer') # RlpBufferSize
  BY DEF ReadHeader, AfterHeaderByte
<1>6. hashed' \in Seq(Nat)
  <2>1. Upcoming(1) \in Seq(Nat)
    BY <1>2, UpcomingSeq DEF IInv, TypeOK
  <2> QED
    BY <2>1, ConcatProperties DEF ReadHeader, ReadTxByte, IInv, TypeOK
<1>7. Len(rlpBuffer) < RlpBufferSize
  BY <1>1 DEF IInv, HeaderInv
<1>8. TypeOK'
  BY <1>1, <1>3, <1>4, <1>5, <1>6, <1>7 DEF IInv, TypeOK, RlpBufferSize, Returned
<1>9. NothingLost'
  BY <1>1, <1>4, <1>5 DEF IInv, TypeOK, NothingLost
<1>10. HeaderInv'
  BY <1>1, <1>3, <1>4, <1>5, <1>7 DEF IInv, HeaderInv, RlpBufferSize
<1> QED
  BY <1>8, <1>9, <1>10 DEF IInv

\* The last byte of a header, put back or not, keeps it.
LEMMA DecodeHeaderInv ==
    ASSUME IInv, DecodeHeader
    PROVE  IInv'
<1> DEFINE b == tx[workBuffer + 1]
           buf == Append(rlpBuffer, b)
           consumed == 1 - PutBack(buf)
<1>1. /\ Len(tx) \in Nat /\ Len(rlpBuffer) \in Nat
      /\ commandLength > 0 /\ workBuffer + 1 \in 1..Len(tx)
      /\ status = "CONTINUE"
  BY LenProperties DEF DecodeHeader, Looping, IInv, TypeOK, NothingLost
<1>2. b \in Byte /\ workBuffer + 1 \in Nat
  BY <1>1, ElementOfSeq DEF IInv, TypeOK
<1>3. /\ buf \in Seq(Byte)
      /\ Len(buf) = Len(rlpBuffer) + 1
  BY <1>2, AppendProperties DEF IInv, TypeOK
<1>4. Len(rlpBuffer) < RlpBufferSize
  BY <1>1 DEF IInv, HeaderInv
<1> HIDE DEF b
<1>5. /\ RlpDecodeLength(buf) \in Nat
      /\ RlpSelfEncoded(buf[1]) \in BOOLEAN
      /\ RlpIsList(buf[1]) \in BOOLEAN
      /\ RlpSelfEncoded(buf[1]) => RlpDecodeLength(buf) = 1 /\ ~RlpIsList(buf[1])
  <2>1. Len(buf) > 0 /\ Len(buf) <= RlpBufferSize
    BY <1>1, <1>3, <1>4 DEF RlpBufferSize
  <2>2. RlpCanDecode(buf)
    BY DEF DecodeHeader, b
  <2> QED
    BY <1>3, <2>1, <2>2, DecodedLength
<1>6. consumed \in 0..1
  BY DEF PutBack
<1>7. /\ workBuffer' = workBuffer + consumed
      /\ commandLength' = commandLength - consumed
      /\ currentFieldLength' = RlpDecodeLength(buf)
      /\ currentFieldIsList' = RlpIsList(buf[1])
      /\ fieldSingleByte' = RlpSelfEncoded(buf[1])
      /\ currentFieldPos' = 0 /\ processingField' = TRUE /\ status' = "DISPATCH"
      /\ rlpBuffer' = <<>>
  BY DEF DecodeHeader, AfterHeader, b
<1>8. /\ UNCHANGED <<tx, delivered, txType, currentField, dataLength>>
      /\ UNCHANGED <<length, fieldAt>>
  BY DEF DecodeHeader, transaction, content
<1> HIDE DEF buf, consumed
<1>9. hashed' \in Seq(Nat)
  <2>1. Upcoming(1) \in Seq(Nat)
    BY <1>2, UpcomingSeq DEF IInv, TypeOK
  <2>2. hashed' = hashed \o Upcoming(1)
    BY DEF DecodeHeader
  <2> QED
    BY <2>1, <2>2, ConcatProperties DEF IInv, TypeOK
<1>10. rlpBuffer' \in Seq(Byte) /\ Len(rlpBuffer') = 0
  BY <1>7, EmptySeq, Zenon
<1>11. TypeOK'
  <2>1. /\ currentFieldIsList' \in BOOLEAN /\ processingField' \in BOOLEAN
        /\ fieldSingleByte' \in BOOLEAN
    BY <1>5, <1>7
  <2>2. workBuffer' \in 0..Len(tx) /\ commandLength' \in Nat
    BY <1>1, <1>6, <1>7 DEF IInv, TypeOK
  <2>3. /\ currentFieldLength' \in Nat /\ currentFieldPos' \in 0..currentFieldLength'
        /\ Len(rlpBuffer') <= RlpBufferSize
    BY <1>5, <1>7, <1>10 DEF RlpBufferSize
  <2> QED
    BY <1>7, <1>8, <1>9, <1>10, <2>1, <2>2, <2>3 DEF IInv, TypeOK
<1>12. NothingLost'
  BY <1>6, <1>7, <1>8 DEF IInv, TypeOK, NothingLost
<1>13. HeaderInv'
  <2>1. fieldSingleByte' => currentFieldLength' = 1 /\ ~currentFieldIsList'
    BY <1>5, <1>7
  <2> QED
    BY <1>7, <1>10, <2>1 DEF HeaderInv, RlpBufferSize
<1> QED
  BY <1>11, <1>12, <1>13 DEF IInv

\* A handler is called at a field whose header was decoded.
LEMMA AtFieldInv ==
    ASSUME IInv, NEW f, AtField(f)
    PROVE  /\ status \in {"DISPATCH", "CONTINUE"}
           /\ processingField
           /\ Field = f
BY DEF AtField, Looping, IInv, HeaderInv

\* copyTxData appends numbers to the hashed positions.
LEMMA ConsumeHashed ==
    ASSUME IInv, NEW n \in Nat, ConsumeField(n)
    PROVE  hashed' \in Seq(Nat)
<1>1. Upcoming(n) \in Seq(Nat) /\ hashed \in Seq(Nat)
  BY UpcomingSeq DEF IInv, TypeOK
<1>2. hashed \o Upcoming(n) \in Seq(Nat)
  BY <1>1, ConcatProperties
<1> QED
  BY <1>1, <1>2 DEF ConsumeField, CopyTxData

\* A handler that copies its field keeps it.
LEMMA CopyFieldInv ==
    ASSUME IInv, NEW f \in BufferFields, NEW at, CopyField(f, at)
    PROVE  IInv'
<1>1. status \in {"DISPATCH", "CONTINUE"} /\ Field = f
  BY AtFieldInv DEF CopyField
<1>2. Field # "DONE"
  BY <1>1 DEF BufferFields
<1>3. CopySize \in Nat /\ CopySize <= CopySize
  BY CopySizeBounds DEF IInv
<1>4. ConsumeField(CopySize) /\ status' = "CONTINUE"
  BY DEF CopyField
<1>5. hashed' \in Seq(Nat)
  BY <1>3, <1>4, ConsumeHashed
<1>6. length' \in [BufferFields -> Nat]
  BY DEF CopyField, IInv, TypeOK
<1> QED
  BY <1>1, <1>2, <1>3, <1>4, <1>5, <1>6, ConsumeInv

\* A handler that drops its field keeps it.
LEMMA SkipFieldInv ==
    ASSUME IInv, NEW f, f # "DONE", SkipField(f)
    PROVE  IInv'
<1>1. status \in {"DISPATCH", "CONTINUE"} /\ Field # "DONE"
  BY AtFieldInv DEF SkipField
<1>2. CopySize \in Nat /\ CopySize <= CopySize
  BY CopySizeBounds DEF IInv
<1>3. ConsumeField(CopySize) /\ status' = "CONTINUE"
  BY DEF SkipField
<1>4. hashed' \in Seq(Nat)
  BY <1>2, <1>3, ConsumeHashed
<1>5. length' \in [BufferFields -> Nat]
  BY DEF SkipField, content, IInv, TypeOK
<1> QED
  BY <1>1, <1>2, <1>3, <1>4, <1>5, ConsumeInv

\* The outer list keeps it.
LEMMA ContentInv ==
    ASSUME IInv, ProcessContent
    PROVE  IInv'
<1>1. status \in {"DISPATCH", "CONTINUE"} /\ Field = "CONTENT"
  BY AtFieldInv DEF ProcessContent
<1>2. currentField = 1 /\ 3 \in 1..Len(FieldsOf(txType))
  BY <1>1, FieldOrder DEF Field, IInv, TypeOK
<1>3. /\ dataLength' = currentFieldLength /\ currentField' = currentField + 2
      /\ processingField' = FALSE /\ fieldAt' = workBuffer /\ status' = "CONTINUE"
      /\ UNCHANGED <<tx, delivered, txType, workBuffer, commandLength, currentFieldPos>>
      /\ UNCHANGED <<currentFieldLength, currentFieldIsList, fieldSingleByte,
                     rlpBuffer, length, hashed>>
  BY DEF ProcessContent, transaction, header, content
<1>4. TypeOK'
  <2>1. currentField' \in 1..Len(FieldsOf(txType))
    BY <1>2, <1>3
  <2>2. processingField' \in BOOLEAN
    BY <1>3
  <2> QED
    BY <1>3, <2>1, <2>2 DEF IInv, TypeOK
<1>5. NothingLost'
  BY <1>3 DEF IInv, NothingLost
<1>6. HeaderInv'
  BY <1>1, <1>3 DEF IInv, HeaderInv
<1> QED
  BY <1>4, <1>5, <1>6 DEF IInv

\* Contract data keeps it, whatever the contract code takes.
LEMMA CustomInv ==
    ASSUME IInv, CustomHandled
    PROVE  IInv'
<1>1. status \in {"DISPATCH", "CONTINUE"} /\ Field # "DONE"
  BY AtFieldInv DEF CustomHandled, CustomProcessing
<1>2. CopySize \in Nat
  BY CopySizeBounds DEF IInv
<1>3. PICK n \in 1..CopySize : ConsumeField(n)
  BY DEF CustomHandled
<1>4. n \in Nat /\ n <= CopySize
  BY <1>2
<1>5. hashed' \in Seq(Nat)
  BY <1>3, <1>4, ConsumeHashed
<1>6. length' \in [BufferFields -> Nat] /\ status' \in {"CONTINUE", "SUSPENDED"}
  BY DEF CustomHandled, content, IInv, TypeOK
<1> QED
  BY <1>1, <1>3, <1>4, <1>5, <1>6, ConsumeInv

\* A step that changes nothing keeps the invariant.
LEMMA StutterInv ==
    ASSUME IInv, UNCHANGED vars
    PROVE  IInv'
BY DEF vars, transaction, header, content, IInv, TypeOK, NothingLost, HeaderInv

\* Every step keeps it.
LEMMA StepInv ==
    ASSUME IInv, Next
    PROVE  IInv'
<1>0. length \in [BufferFields -> Nat]
  BY DEF IInv, TypeOK
<1>1. ASSUME NEW t \in Transactions, NEW n \in 1..MaxBlock, FirstBlock(t, n)
      PROVE  IInv'
  BY <1>1, FirstBlockInv
<1>2. ASSUME NEW n \in 0..MaxBlock, MoreBlock(n)
      PROVE  IInv'
  BY <1>2, MoreBlockInv
<1>3. CASE ContinueTx
  BY <1>0, <1>3, StatusInv DEF ContinueTx, transaction, header, content
<1>4. CASE FinishDone
  <2>1. Return("FINISHED") /\ status = "CONTINUE" /\ length' = length
    BY <1>4 DEF FinishDone
  <2> QED
    BY <1>0, <2>1, ReturnInv DEF Returned
<1>5. CASE FinishBeforeV
  <2>1. /\ Return("FINISHED") /\ status = "CONTINUE"
        /\ length' = [length EXCEPT !["V"] = 0]
    BY <1>5 DEF FinishBeforeV
  <2>2. length' \in [BufferFields -> Nat]
    BY <1>0, <2>1
  <2> QED
    BY <2>1, <2>2, ReturnInv DEF Returned
<1>6. CASE OutOfBytes
  <2>1. /\ Return("PROCESSING") /\ status = "CONTINUE" /\ length' = length
        /\ commandLength = 0
    BY <1>6 DEF OutOfBytes
  <2> QED
    BY <1>0, <2>1, ReturnInv DEF Returned
<1>7. CASE ReadHeader
  BY <1>7, ReadHeaderInv
<1>8. CASE DecodeHeader
  BY <1>8, DecodeHeaderInv
<1>9. CASE RejectField
  <2>1. Return("FAULT") /\ length' = length /\ status \in {"DISPATCH", "CONTINUE"}
    BY <1>9, AtFieldInv DEF RejectField
  <2> QED
    BY <1>0, <2>1, ReturnInv DEF Returned
<1>10. CASE ProcessContent
  BY <1>10, ContentInv
<1>11. CASE ProcessChainID
  BY <1>11, CopyFieldInv DEF ProcessChainID, BufferFields
<1>12. CASE ProcessNonce
  BY <1>12, CopyFieldInv DEF ProcessNonce, BufferFields
<1>13. CASE ProcessGasprice
  BY <1>13, CopyFieldInv DEF ProcessGasprice, BufferFields
<1>14. CASE ProcessStartGas
  BY <1>14, CopyFieldInv DEF ProcessStartGas, BufferFields
<1>15. CASE ProcessTo
  BY <1>15, CopyFieldInv DEF ProcessTo, BufferFields
<1>16. CASE ProcessValue
  BY <1>16, CopyFieldInv DEF ProcessValue, BufferFields
<1>17. CASE ProcessV
  BY <1>17, CopyFieldInv DEF ProcessV, BufferFields
<1>18. CASE ProcessAccessList
  BY <1>18, SkipFieldInv DEF ProcessAccessList
<1>19. CASE ProcessData
  BY <1>19, SkipFieldInv DEF ProcessData, SkippedFields
<1>20. CASE CustomHandled
  BY <1>20, CustomInv
<1>21. CASE CustomFault
  <2>1. Return("FAULT") /\ length' = length /\ status \in {"DISPATCH", "CONTINUE"}
    BY <1>21, AtFieldInv DEF CustomFault, CustomProcessing
  <2> QED
    BY <1>0, <2>1, ReturnInv DEF Returned
<1> QED
  BY <1>1, <1>2, <1>3, <1>4, <1>5, <1>6, <1>7, <1>8, <1>9, <1>10, <1>11, <1>12,
     <1>13, <1>14, <1>15, <1>16, <1>17, <1>18, <1>19, <1>20, <1>21
     DEF Next, ParserStep, FieldHandler

\* The inductive invariant holds in every reachable state, for any set of
\* transactions, any block length and any buffer sizes.
THEOREM Invariance == Spec => []IInv
<1>1. Init => IInv
  BY InitInv
<1>2. IInv /\ [Next]_vars => IInv'
  BY StepInv, StutterInv
<1> QED
  BY <1>1, <1>2, PTL DEF Spec

\* Every state of the parser is well typed: the field enumeration is never run
\* past its end, a field never holds more than its declared length, and the
\* parser never consumes a byte that was not sent.
THEOREM TypeCorrect == Spec => []TypeOK
<1>1. IInv => TypeOK
  BY DEF IInv
<1> QED
  BY <1>1, Invariance, PTL

\* No byte is dropped between two blocks, for any sequence of block lengths.
THEOREM NoByteLost == Spec => []NothingLost
<1>1. IInv => NothingLost
  BY DEF IInv
<1> QED
  BY <1>1, Invariance, PTL

-----------------------------------------------------------------------------
(* Buffers.                                                                *)

BoundsInv == DOMAIN value = BufferFields /\ BuffersInBounds

\* The capacities are numbers.
LEMMA CapacityNat == \A f \in BufferFields : Capacity(f) \in Nat
BY CapacityAssumption DEF Capacity, BufferFields

\* memmove of n bytes to index at touches at .. at + n - 1 and nothing else.
LEMMA OverwriteDomain ==
    ASSUME NEW buffer, NEW at, NEW n
    PROVE  DOMAIN Overwrite(buffer, at, n) = DOMAIN buffer \cup (at .. at + n - 1)
BY DEF Overwrite

\* A copied part ends within the buffer.
LEMMA CopyFieldBounds ==
    ASSUME TypeOK, BoundsInv, NEW f \in BufferFields, NEW at \in 0..currentFieldPos,
           CopyField(f, at)
    PROVE  BoundsInv'
<1>1. Capacity(f) \in Nat /\ currentFieldLength <= Capacity(f)
  <2>1. Field = f /\ ~Malformed
    BY DEF CopyField, AtField
  <2>2. f \notin ListFields
    BY DEF BufferFields, ListFields
  <2>3. ~(currentFieldLength > Capacity(f))
    BY <2>1, <2>2 DEF Malformed, MalformedField
  <2> QED
    BY <2>3, CapacityNat DEF TypeOK
<1>2. at + CopySize <= Capacity(f) /\ CopySize \in Nat /\ at \in Nat
  BY <1>1, CopySizeBounds DEF TypeOK
<1>3. DOMAIN value[f] \subseteq 0 .. Capacity(f) - 1
  BY DEF BoundsInv, BuffersInBounds
<1>4. DOMAIN Overwrite(value[f], at, CopySize) \subseteq 0 .. Capacity(f) - 1
  <2>1. at .. at + CopySize - 1 \subseteq 0 .. Capacity(f) - 1
    BY <1>1, <1>2
  <2>2. DOMAIN Overwrite(value[f], at, CopySize)
            = DOMAIN value[f] \cup (at .. at + CopySize - 1)
    BY OverwriteDomain
  <2> QED
    BY <1>3, <2>1, <2>2, Zenon
<1>5. value' = [value EXCEPT ![f] = Overwrite(value[f], at, CopySize)]
  BY DEF CopyField
<1>6. DOMAIN value' = BufferFields
  BY <1>5 DEF BoundsInv
<1>7. ASSUME NEW g \in BufferFields
      PROVE  DOMAIN value'[g] \subseteq 0 .. Capacity(g) - 1
  <2>1. value'[g] = IF g = f THEN Overwrite(value[f], at, CopySize) ELSE value[g]
    BY <1>5 DEF BoundsInv
  <2> QED
    BY <1>4, <2>1 DEF BoundsInv, BuffersInBounds
<1>8. ASSUME NEW g \in BufferFields
      PROVE  length'[g] <= Capacity(g)
  <2>1. length'[g] = length[g] \/ (g = f /\ length'[g] = currentFieldLength)
    BY DEF CopyField, TypeOK
  <2> QED
    BY <1>1, <2>1 DEF BoundsInv, BuffersInBounds
<1> QED
  BY <1>6, <1>7, <1>8 DEF BoundsInv, BuffersInBounds

\* A step that leaves txContent alone writes outside no buffer.
LEMMA SameContentBounds ==
    ASSUME BoundsInv, UNCHANGED <<value, length>>
    PROVE  BoundsInv'
BY DEF BoundsInv, BuffersInBounds

\* No step writes outside a buffer.
LEMMA BoundsStep ==
    ASSUME TypeOK, BoundsInv, Next
    PROVE  BoundsInv'
<1>0. /\ currentFieldPos \in 0..currentFieldPos
      /\ 0 \in 0..currentFieldPos
  BY DEF TypeOK
<1>1. ASSUME NEW t \in Transactions, NEW n \in 1..MaxBlock, FirstBlock(t, n)
      PROVE  BoundsInv'
  <2>1. /\ value' = [f \in BufferFields |-> <<>>]
        /\ length' = [f \in BufferFields |-> 0]
    BY <1>1 DEF FirstBlock, InitTx
  <2>2. \A f \in BufferFields : DOMAIN value'[f] = {}
    BY <2>1
  <2>3. \A f \in BufferFields : length'[f] <= Capacity(f)
    BY <2>1, CapacityNat
  <2> QED
    BY <2>1, <2>2, <2>3 DEF BoundsInv, BuffersInBounds
<1>2. ASSUME NEW n \in 0..MaxBlock, MoreBlock(n)
      PROVE  BoundsInv'
  BY <1>2, SameContentBounds DEF MoreBlock, content
<1>3. CASE ContinueTx
  BY <1>3, SameContentBounds DEF ContinueTx, content
<1>4. CASE FinishDone \/ OutOfBytes \/ RejectField \/ CustomFault
  BY <1>4, SameContentBounds DEF FinishDone, OutOfBytes, RejectField, CustomFault, Return
<1>5. CASE FinishBeforeV
  <2>1. value' = value /\ length' = [length EXCEPT !["V"] = 0]
    BY <1>5 DEF FinishBeforeV, Return
  <2>2. \A f \in BufferFields : length'[f] = length[f] \/ length'[f] = 0
    BY <2>1 DEF TypeOK
  <2> QED
    BY <2>1, <2>2, CapacityNat DEF BoundsInv, BuffersInBounds
<1>6. CASE ReadHeader \/ DecodeHeader
  BY <1>6, SameContentBounds DEF ReadHeader, DecodeHeader, content
<1>7. CASE ProcessContent \/ CustomHandled
  BY <1>7, SameContentBounds DEF ProcessContent, CustomHandled, content
<1>8. CASE ProcessAccessList \/ ProcessData
  BY <1>8, SameContentBounds DEF ProcessAccessList, ProcessData, SkipField, content
<1>9. CASE ProcessChainID \/ ProcessNonce
  BY <1>0, <1>9, CopyFieldBounds DEF ProcessChainID, ProcessNonce, BufferFields
<1>10. CASE ProcessGasprice \/ ProcessStartGas \/ ProcessTo \/ ProcessValue \/ ProcessV
  BY <1>0, <1>10, CopyFieldBounds
     DEF ProcessGasprice, ProcessStartGas, ProcessTo, ProcessValue, ProcessV, BufferFields
<1> QED
  BY <1>1, <1>2, <1>3, <1>4, <1>5, <1>6, <1>7, <1>8, <1>9, <1>10
     DEF Next, ParserStep, FieldHandler

\* The buffers are those of txContent, and nothing was written outside of them.
THEOREM BoundsInvariance == Spec => []BoundsInv
<1>1. Init => BoundsInv
  <2> SUFFICES ASSUME Init PROVE BoundsInv
    OBVIOUS
  <2>1. /\ value = [f \in BufferFields |-> <<>>]
        /\ length = [f \in BufferFields |-> 0]
    BY DEF Init
  <2>2. \A f \in BufferFields : DOMAIN value[f] = {}
    BY <2>1
  <2>3. \A f \in BufferFields : length[f] <= Capacity(f)
    BY <2>1, CapacityNat
  <2> QED
    BY <2>1, <2>2, <2>3 DEF BoundsInv, BuffersInBounds
<1>2. TypeOK /\ BoundsInv /\ [Next]_vars => BoundsInv'
  BY BoundsStep, SameContentBounds DEF vars, content
<1> QED
  BY <1>1, <1>2, TypeCorrect, PTL DEF Spec

\* For every transaction and every way to cut it, no handler writes outside its
\* buffer in txContent.
THEOREM InBounds == Spec => []BuffersInBounds
<1>1. BoundsInv => BuffersInBounds
  BY DEF BoundsInv
<1> QED
  BY <1>1, BoundsInvariance, PTL

-----------------------------------------------------------------------------
(* The hash.                                                               *)

\* The first n positions of the transaction, past its type.
Prefix(first, n) == [i \in 1..n |-> first + i]

HashInv == HashedOnceInOrder /\ FirstByte <= workBuffer

\* The positions of a range of bytes are a sequence of numbers.
LEMMA PrefixSeq ==
    ASSUME NEW first \in Nat, NEW n \in Nat
    PROVE  /\ Prefix(first, n) \in Seq(Nat)
           /\ Len(Prefix(first, n)) = n
           /\ \A i \in 1..n : Prefix(first, n)[i] = first + i
BY DEF Prefix

\* Appending the positions that follow a prefix gives a longer prefix.
LEMMA PrefixExtended ==
    ASSUME NEW first \in Nat, NEW m \in Nat, NEW n \in Nat, workBuffer = first + m
    PROVE  Prefix(first, m) \o Upcoming(n) = Prefix(first, m + n)
<1>1. workBuffer \in Nat /\ m + n \in Nat
  OBVIOUS
<1> DEFINE s == Prefix(first, m)
           u == Upcoming(n)
           p == Prefix(first, m + n)
<1>2. /\ s \in Seq(Nat) /\ Len(s) = m
      /\ \A i \in 1..m : s[i] = first + i
  BY PrefixSeq
<1>3. /\ u \in Seq(Nat) /\ Len(u) = n
      /\ \A i \in 1..n : u[i] = workBuffer + i
  BY <1>1, UpcomingSeq
<1>4. /\ p \in Seq(Nat) /\ Len(p) = m + n
      /\ \A i \in 1 .. m + n : p[i] = first + i
  BY <1>1, PrefixSeq
<1> HIDE DEF s, u, p
<1>5. /\ s \o u \in Seq(Nat)
      /\ Len(s \o u) = m + n
      /\ \A i \in 1 .. m + n : (s \o u)[i] = IF i <= m THEN s[i] ELSE u[i - m]
  BY <1>2, <1>3, ConcatProperties
<1>6. ASSUME NEW i \in 1 .. m + n
      PROVE  (s \o u)[i] = p[i]
  <2>1. p[i] = first + i
    BY <1>4, <1>6
  <2>2. (s \o u)[i] = IF i <= m THEN s[i] ELSE u[i - m]
    BY <1>5, <1>6
  <2>3. i <= m => s[i] = first + i
    BY <1>2, <1>6
  <2>4. i > m => u[i - m] = first + i
    <3>1. i > m => i - m \in 1..n
      BY <1>6
    <3>2. i > m => u[i - m] = workBuffer + (i - m)
      BY <1>3, <3>1
    <3> QED
      BY <1>6, <3>2
  <2> QED
    BY <1>6, <2>1, <2>2, <2>3, <2>4
<1>7. s \o u = p
  BY <1>4, <1>5, <1>6, SeqEqual
<1> QED
  BY <1>7 DEF s, u, p

\* What HashInv says where no self-encoded byte is pending, and where one is.
LEMMA HashedPrefix ==
    ASSUME IInv, HashInv
    PROVE  /\ FirstByte \in Nat
           /\ workBuffer - FirstByte \in Nat
           /\ PutBackByte = 0 => hashed = Prefix(FirstByte, workBuffer - FirstByte)
           /\ PutBackByte = 1 => hashed = Prefix(FirstByte, workBuffer + 1 - FirstByte)
<1>1. FirstByte \in Nat /\ workBuffer \in Nat
  BY DEF FirstByte, IInv, TypeOK
<1>2. hashed = Prefix(FirstByte, workBuffer + PutBackByte - FirstByte)
  BY DEF HashInv, HashedOnceInOrder, Prefix
<1>3. workBuffer + 0 = workBuffer
  BY <1>1
<1> QED
  BY <1>1, <1>2, <1>3 DEF HashInv

\* HashedOnceInOrder from the positions that should have been hashed.
LEMMA HashedBack ==
    ASSUME FirstByte' <= workBuffer', NEW d, d = workBuffer' + PutBackByte' - FirstByte',
           hashed' = Prefix(FirstByte', d)
    PROVE  HashInv'
BY DEF HashInv, HashedOnceInOrder, Prefix

\* At most one byte is put back.
LEMMA PutBackBinary == PutBackByte \in {0, 1} /\ PutBackByte' \in {0, 1}
BY DEF PutBackByte

\* A step that moves nothing.
LEMMA SameHash ==
    ASSUME HashInv, UNCHANGED <<hashed, workBuffer, txType>>, PutBackByte' = PutBackByte
    PROVE  HashInv'
BY DEF HashInv, HashedOnceInOrder, FirstByte

\* A header byte is hashed when it is read, put back or not.
LEMMA HeaderHash ==
    ASSUME IInv, HashInv, ~processingField, NEW c \in 0..1, txType' = txType,
           hashed' = hashed \o Upcoming(1),
           workBuffer' = workBuffer + c, PutBackByte' = 1 - c
    PROVE  HashInv'
<1>1. PutBackByte = 0
  BY DEF PutBackByte
<1> DEFINE m == workBuffer - FirstByte
<1>2. /\ FirstByte \in Nat /\ m \in Nat /\ workBuffer \in Nat
      /\ hashed = Prefix(FirstByte, m)
  BY <1>1, HashedPrefix DEF IInv, TypeOK
<1>3. workBuffer = FirstByte + m
  BY <1>2
<1> HIDE DEF m
<1>4. hashed' = Prefix(FirstByte, m + 1)
  <2>1. 1 \in Nat
    OBVIOUS
  <2>2. Prefix(FirstByte, m) \o Upcoming(1) = Prefix(FirstByte, m + 1)
    BY <1>2, <1>3, <2>1, PrefixExtended
  <2> QED
    BY <1>2, <2>2
<1>5. FirstByte' = FirstByte
  BY DEF FirstByte
<1>6. m + 1 = workBuffer' + PutBackByte' - FirstByte'
  BY <1>2, <1>3, <1>5
<1>7. FirstByte' <= workBuffer'
  BY <1>2, <1>3, <1>5
<1> QED
  BY <1>4, <1>5, <1>6, <1>7, HashedBack

\* A handler hashes what it consumes, unless it is the byte already hashed.
LEMMA ConsumeHash ==
    ASSUME IInv, HashInv, processingField, NEW n \in Nat, n <= CopySize, ConsumeField(n)
    PROVE  HashInv'
<1> DEFINE m == workBuffer - FirstByte
<1>1. /\ FirstByte \in Nat /\ m \in Nat /\ workBuffer \in Nat
      /\ PutBackByte = 0 => hashed = Prefix(FirstByte, m)
      /\ PutBackByte = 1 => hashed = Prefix(FirstByte, workBuffer + 1 - FirstByte)
  BY HashedPrefix DEF IInv, TypeOK
<1>2. workBuffer = FirstByte + m
  BY <1>1
<1>3. FirstByte' = FirstByte
  BY DEF ConsumeField, transaction, FirstByte
<1>4. /\ workBuffer' = workBuffer + n
      /\ currentFieldPos' = currentFieldPos + n
      /\ hashed' = IF fieldSingleByte THEN hashed ELSE hashed \o Upcoming(n)
      /\ fieldSingleByte' = fieldSingleByte
  BY DEF ConsumeField, CopyTxData, header
<1>5. FirstByte' <= workBuffer'
  BY <1>1, <1>2, <1>3, <1>4
<1> HIDE DEF m
<1>6. CASE ~fieldSingleByte
  <2>1. PutBackByte = 0 /\ PutBackByte' = 0
    BY <1>4, <1>6 DEF PutBackByte
  <2>2. hashed = Prefix(FirstByte, m)
    BY <1>1, <2>1
  <2>3. hashed' = Prefix(FirstByte, m + n)
    BY <1>1, <1>2, <1>4, <1>6, <2>2, PrefixExtended
  <2>4. m + n = workBuffer' + PutBackByte' - FirstByte'
    BY <1>1, <1>2, <1>3, <1>4, <2>1
  <2> QED
    BY <1>3, <1>5, <2>3, <2>4, HashedBack
<1>7. CASE fieldSingleByte
  <2>1. currentFieldLength = 1 /\ currentFieldPos \in 0..1 /\ n \in 0..1
    BY <1>7, CopySizeBounds DEF IInv, HeaderInv, TypeOK
  <2>2. currentFieldPos + n <= 1
    BY <2>1, CopySizeBounds DEF IInv, TypeOK
  <2>3. hashed' = hashed
    BY <1>4, <1>7
  <2>4. CASE n = 0
    <3>1. PutBackByte' = PutBackByte /\ workBuffer' = workBuffer
      <4>1. currentFieldPos' = currentFieldPos /\ workBuffer' = workBuffer
        BY <1>1, <1>4, <2>1, <2>4
      <4>2. CASE currentFieldPos = 0
        <5>1. processingField' = processingField
          BY <2>1, <2>4, <4>2 DEF ConsumeField, NextFieldAfter
        <5> QED
          BY <1>4, <4>1, <5>1 DEF PutBackByte
      <4>3. CASE currentFieldPos # 0
        BY <4>1, <4>3 DEF PutBackByte
      <4> QED
        BY <4>1, <4>2, <4>3
    <3> QED
      BY <2>3, <3>1, SameHash DEF ConsumeField, transaction
  <2>5. CASE n = 1
    <3>1. currentFieldPos = 0 /\ currentFieldPos' = 1
      BY <1>4, <2>1, <2>2, <2>5
    <3>2. PutBackByte = 1 /\ PutBackByte' = 0
      BY <1>7, <3>1 DEF PutBackByte
    <3>3. hashed' = Prefix(FirstByte, workBuffer + 1 - FirstByte)
      BY <1>1, <2>3, <3>2
    <3>4. workBuffer + 1 - FirstByte = workBuffer' + PutBackByte' - FirstByte'
      BY <1>1, <1>3, <1>4, <2>5, <3>2
    <3> QED
      BY <1>3, <1>5, <3>3, <3>4, HashedBack
  <2> QED
    BY <2>1, <2>4, <2>5
<1> QED
  BY <1>6, <1>7

\* Every step hashes the bytes it consumes, once.
LEMMA HashStep ==
    ASSUME IInv, HashInv, Next
    PROVE  HashInv'
<1>1. ASSUME NEW t \in Transactions, NEW n \in 1..MaxBlock, FirstBlock(t, n)
      PROVE  HashInv'
  <2>1. /\ hashed' = <<>> /\ workBuffer' = TypeBytes(t) /\ txType' = TypeOf(t)
        /\ processingField' = FALSE
    BY <1>1 DEF FirstBlock, InitTx
  <2>2. FirstByte' = TypeBytes(t) /\ TypeBytes(t) \in Nat /\ PutBackByte' = 0
    BY <2>1 DEF FirstByte, TypeOf, TypeBytes, PutBackByte
  <2>3. Prefix(FirstByte', 0) = <<>>
    BY DEF Prefix
  <2> QED
    BY <2>1, <2>2, <2>3, HashedBack
<1>2. ASSUME NEW n \in 0..MaxBlock, MoreBlock(n)
      PROVE  HashInv'
  <2>1. workBuffer' = workBuffer
    BY <1>2 DEF MoreBlock, IInv, TypeOK, NothingLost
  <2> QED
    BY <1>2, <2>1, SameHash DEF MoreBlock, header, PutBackByte
<1>3. CASE ContinueTx
  BY <1>3, SameHash DEF ContinueTx, transaction, header, PutBackByte
<1>4. CASE FinishDone \/ FinishBeforeV \/ OutOfBytes \/ RejectField \/ CustomFault
  BY <1>4, SameHash
     DEF FinishDone, FinishBeforeV, OutOfBytes, RejectField, CustomFault, Return,
         transaction, header, PutBackByte
<1>5. CASE ReadHeader
  <2>1. /\ ~processingField /\ txType' = txType /\ workBuffer' = workBuffer + 1
        /\ hashed' = hashed \o Upcoming(1) /\ PutBackByte' = 0
    BY <1>5 DEF ReadHeader, ReadTxByte, transaction, PutBackByte
  <2>2. 1 \in 0..1 /\ PutBackByte' = 1 - 1
    BY <2>1
  <2> QED
    BY <2>1, <2>2, HeaderHash
<1>6. CASE DecodeHeader
  <2> DEFINE self == RlpSelfEncoded(Append(rlpBuffer, tx[workBuffer + 1])[1])
             c == IF self THEN 0 ELSE 1
  <2>1. /\ ~processingField /\ txType' = txType /\ workBuffer' = workBuffer + c
        /\ hashed' = hashed \o Upcoming(1)
        /\ processingField' = TRUE /\ fieldSingleByte' = self /\ currentFieldPos' = 0
    BY <1>6 DEF DecodeHeader, PutBack, transaction
  <2>2. PutBackByte' = 1 - c
    BY <2>1 DEF PutBackByte
  <2>3. c \in 0..1
    OBVIOUS
  <2> HIDE DEF c
  <2> QED
    BY <2>1, <2>2, <2>3, HeaderHash
<1>7. CASE ProcessContent
  <2>1. processingField /\ ~Malformed /\ Field = "CONTENT"
    BY <1>7, AtFieldInv DEF ProcessContent
  <2>2. currentFieldIsList
    BY <2>1 DEF Malformed, MalformedField, ListFields
  <2>3. PutBackByte = 0 /\ PutBackByte' = 0
    BY <1>7, <2>1, <2>2 DEF ProcessContent, IInv, HeaderInv, PutBackByte
  <2> QED
    BY <1>7, <2>3, SameHash DEF ProcessContent, transaction
<1>8. ASSUME NEW f, NEW at, CopyField(f, at)
      PROVE  HashInv'
  <2>1. processingField /\ ConsumeField(CopySize)
    BY <1>8, AtFieldInv DEF CopyField
  <2>2. CopySize \in Nat /\ CopySize <= CopySize
    BY CopySizeBounds DEF IInv
  <2> QED
    BY <2>1, <2>2, ConsumeHash
<1>9. ASSUME NEW f, SkipField(f)
      PROVE  HashInv'
  <2>1. processingField /\ ConsumeField(CopySize)
    BY <1>9, AtFieldInv DEF SkipField
  <2>2. CopySize \in Nat /\ CopySize <= CopySize
    BY CopySizeBounds DEF IInv
  <2> QED
    BY <2>1, <2>2, ConsumeHash
<1>10. CASE CustomHandled
  <2>1. processingField
    BY <1>10, AtFieldInv DEF CustomHandled, CustomProcessing
  <2>2. PICK n \in 1..CopySize : ConsumeField(n)
    BY <1>10 DEF CustomHandled
  <2>3. n \in Nat /\ n <= CopySize
    BY CopySizeBounds DEF IInv
  <2> QED
    BY <2>1, <2>2, <2>3, ConsumeHash
<1>11. CASE ProcessAccessList \/ ProcessData
  BY <1>9, <1>11 DEF ProcessAccessList, ProcessData
<1>12. CASE \/ ProcessChainID \/ ProcessNonce \/ ProcessGasprice \/ ProcessStartGas
            \/ ProcessTo \/ ProcessValue \/ ProcessV
  BY <1>8, <1>12 DEF ProcessChainID, ProcessNonce, ProcessGasprice, ProcessStartGas,
     ProcessTo, ProcessValue, ProcessV
<1> QED
  BY <1>1, <1>2, <1>3, <1>4, <1>5, <1>6, <1>7, <1>10, <1>11, <1>12
     DEF Next, ParserStep, FieldHandler

\* The hash that is signed covers each byte the parser consumed, once and in
\* order, for every transaction and every way to cut it into blocks.
THEOREM HashCoversConsumed == Spec => []HashedOnceInOrder
<1>1. Init => HashInv
  <2> SUFFICES ASSUME Init PROVE HashInv
    OBVIOUS
  <2>1. FirstByte = 0 /\ PutBackByte = 0 /\ workBuffer = 0 /\ hashed = <<>>
    BY DEF Init, FirstByte, PutBackByte
  <2>2. [i \in 1 .. 0 |-> 0 + i] = <<>>
    OBVIOUS
  <2> QED
    BY <2>1, <2>2 DEF HashInv, HashedOnceInOrder
<1>2. IInv /\ HashInv /\ [Next]_vars => HashInv'
  <2> SUFFICES ASSUME IInv, HashInv, [Next]_vars PROVE HashInv'
    OBVIOUS
  <2>1. CASE UNCHANGED vars
    BY <2>1, SameHash DEF vars, transaction, header, PutBackByte
  <2> QED
    BY <2>1, HashStep
<1>3. HashInv => HashedOnceInOrder
  BY DEF HashInv
<1> QED
  BY <1>1, <1>2, <1>3, Invariance, PTL DEF Spec

-----------------------------------------------------------------------------
(* What a parser stopped anywhere knows of the field it is at, in terms of *)
(* the uncut transaction.                                                  *)

\* How much of field f was copied.
Part(f) == IF processingField /\ Field = f THEN currentFieldPos ELSE 0

\* rlpBuffer holds the bytes of the transaction from fieldAt on, not enough of
\* them for a header.
HeaderRead ==
    ~processingField =>
        /\ workBuffer = fieldAt + Len(rlpBuffer)
        /\ \A i \in 1..Len(rlpBuffer) : rlpBuffer[i] = tx[fieldAt + i]
        /\ rlpBuffer # <<>> => Len(rlpBuffer) < Fields!HeaderBytes

\* The decoded header is the one at fieldAt, and the parser is inside of its
\* payload.
PayloadRead ==
    processingField =>
        /\ rlpBuffer = <<>>
        /\ Fields!HeaderValid
        /\ currentFieldLength = Fields!PayloadLength
        /\ currentFieldIsList = RlpIsList(Fields!First)
        /\ workBuffer = Fields!PayloadAt + currentFieldPos
        /\ Field # "DONE"
        /\ status = "DISPATCH" => currentFieldPos = 0
        /\ status \in {"CONTINUE", "PROCESSING", "SUSPENDED"} =>
               Field # "CONTENT" /\ currentFieldPos < currentFieldLength

\* The buffers of the fields to come are empty, that of the current one holds
\* the beginning of its payload.
ValuesRead ==
    \A f \in KeptFields \ Completed :
        /\ DOMAIN value[f] = 0 .. Part(f) - 1
        /\ \A i \in 0 .. Part(f) - 1 : value[f][i] = tx[Fields!PayloadAt + 1 + i]

\* A length is set at the end of its field only.
LengthsRead == \A f \in BufferFields \ Completed : length[f] = 0

FieldsInv == HeaderRead /\ PayloadRead /\ ValuesRead /\ LengthsRead

-----------------------------------------------------------------------------
(* The enumeration of the fields, and the header at fieldAt.               *)

\* TxFields reads headers with the operators of the parser.
LEMMA SameRlp ==
    /\ Fields!RlpBufferSize = RlpBufferSize
    /\ Fields!KeptFields = KeptFields /\ Fields!BufferFields = BufferFields
    /\ \A b : /\ Fields!LengthBytes(b) = LengthBytes(b)
              /\ Fields!RlpSelfEncoded(b) = RlpSelfEncoded(b)
              /\ Fields!RlpIsList(b) = RlpIsList(b)
    /\ \A buf : Fields!RlpDecodeLength(buf) = RlpDecodeLength(buf)
    /\ \A f, isList, len :
            Fields!MalformedField(f, isList, len) = MalformedField(f, isList, len)
    /\ \A type : Fields!FieldsOf(type) = FieldsOf(type)
    /\ Fields!Field = Field
<1>1. /\ Fields!RlpBufferSize = RlpBufferSize
      /\ Fields!KeptFields = KeptFields /\ Fields!BufferFields = BufferFields
  BY DEF Fields!RlpBufferSize, RlpBufferSize, Fields!KeptFields, KeptFields,
         Fields!BufferFields, BufferFields
<1>2. \A b : /\ Fields!LengthBytes(b) = LengthBytes(b)
            /\ Fields!RlpSelfEncoded(b) = RlpSelfEncoded(b)
            /\ Fields!RlpIsList(b) = RlpIsList(b)
  BY DEF Fields!LengthBytes, LengthBytes, Fields!RlpSelfEncoded, RlpSelfEncoded,
         Fields!RlpIsList, RlpIsList
<1>3. \A b : Fields!RlpShortLength(b) = RlpShortLength(b)
  BY <1>2 DEF Fields!RlpShortLength, RlpShortLength
<1>4. \A buf, n : Fields!RlpLongLength(buf, n) = RlpLongLength(buf, n)
  BY DEF Fields!RlpLongLength, RlpLongLength, Fields!Shifted, Shifted
<1>5. \A buf : Fields!RlpDecodeLength(buf) = RlpDecodeLength(buf)
  BY <1>2, <1>3, <1>4 DEF Fields!RlpDecodeLength, RlpDecodeLength
<1>6. \A f : Fields!Capacity(f) = Capacity(f)
  BY DEF Fields!Capacity, Capacity
<1>7. \A f, isList, len :
          Fields!MalformedField(f, isList, len) = MalformedField(f, isList, len)
  BY <1>1, <1>6 DEF Fields!MalformedField, MalformedField, Fields!ListFields, ListFields
<1>8. \A type : Fields!FieldsOf(type) = FieldsOf(type)
  BY DEF Fields!FieldsOf, FieldsOf, Fields!LegacyFields, LegacyFields,
         Fields!Eip2930Fields, Eip2930Fields
<1>9. Fields!Field = Field
  BY <1>8 DEF Fields!Field, Field
<1> QED BY <1>1, <1>2, <1>5, <1>7, <1>8, <1>9

\* No field comes twice.
LEMMA FieldPlaces ==
    ASSUME NEW type \in {"LEGACY", "EIP2930"},
           NEW i \in 1..Len(FieldsOf(type)), NEW j \in 1..Len(FieldsOf(type)),
           FieldsOf(type)[i] = FieldsOf(type)[j]
    PROVE  i = j
<1>1. CASE type = "LEGACY"
  BY <1>1 DEF FieldsOf, LegacyFields
<1>2. CASE type = "EIP2930"
  BY <1>2 DEF FieldsOf, Eip2930Fields
<1> QED BY <1>1, <1>2

\* The field that the parser is at is to come.
LEMMA FieldAhead ==
    ASSUME TypeOK
    PROVE  Field \notin Completed
<1>1. currentField \in 1..Len(FieldsOf(txType)) /\ Len(FieldsOf(txType)) \in Nat
  BY DEF TypeOK, FieldsOf, LegacyFields, Eip2930Fields
<1>2. ASSUME NEW i \in 1 .. currentField - 1
      PROVE  FieldsOf(txType)[i] # FieldsOf(txType)[currentField]
  <2>1. i \in 1..Len(FieldsOf(txType)) /\ i # currentField
    BY <1>1
  <2> QED BY <1>1, <2>1, FieldPlaces DEF TypeOK
<1> QED BY <1>2 DEF Field, Completed

\* Past it, it is completed.
LEMMA CompletedNext ==
    ASSUME TypeOK, txType' = txType, currentField' = currentField + 1
    PROVE  Completed' = Completed \cup {Field}
<1>1. currentField \in Nat /\ currentField >= 1
  BY DEF TypeOK
<1>2. 1 .. currentField' - 1 = (1 .. currentField - 1) \cup {currentField}
  BY <1>1
<1> QED BY <1>2 DEF Completed, Field

\* Before the fields of the outer list, nothing of txContent is completed.
LEMMA CompletedNothing ==
    ASSUME TypeOK, currentField \in {1, 3}
    PROVE  Completed \cap BufferFields = {}
<1>1. 1 .. currentField - 1 \subseteq 1..2
  OBVIOUS
<1>2. \A i \in 1..2 : FieldsOf(txType)[i] \in {"CONTENT", "TYPE"}
  BY DEF FieldsOf, LegacyFields, Eip2930Fields
<1> QED BY <1>1, <1>2 DEF Completed, BufferFields

\* The header at fieldAt is the same as long as neither it nor the transaction
\* changes.
LEMMA SameHeader ==
    ASSUME UNCHANGED <<tx, fieldAt>>
    PROVE  /\ Fields!First' = Fields!First
           /\ Fields!HeaderBytes' = Fields!HeaderBytes
           /\ Fields!HeaderValid' = Fields!HeaderValid
           /\ Fields!PayloadAt' = Fields!PayloadAt
           /\ Fields!PayloadLength' = Fields!PayloadLength
BY DEF Fields!First, Fields!HeaderBytes, Fields!HeaderValid, Fields!HeaderPresent,
       Fields!PayloadAt, Fields!PayloadLength, Fields!Header

\* Where its payload begins.
LEMMA HeaderTyped ==
    ASSUME TypeOK, fieldAt < Len(tx)
    PROVE  /\ Fields!First \in 0..255
           /\ Fields!HeaderBytes \in 1..9
           /\ Fields!PayloadAt \in Nat
           /\ RlpSelfEncoded(Fields!First) =>
                  Fields!HeaderBytes = 1 /\ Fields!PayloadAt = fieldAt
           /\ ~RlpSelfEncoded(Fields!First) =>
                  Fields!PayloadAt = fieldAt + Fields!HeaderBytes
<1>1. Fields!First \in 0..255
  <2>1. fieldAt + 1 \in 1..Len(tx)
    BY LenProperties DEF TypeOK
  <2> QED BY <2>1, ElementOfSeq DEF TypeOK, Fields!First, Byte
<1>2. /\ Fields!HeaderBytes \in 1..9
      /\ RlpSelfEncoded(Fields!First) => Fields!HeaderBytes = 1
  <2>1. Fields!HeaderBytes = 1 + LengthBytes(Fields!First)
    BY SameRlp DEF Fields!HeaderBytes
  <2>2. /\ LengthBytes(Fields!First) \in 0..8
        /\ RlpSelfEncoded(Fields!First) => LengthBytes(Fields!First) = 0
    BY <1>1, FirstHeaderByte
  <2> QED BY <2>1, <2>2
<1> QED BY <1>1, <1>2, SameRlp DEF TypeOK, Fields!PayloadAt

\* The header with one more byte of the block.
LEMMA NextHeaderByte ==
    ASSUME IInv, HeaderRead, Looping, ~processingField,
           NEW buf, buf = Append(rlpBuffer, tx[workBuffer + 1])
    PROVE  /\ buf \in Seq(Byte) /\ Len(buf) \in 1..RlpBufferSize
           /\ Len(buf) = Len(rlpBuffer) + 1
           /\ workBuffer + 1 = fieldAt + Len(buf)
           /\ fieldAt + Len(buf) <= Len(tx)
           /\ \A i \in 1..Len(buf) : buf[i] = tx[fieldAt + i]
           /\ buf[1] = Fields!First
           /\ Len(buf) <= Fields!HeaderBytes
           /\ RlpCanDecode(buf) <=> Len(buf) = Fields!HeaderBytes
<1> DEFINE b == tx[workBuffer + 1]
<1>1. /\ Len(tx) \in Nat /\ Len(rlpBuffer) \in Nat /\ fieldAt \in Nat
      /\ workBuffer + 1 \in 1..Len(tx)
  BY LenProperties DEF Looping, IInv, TypeOK, NothingLost
<1>2. b \in Byte /\ rlpBuffer \in Seq(Byte)
  BY <1>1, ElementOfSeq DEF IInv, TypeOK
<1>3. /\ buf \in Seq(Byte)
      /\ Len(buf) = Len(rlpBuffer) + 1
      /\ \A i \in 1..Len(rlpBuffer) : buf[i] = rlpBuffer[i]
      /\ buf[Len(rlpBuffer) + 1] = b
  BY <1>2, AppendProperties
<1>4. Len(rlpBuffer) < RlpBufferSize
  BY DEF Looping, IInv, HeaderInv
<1>5. workBuffer = fieldAt + Len(rlpBuffer)
  BY DEF HeaderRead
<1>6. \A i \in 1..Len(buf) : buf[i] = tx[fieldAt + i]
  <2> SUFFICES ASSUME NEW i \in 1..Len(buf) PROVE buf[i] = tx[fieldAt + i]
    OBVIOUS
  <2>1. CASE i \in 1..Len(rlpBuffer)
    BY <1>3, <2>1 DEF HeaderRead
  <2>2. CASE i = Len(rlpBuffer) + 1
    <3>1. workBuffer + 1 = fieldAt + i
      BY <1>1, <1>5, <2>2
    <3> QED BY <1>3, <2>2, <3>1
  <2> QED BY <1>1, <1>3, <2>1, <2>2
<1>7. Len(buf) \in 1..RlpBufferSize /\ workBuffer + 1 = fieldAt + Len(buf)
  BY <1>1, <1>3, <1>4, <1>5 DEF RlpBufferSize
<1>8. fieldAt < Len(tx) /\ fieldAt + Len(buf) <= Len(tx)
  BY <1>1, <1>3, <1>5
<1>9. buf[1] = Fields!First
  BY <1>6, <1>7 DEF Fields!First, RlpBufferSize
<1>10. Fields!HeaderBytes \in 1..9
  BY <1>8, HeaderTyped DEF IInv
<1>11. Len(buf) <= Fields!HeaderBytes
  <2>1. CASE rlpBuffer = <<>>
    BY <1>3, <1>10, <2>1
  <2>2. CASE rlpBuffer # <<>>
    <3>1. Len(rlpBuffer) < Fields!HeaderBytes
      BY <2>2 DEF HeaderRead
    <3> QED BY <1>1, <1>3, <1>10, <3>1
  <2> QED BY <2>1, <2>2
<1>12. RlpCanDecode(buf) <=> Len(buf) = Fields!HeaderBytes
  <2>1. RlpCanDecode(buf) <=> Len(buf) > LengthBytes(Fields!First)
    BY <1>9 DEF RlpCanDecode
  <2>2. LengthBytes(Fields!First) \in 0..8
    BY <1>8, HeaderTyped, FirstHeaderByte DEF IInv
  <2> QED BY <1>7, <1>11, <2>1, <2>2, SameRlp DEF Fields!HeaderBytes, RlpBufferSize
<1> QED BY <1>3, <1>6, <1>7, <1>8, <1>9, <1>11, <1>12

\* A complete header is the one that TxFields reads.
LEMMA WholeHeader ==
    ASSUME TypeOK, NEW buf \in Seq(Byte), Len(buf) \in 1..RlpBufferSize,
           fieldAt + Len(buf) <= Len(tx), Len(buf) = Fields!HeaderBytes,
           \A i \in 1..Len(buf) : buf[i] = tx[fieldAt + i]
    PROVE  Fields!HeaderValid /\ Fields!PayloadLength = RlpDecodeLength(buf)
<1>1. tx \in Seq(Byte) /\ Len(tx) \in Nat /\ fieldAt \in Nat /\ Len(buf) \in 1..5
  BY LenProperties DEF TypeOK, RlpBufferSize
<1> DEFINE h == SubSeq(tx, fieldAt + 1, fieldAt + Len(buf))
<1>2. /\ h \in Seq(Byte) /\ Len(h) = Len(buf)
      /\ \A i \in 1..Len(buf) : h[i] = tx[fieldAt + i]
  BY <1>1, SubSeqProperties
<1>3. h = Fields!Header
  BY DEF Fields!Header
<1> HIDE DEF h
<1>4. h = buf
  BY <1>1, <1>2, SeqEqual
<1>5. Fields!HeaderValid
  BY <1>1, SameRlp DEF Fields!HeaderValid, Fields!HeaderPresent, RlpBufferSize
<1> QED BY <1>3, <1>4, <1>5, SameRlp DEF Fields!PayloadLength

-----------------------------------------------------------------------------
(* The invariant, action by action.                                        *)

\* The initial state.
LEMMA FieldsInitInv == Init => FieldsInv
<1> SUFFICES ASSUME Init PROVE FieldsInv
  OBVIOUS
<1>1. /\ processingField = FALSE /\ rlpBuffer = <<>> /\ Len(rlpBuffer) = 0
      /\ workBuffer = 0 /\ fieldAt = 0
  BY EmptySeq DEF Init
<1>2. HeaderRead /\ PayloadRead
  BY <1>1 DEF HeaderRead, PayloadRead
<1>3. ValuesRead
  <2>1. value = [f \in BufferFields |-> <<>>]
    BY DEF Init
  <2>2. \A f \in KeptFields : DOMAIN value[f] = {} /\ Part(f) = 0
    BY <1>1, <2>1 DEF KeptFields, BufferFields, Part
  <2>3. 0 .. 0 - 1 = {}
    OBVIOUS
  <2> QED BY <2>2, <2>3 DEF ValuesRead
<1>4. LengthsRead
  BY DEF Init, LengthsRead
<1> QED BY <1>2, <1>3, <1>4 DEF FieldsInv

\* The parser is at the first byte of a header.
LEMMA HeaderStarts ==
    ASSUME rlpBuffer' = <<>>, workBuffer' = fieldAt', fieldAt' \in Nat
    PROVE  HeaderRead'
<1>1. \A k \in Nat : k = k + 0
  OBVIOUS
<1>2. Len(rlpBuffer') = 0
  BY EmptySeq
<1>3. workBuffer' = fieldAt' + Len(rlpBuffer')
  BY <1>1, <1>2, Zenon
<1>4. 1 .. Len(rlpBuffer') = {}
  BY <1>2
<1> QED BY <1>3, <1>4 DEF HeaderRead

\* A new transaction.
LEMMA FieldsFirstBlock ==
    ASSUME NEW t \in Transactions, NEW n \in 1..MaxBlock, FirstBlock(t, n)
    PROVE  FieldsInv'
<1>1. /\ processingField' = FALSE /\ rlpBuffer' = <<>> /\ workBuffer' = fieldAt'
      /\ fieldAt' \in Nat
  BY DEF FirstBlock, InitTx, TypeBytes
<1>2. HeaderRead' /\ PayloadRead'
  BY <1>1, HeaderStarts DEF PayloadRead
<1>3. ValuesRead'
  <2>1. value' = [f \in BufferFields |-> <<>>]
    BY DEF FirstBlock, InitTx
  <2>2. \A f \in KeptFields : DOMAIN value'[f] = {} /\ Part(f)' = 0
    BY <1>1, <2>1 DEF KeptFields, BufferFields, Part
  <2>3. 0 .. 0 - 1 = {}
    OBVIOUS
  <2> QED BY <2>2, <2>3 DEF ValuesRead
<1>4. LengthsRead'
  BY DEF FirstBlock, InitTx, LengthsRead
<1> QED BY <1>2, <1>3, <1>4 DEF FieldsInv

\* A step that moves nothing and does not call a handler.
LEMMA FieldsRest ==
    ASSUME FieldsInv, UNCHANGED <<tx, txType, workBuffer, fieldAt, value, length>>,
           UNCHANGED <<currentField, currentFieldPos, processingField>>,
           UNCHANGED <<currentFieldLength, currentFieldIsList, rlpBuffer>>,
           status' # "DISPATCH" \/ status' = status,
           \/ status' \in {"FINISHED", "FAULT"}
           \/ status' = status
           \/ status \in {"CONTINUE", "PROCESSING", "SUSPENDED"}
    PROVE  FieldsInv'
<1>1. Field' = Field /\ Completed' = Completed /\ \A f : Part(f)' = Part(f)
  BY DEF Field, Completed, Part
<1>2. HeaderRead'
  BY SameHeader DEF FieldsInv, HeaderRead
<1>3. PayloadRead'
  BY <1>1, SameHeader DEF FieldsInv, PayloadRead
<1>4. ValuesRead'
  BY <1>1, SameHeader DEF FieldsInv, ValuesRead
<1>5. LengthsRead'
  BY <1>1 DEF FieldsInv, LengthsRead
<1> QED BY <1>2, <1>3, <1>4, <1>5 DEF FieldsInv

\* A header byte that does not end the header.
LEMMA FieldsReadHeader ==
    ASSUME IInv, FieldsInv, ReadHeader
    PROVE  FieldsInv'
<1> DEFINE buf == Append(rlpBuffer, tx[workBuffer + 1])
<1>1. /\ Looping /\ ~processingField /\ ~RlpCanDecode(buf)
      /\ rlpBuffer' = buf /\ workBuffer' = workBuffer + 1
      /\ UNCHANGED <<tx, txType, fieldAt, value, length, currentField, processingField>>
  BY DEF ReadHeader, ReadTxByte, transaction, content
<1> HIDE DEF buf
<1>2. /\ Len(buf) \in 1..RlpBufferSize /\ workBuffer + 1 = fieldAt + Len(buf)
      /\ \A i \in 1..Len(buf) : buf[i] = tx[fieldAt + i]
      /\ Len(buf) <= Fields!HeaderBytes /\ Len(buf) # Fields!HeaderBytes
      /\ fieldAt + Len(buf) <= Len(tx)
  BY <1>1, NextHeaderByte DEF FieldsInv, buf
<1>3. Fields!HeaderBytes \in 1..9
  BY <1>2, HeaderTyped, LenProperties DEF IInv, TypeOK
<1>4. HeaderRead'
  BY <1>1, <1>2, <1>3, SameHeader DEF HeaderRead, RlpBufferSize
<1>5. PayloadRead'
  BY <1>1 DEF PayloadRead
<1>6. Completed' = Completed /\ \A f : Part(f) = 0 /\ Part(f)' = 0
  BY <1>1 DEF Completed, Part
<1>7. ValuesRead'
  BY <1>1, <1>6 DEF FieldsInv, ValuesRead
<1>8. LengthsRead'
  BY <1>1, <1>6 DEF FieldsInv, LengthsRead
<1> QED BY <1>4, <1>5, <1>7, <1>8 DEF FieldsInv

\* The last byte of a header: it is the header of TxFields.
LEMMA FieldsDecodeHeader ==
    ASSUME IInv, FieldsInv, DecodeHeader
    PROVE  FieldsInv'
<1> DEFINE buf == Append(rlpBuffer, tx[workBuffer + 1])
<1>1. /\ Looping /\ ~processingField /\ RlpCanDecode(buf)
      /\ workBuffer' = workBuffer + (1 - PutBack(buf))
      /\ currentFieldLength' = RlpDecodeLength(buf)
      /\ currentFieldIsList' = RlpIsList(buf[1])
      /\ currentFieldPos' = 0 /\ rlpBuffer' = <<>> /\ processingField' = TRUE
      /\ status' = "DISPATCH"
      /\ UNCHANGED <<tx, txType, fieldAt, value, length, currentField>>
  BY DEF DecodeHeader, AfterHeader, transaction, content
<1> HIDE DEF buf
<1>2. /\ buf \in Seq(Byte) /\ Len(buf) \in 1..RlpBufferSize
      /\ workBuffer + 1 = fieldAt + Len(buf) /\ fieldAt + Len(buf) <= Len(tx)
      /\ \A i \in 1..Len(buf) : buf[i] = tx[fieldAt + i]
      /\ buf[1] = Fields!First /\ Len(buf) = Fields!HeaderBytes
  BY <1>1, NextHeaderByte DEF FieldsInv, buf
<1>3. Fields!HeaderValid /\ Fields!PayloadLength = RlpDecodeLength(buf)
  BY <1>2, WholeHeader DEF IInv
<1>4. workBuffer' = Fields!PayloadAt
  <2>1. /\ fieldAt \in Nat /\ workBuffer \in Nat /\ fieldAt < Len(tx)
    BY <1>2, LenProperties DEF IInv, TypeOK, RlpBufferSize
  <2>2. CASE RlpSelfEncoded(Fields!First)
    BY <1>1, <1>2, <2>1, <2>2, HeaderTyped DEF IInv, PutBack
  <2>3. CASE ~RlpSelfEncoded(Fields!First)
    BY <1>1, <1>2, <2>1, <2>3, HeaderTyped DEF IInv, PutBack
  <2> QED BY <2>2, <2>3
<1>5. HeaderRead'
  BY <1>1 DEF HeaderRead
<1>6. PayloadRead'
  <2>1. Field' = Field /\ Field # "DONE"
    BY <1>1 DEF Field, Looping, Done
  <2>2. Fields!PayloadAt' = Fields!PayloadAt' + currentFieldPos'
    <3>1. Fields!PayloadAt \in Nat
      BY <1>2, HeaderTyped, LenProperties DEF IInv, TypeOK, RlpBufferSize
    <3> QED BY <1>1, <3>1, SameHeader
  <2> QED BY <1>1, <1>2, <1>3, <1>4, <2>1, <2>2, SameHeader DEF PayloadRead
<1>7. Completed' = Completed /\ \A f : Part(f) = 0 /\ Part(f)' = 0
  BY <1>1 DEF Completed, Part
<1>8. ValuesRead'
  BY <1>1, <1>7 DEF FieldsInv, ValuesRead
<1>9. LengthsRead'
  BY <1>1, <1>7 DEF FieldsInv, LengthsRead
<1> QED BY <1>5, <1>6, <1>8, <1>9 DEF FieldsInv

\* The outer list is entered.
LEMMA FieldsContent ==
    ASSUME IInv, FieldsInv, ProcessContent
    PROVE  FieldsInv'
<1>1. processingField /\ Field = "CONTENT"
  BY AtFieldInv DEF ProcessContent
<1>2. /\ processingField' = FALSE /\ fieldAt' = workBuffer /\ workBuffer' = workBuffer
      /\ currentField' = currentField + 2 /\ rlpBuffer' = rlpBuffer
      /\ UNCHANGED <<txType, value, length>>
  BY DEF ProcessContent, transaction, header, content
<1>3. rlpBuffer = <<>>
  BY <1>1 DEF FieldsInv, PayloadRead
<1>5. HeaderRead'
  <2>1. rlpBuffer' = <<>> /\ workBuffer' = fieldAt'
    BY <1>2, <1>3
  <2>2. fieldAt' \in Nat
    BY <1>2 DEF IInv, TypeOK
  <2> QED BY <2>1, <2>2, HeaderStarts
<1>6. PayloadRead'
  BY <1>2 DEF PayloadRead
<1>7. /\ Completed \cap BufferFields = {}
      /\ KeptFields \subseteq BufferFields /\ "CONTENT" \notin KeptFields
  <2>1. currentField = 1
    BY <1>1, FieldOrder DEF Field, IInv, TypeOK
  <2> QED BY <2>1, CompletedNothing DEF IInv, KeptFields, BufferFields
<1>8. \A f \in KeptFields : Part(f) = 0 /\ Part(f)' = 0
  BY <1>1, <1>2, <1>7 DEF Part
<1>9. ValuesRead'
  <2>1. 0 .. 0 - 1 = {}
    OBVIOUS
  <2> QED BY <1>2, <1>7, <1>8, <2>1 DEF FieldsInv, ValuesRead
<1>10. LengthsRead'
  BY <1>2, <1>7 DEF FieldsInv, LengthsRead
<1> QED BY <1>5, <1>6, <1>9, <1>10 DEF FieldsInv

\* The first n bytes of the payload.
Beginning(n) == [i \in 0 .. n - 1 |-> tx[Fields!PayloadAt + 1 + i]]

\* A handler that takes n bytes of its field, and may keep them.
Takes(n) ==
    /\ processingField
    /\ status \in {"DISPATCH", "CONTINUE"} /\ status' \in {"CONTINUE", "SUSPENDED"}
    /\ Field # "CONTENT"
    /\ n \in Nat /\ n <= CopySize
    /\ ConsumeField(n)
    /\ \A f \in KeptFields \ {Field} : value'[f] = value[f]
    /\ Field \in KeptFields => value'[Field] = Beginning(currentFieldPos + n)
    /\ length' = IF Field \in BufferFields /\ currentFieldPos + n = currentFieldLength
                 THEN [length EXCEPT ![Field] = currentFieldLength]
                 ELSE length

\* A handler at its field: in the middle of it, or at its end.
LEMMA TakesMoves ==
    ASSUME IInv, FieldsInv, NEW n, Takes(n)
    PROVE  /\ currentFieldPos + n <= currentFieldLength
           /\ workBuffer' = workBuffer + n /\ currentFieldPos' = currentFieldPos + n
           /\ rlpBuffer = <<>> /\ Field # "DONE"
           /\ UNCHANGED <<tx, txType, currentFieldLength, currentFieldIsList, rlpBuffer>>
           /\ currentFieldPos + n = currentFieldLength =>
                  /\ currentField' = currentField + 1
                  /\ processingField' = FALSE
                  /\ fieldAt' = workBuffer + n
                  /\ fieldAt' = Fields!PayloadAt + Fields!PayloadLength
           /\ currentFieldPos + n # currentFieldLength =>
                  UNCHANGED <<currentField, processingField, fieldAt>>
<1>1. /\ currentFieldPos + n <= currentFieldLength
      /\ workBuffer' = workBuffer + n /\ currentFieldPos' = currentFieldPos + n
      /\ UNCHANGED <<tx, txType, currentFieldLength, currentFieldIsList, rlpBuffer>>
  BY CopySizeBounds DEF Takes, ConsumeField, CopyTxData, transaction, header, IInv, TypeOK
<1>2. /\ rlpBuffer = <<>> /\ Field # "DONE" /\ currentFieldLength = Fields!PayloadLength
      /\ workBuffer = Fields!PayloadAt + currentFieldPos /\ Fields!HeaderValid
  BY DEF Takes, FieldsInv, PayloadRead
<1>3. Fields!PayloadAt \in Nat
  BY <1>2, HeaderTyped DEF IInv, Fields!HeaderValid, Fields!HeaderPresent
<1>4. CASE currentFieldPos + n = currentFieldLength
  <2>1. /\ currentField' = currentField + 1 /\ processingField' = FALSE
        /\ fieldAt' = workBuffer + n
    BY <1>4 DEF Takes, ConsumeField, NextFieldAfter
  <2>2. workBuffer + n = Fields!PayloadAt + Fields!PayloadLength
    BY <1>2, <1>3, <1>4 DEF Takes, IInv, TypeOK
  <2> QED BY <1>1, <1>2, <1>4, <2>1, <2>2
<1>5. CASE currentFieldPos + n # currentFieldLength
  <2>1. UNCHANGED <<currentField, processingField, fieldAt>>
    BY <1>5 DEF Takes, ConsumeField, NextFieldAfter
  <2> QED BY <1>1, <1>2, <1>5, <2>1
<1> QED BY <1>4, <1>5

\* Between two handlers, and between two parts of a field.
LEMMA FieldsTakes ==
    ASSUME IInv, FieldsInv, NEW n, Takes(n)
    PROVE  FieldsInv'
<1>0. n \in Nat /\ KeptFields \subseteq BufferFields /\ 0 .. 0 - 1 = {}
  BY DEF Takes, KeptFields, BufferFields
<1>1. CASE currentFieldPos + n = currentFieldLength
  <2>1. /\ currentField' = currentField + 1 /\ processingField' = FALSE
        /\ fieldAt' = workBuffer' /\ rlpBuffer' = <<>> /\ UNCHANGED <<tx, txType>>
    BY <1>1, TakesMoves
  <2>2. HeaderRead'
    <3>1. fieldAt' \in Nat
      <4>1. workBuffer \in Nat
        BY DEF IInv, TypeOK
      <4>2. fieldAt' = workBuffer + n
        BY <1>1, TakesMoves
      <4> QED BY <1>0, <4>1, <4>2
    <3> QED BY <2>1, <3>1, HeaderStarts
  <2>3. PayloadRead'
    BY <2>1 DEF PayloadRead
  <2>4. Completed' = Completed \cup {Field}
    BY <2>1, CompletedNext DEF IInv
  <2>5. \A f : f # Field => Part(f) = 0 /\ Part(f)' = 0
    BY <2>1 DEF Part
  <2>6. ValuesRead'
    <3>1. ASSUME NEW f \in KeptFields, f \notin Completed'
          PROVE  f # Field /\ f \notin Completed /\ value'[f] = value[f]
      BY <2>4, <3>1 DEF Takes
    <3> QED BY <1>0, <2>5, <3>1 DEF FieldsInv, ValuesRead
  <2>7. LengthsRead'
    <3> SUFFICES ASSUME NEW f \in BufferFields, f \notin Completed'
                 PROVE  length'[f] = 0
      BY DEF LengthsRead
    <3>1. f # Field /\ f \notin Completed
      BY <2>4
    <3>2. length'[f] = length[f]
      BY <3>1 DEF Takes, IInv, TypeOK
    <3> QED BY <3>1, <3>2 DEF FieldsInv, LengthsRead
  <2> QED BY <2>2, <2>3, <2>6, <2>7 DEF FieldsInv
<1>2. CASE currentFieldPos + n # currentFieldLength
  <2>1. /\ UNCHANGED <<tx, txType, fieldAt, currentField, processingField>>
        /\ UNCHANGED <<rlpBuffer, currentFieldLength, currentFieldIsList>>
        /\ processingField /\ workBuffer' = workBuffer + n
        /\ currentFieldPos' = currentFieldPos + n
        /\ currentFieldPos + n <= currentFieldLength
    BY <1>2, TakesMoves DEF Takes
  <2>2. HeaderRead'
    BY <2>1 DEF HeaderRead
  <2>3. Field' = Field /\ Completed' = Completed
    BY <2>1 DEF Field, Completed
  <2>4. PayloadRead'
    <3>1. /\ Fields!HeaderValid' /\ Fields!PayloadAt' = Fields!PayloadAt
          /\ Fields!First' = Fields!First /\ Fields!PayloadLength' = Fields!PayloadLength
      BY <2>1, SameHeader DEF FieldsInv, PayloadRead
    <3>2. workBuffer' = Fields!PayloadAt + currentFieldPos'
      <4>1. Fields!PayloadAt \in Nat /\ workBuffer = Fields!PayloadAt + currentFieldPos
        BY <2>1, HeaderTyped
           DEF IInv, FieldsInv, PayloadRead, Fields!HeaderValid, Fields!HeaderPresent
      <4> QED BY <1>0, <2>1, <4>1 DEF IInv, TypeOK
    <3>3. currentFieldPos' < currentFieldLength
      BY <1>0, <1>2, <2>1 DEF IInv, TypeOK
    <3>4. status' \in {"CONTINUE", "SUSPENDED"} /\ Field # "CONTENT"
      BY DEF Takes
    <3> QED BY <2>1, <2>3, <3>1, <3>2, <3>3, <3>4 DEF FieldsInv, PayloadRead
  <2>5. \A f : Part(f)' = IF Field = f THEN currentFieldPos + n ELSE 0
    BY <2>1, <2>3 DEF Part
  <2>6. ValuesRead'
    <3> SUFFICES ASSUME NEW f \in KeptFields, f \notin Completed
                 PROVE  /\ DOMAIN value'[f] = 0 .. Part(f)' - 1
                        /\ \A i \in 0 .. Part(f)' - 1 :
                                value'[f][i] = tx[Fields!PayloadAt + 1 + i]
      BY <2>1, <2>3, SameHeader DEF ValuesRead
    <3>1. CASE f = Field
      BY <2>5, <3>1 DEF Takes, Beginning
    <3>2. CASE f # Field
      <4>1. value'[f] = value[f] /\ Part(f) = 0 /\ Part(f)' = 0
        BY <2>5, <3>2 DEF Takes, Part
      <4> QED BY <1>0, <4>1 DEF FieldsInv, ValuesRead
    <3> QED BY <3>1, <3>2
  <2>7. LengthsRead'
    BY <1>2, <2>3 DEF FieldsInv, LengthsRead, Takes
  <2> QED BY <2>2, <2>4, <2>6, <2>7 DEF FieldsInv
<1> QED BY <1>1, <1>2

\* Each handler takes bytes of its field, if it does not refuse them.  KeptFields
\* are copied to where the part before ended.
LEMMA CopyTakes ==
    ASSUME IInv, FieldsInv, DOMAIN value = BufferFields,
           NEW f \in BufferFields, NEW at, CopyField(f, at),
           f \in KeptFields => at = currentFieldPos
    PROVE  Takes(CopySize) /\ ~Malformed /\ Field = f
<1>1. processingField /\ Field = f /\ status \in {"DISPATCH", "CONTINUE"} /\ ~Malformed
  BY AtFieldInv DEF CopyField
<1>2. CopySize \in Nat /\ CopySize <= CopySize
  BY CopySizeBounds DEF IInv
<1>3. /\ ConsumeField(CopySize) /\ status' = "CONTINUE"
      /\ value' = [value EXCEPT ![f] = Overwrite(value[f], at, CopySize)]
      /\ length' = IF currentFieldPos + CopySize = currentFieldLength
                   THEN [length EXCEPT ![f] = currentFieldLength]
                   ELSE length
  BY DEF CopyField
<1>4. Field # "CONTENT"
  BY <1>1 DEF BufferFields
<1>5. \A g \in KeptFields \ {Field} : value'[g] = value[g]
  BY <1>1, <1>3 DEF KeptFields, BufferFields
<1>6. ASSUME f \in KeptFields
      PROVE  value'[Field] = Beginning(currentFieldPos + CopySize)
  <2>1. f \notin Completed
    BY <1>1, FieldAhead DEF IInv
  <2>2. /\ DOMAIN value[f] = 0 .. currentFieldPos - 1
        /\ \A i \in 0 .. currentFieldPos - 1 : value[f][i] = tx[Fields!PayloadAt + 1 + i]
    BY <1>1, <1>6, <2>1 DEF FieldsInv, ValuesRead, Part
  <2>3. currentFieldPos \in Nat /\ workBuffer = Fields!PayloadAt + currentFieldPos
    BY <1>1 DEF IInv, TypeOK, FieldsInv, PayloadRead
  <2>4. Fields!PayloadAt \in Nat
    BY <1>1, HeaderTyped
       DEF IInv, FieldsInv, PayloadRead, Fields!HeaderValid, Fields!HeaderPresent
  <2> DEFINE pos == currentFieldPos
             n == CopySize
             new == Overwrite(value[f], pos, n)
  <2>5. value'[Field] = new
    BY <1>1, <1>3, <1>6
  <2>6. (0 .. pos - 1) \cup (pos .. pos + n - 1) = 0 .. (pos + n) - 1
    BY <1>2, <2>3
  <2>7. DOMAIN new = 0 .. (pos + n) - 1
    BY <2>2, <2>6, OverwriteDomain
  <2>8. ASSUME NEW i \in 0 .. (pos + n) - 1
        PROVE  new[i] = tx[Fields!PayloadAt + 1 + i]
    <3>1. new[i] = IF i \in pos .. pos + n - 1 THEN tx[workBuffer + 1 + i - pos]
                                                ELSE value[f][i]
      BY <2>2, <2>6 DEF Overwrite
    <3>2. CASE i \in pos .. pos + n - 1
      <4>1. workBuffer + 1 + i - pos = Fields!PayloadAt + 1 + i
        BY <1>2, <2>3, <2>4
      <4> QED BY <3>1, <3>2, <4>1
    <3>3. CASE i \notin pos .. pos + n - 1
      <4>1. i \in 0 .. pos - 1
        BY <2>6, <3>3
      <4> QED BY <2>2, <3>1, <3>3, <4>1
    <3> QED BY <3>2, <3>3
  <2>9. new = Beginning(pos + n)
    BY <2>6, <2>7, <2>8, <2>2 DEF Beginning, Overwrite
  <2> QED BY <2>5, <2>9
<1> QED BY <1>1, <1>2, <1>3, <1>4, <1>5, <1>6 DEF Takes

\* A handler that drops its field.
LEMMA SkipTakes ==
    ASSUME IInv, NEW f \in SkippedFields \cup {"ACCESS_LIST"}, SkipField(f)
    PROVE  Takes(CopySize) /\ ~Malformed /\ Field = f
<1>1. processingField /\ Field = f /\ status \in {"DISPATCH", "CONTINUE"} /\ ~Malformed
  BY AtFieldInv DEF SkipField
<1>2. CopySize \in Nat /\ CopySize <= CopySize
  BY CopySizeBounds DEF IInv
<1>3. ConsumeField(CopySize) /\ status' = "CONTINUE" /\ UNCHANGED <<value, length>>
  BY DEF SkipField, content
<1>4. f \notin KeptFields /\ f \notin BufferFields /\ f # "CONTENT"
  BY DEF SkippedFields, KeptFields, BufferFields
<1> QED BY <1>1, <1>2, <1>3, <1>4 DEF Takes

\* The contract code.
LEMMA CustomTakes ==
    ASSUME IInv, CustomHandled
    PROVE  Field = "DATA" /\ \E n \in Nat : Takes(n)
<1>1. processingField /\ Field = "DATA" /\ status \in {"DISPATCH", "CONTINUE"}
  BY AtFieldInv DEF CustomHandled, CustomProcessing
<1>2. PICK n \in 1..CopySize : ConsumeField(n)
  BY DEF CustomHandled
<1>3. n \in Nat /\ n <= CopySize
  BY CopySizeBounds DEF IInv
<1>4. status' \in {"CONTINUE", "SUSPENDED"} /\ UNCHANGED <<value, length>>
  BY DEF CustomHandled, content
<1>5. Takes(n)
  BY <1>1, <1>2, <1>3, <1>4 DEF Takes, KeptFields, BufferFields
<1> QED BY <1>1, <1>3, <1>5

\* A step of the loop that only returns.
LEMMA FieldsReturn ==
    ASSUME FieldsInv, NEW s \in {"FINISHED", "FAULT", "PROCESSING"}, Return(s),
           status \in {"DISPATCH", "CONTINUE"}, s = "PROCESSING" => status = "CONTINUE",
           UNCHANGED length
    PROVE  FieldsInv'
BY FieldsRest DEF Return, transaction, header

\* Nothing of V was counted when the transaction ends in front of it.
LEMMA LengthOfV ==
    ASSUME IInv, FieldsInv, FinishBeforeV
    PROVE  UNCHANGED length
<1>1. "V" \notin Completed
  BY FieldAhead DEF FinishBeforeV, IInv
<1>2. length["V"] = 0
  BY <1>1 DEF FieldsInv, LengthsRead, BufferFields
<1> QED BY <1>2 DEF FinishBeforeV, IInv, TypeOK

\* Every step keeps the invariant.
LEMMA FieldsStepInv ==
    ASSUME IInv, FieldsInv, DOMAIN value = BufferFields, Next
    PROVE  FieldsInv'
<1>1. ASSUME NEW t \in Transactions, NEW n \in 1..MaxBlock, FirstBlock(t, n)
      PROVE  FieldsInv'
  BY <1>1, FieldsFirstBlock
<1>2. ASSUME NEW n \in 0..MaxBlock, MoreBlock(n)
      PROVE  FieldsInv'
  <2>1. workBuffer' = workBuffer
    BY <1>2 DEF MoreBlock, IInv, TypeOK, NothingLost
  <2> QED BY <1>2, <2>1, FieldsRest DEF MoreBlock, header, content
<1>3. CASE ContinueTx
  BY <1>3, FieldsRest DEF ContinueTx, transaction, header, content
<1>4. CASE FinishDone \/ OutOfBytes
  BY <1>4, FieldsReturn DEF FinishDone, OutOfBytes
<1>5. CASE FinishBeforeV
  BY <1>5, LengthOfV, FieldsReturn DEF FinishBeforeV
<1>6. CASE ReadHeader
  BY <1>6, FieldsReadHeader
<1>7. CASE DecodeHeader
  BY <1>7, FieldsDecodeHeader
<1>8. CASE RejectField \/ CustomFault
  BY <1>8, AtFieldInv, FieldsReturn DEF RejectField, CustomFault, CustomProcessing
<1>9. CASE ProcessContent
  BY <1>9, FieldsContent
<1>10. CASE ProcessChainID \/ ProcessNonce
  <2>1. PICK f \in BufferFields : f \notin KeptFields /\ CopyField(f, 0)
    BY <1>10 DEF ProcessChainID, ProcessNonce, BufferFields, KeptFields
  <2> QED BY <2>1, CopyTakes, FieldsTakes
<1>11. CASE ProcessGasprice \/ ProcessStartGas \/ ProcessTo \/ ProcessValue \/ ProcessV
  <2>1. PICK f \in BufferFields : CopyField(f, currentFieldPos)
    BY <1>11
       DEF ProcessGasprice, ProcessStartGas, ProcessTo, ProcessValue, ProcessV, BufferFields
  <2> QED BY <2>1, CopyTakes, FieldsTakes
<1>12. CASE ProcessAccessList \/ ProcessData
  <2>1. PICK f \in SkippedFields \cup {"ACCESS_LIST"} : SkipField(f)
    BY <1>12 DEF ProcessAccessList, ProcessData
  <2> QED BY <2>1, SkipTakes, FieldsTakes
<1>13. CASE CustomHandled
  BY <1>13, CustomTakes, FieldsTakes
<1> QED BY <1>1, <1>2, <1>3, <1>4, <1>5, <1>6, <1>7, <1>8, <1>9, <1>10, <1>11, <1>12, <1>13
        DEF Next, ParserStep, FieldHandler

\* In every state the parser has read what the bytes of the transaction hold,
\* from the field it is at.
THEOREM FieldsInvariance == Spec => []FieldsInv
<1>1. Init => FieldsInv /\ DOMAIN value = BufferFields
  BY FieldsInitInv DEF Init
<1>2. IInv /\ FieldsInv /\ BoundsInv /\ [Next]_vars => FieldsInv'
  <2> SUFFICES ASSUME IInv, FieldsInv, BoundsInv, [Next]_vars PROVE FieldsInv'
    OBVIOUS
  <2>1. CASE Next
    BY <2>1, FieldsStepInv DEF BoundsInv
  <2>2. CASE UNCHANGED vars
    BY <2>2, FieldsRest DEF vars, transaction, header, content
  <2> QED BY <2>1, <2>2
<1> QED BY <1>1, <1>2, Invariance, BoundsInvariance, PTL DEF Spec

\* Whatever the cut, the parser asks for a block only when the field that it is
\* at is not complete in what the host has sent.
THEOREM AsksForMissing == Spec => []AsksOnlyForMissing
<1>1. IInv /\ FieldsInv => AsksOnlyForMissing
  <2> SUFFICES ASSUME IInv, FieldsInv, status = "PROCESSING"
               PROVE  \/ fieldAt >= delivered
                      \/ Fields!PayloadAt > delivered
                      \/ /\ Field # "CONTENT"
                         /\ Fields!PayloadAt + Fields!PayloadLength > delivered
    BY DEF AsksOnlyForMissing
  <2>1. /\ workBuffer = delivered /\ delivered \in Nat /\ fieldAt \in Nat
        /\ delivered <= Len(tx) /\ Len(tx) \in Nat
    BY LenProperties DEF IInv, TypeOK, NothingLost
  <2>2. CASE ~processingField
    <3>1. workBuffer = fieldAt + Len(rlpBuffer) /\ Len(rlpBuffer) \in Nat
      BY <2>2, LenProperties DEF IInv, TypeOK, FieldsInv, HeaderRead
    <3>2. CASE rlpBuffer = <<>>
      BY <2>1, <3>1, <3>2, EmptySeq
    <3>3. CASE rlpBuffer # <<>> /\ fieldAt < delivered
      <4>1. Len(rlpBuffer) < Fields!HeaderBytes /\ Len(rlpBuffer) > 0
        BY <2>1, <2>2, <3>1, <3>3 DEF FieldsInv, HeaderRead
      <4>2. Fields!HeaderBytes \in 1..9 /\ Fields!HeaderBytes # 1
        BY <2>1, <3>1, <3>3, <4>1, HeaderTyped DEF IInv
      <4>3. Fields!PayloadAt = fieldAt + Fields!HeaderBytes
        BY <2>1, <3>3, <4>2, HeaderTyped DEF IInv
      <4> QED BY <2>1, <3>1, <4>1, <4>2, <4>3
    <3> QED BY <2>1, <3>2, <3>3
  <2>3. CASE processingField
    <3>1. /\ Field # "CONTENT" /\ currentFieldPos < currentFieldLength
          /\ currentFieldLength = Fields!PayloadLength
          /\ workBuffer = Fields!PayloadAt + currentFieldPos
          /\ fieldAt < Len(tx)
      BY <2>3
         DEF FieldsInv, PayloadRead, Fields!HeaderValid, Fields!HeaderPresent
    <3>2. Fields!PayloadAt \in Nat /\ currentFieldPos \in Nat /\ currentFieldLength \in Nat
      BY <3>1, HeaderTyped DEF IInv, TypeOK
    <3> QED BY <2>1, <3>1, <3>2
  <2> QED BY <2>2, <2>3
<1> QED BY <1>1, Invariance, FieldsInvariance, PTL

-----------------------------------------------------------------------------
(* The parser implements TxFields: a step that ends a field takes it, one  *)
(* that returns a verdict accepts or rejects, and every other step is none *)
(* of TxFields.                                                            *)

ValueTaken == [f \in KeptFields |-> IF f \in Completed THEN value[f] ELSE <<>>]

Verdict ==
    CASE status = "FINISHED" -> "ACCEPTED"
      [] status = "FAULT" -> "REJECTED"
      [] OTHER -> "OPEN"

FieldsStep == [Fields!Next]_Fields!vars

Open == status \notin {"FINISHED", "FAULT"}

\* Nothing that TxFields sees changes.
LEMMA FieldsSame ==
    ASSUME UNCHANGED <<tx, txType, currentField, fieldAt, length>>,
           ValueTaken' = ValueTaken, Open, Open'
    PROVE  FieldsStep
BY DEF FieldsStep, Fields!vars, ValueTaken, Open

\* The fields taken are the same in a step that completes none.
LEMMA SameValue ==
    ASSUME UNCHANGED <<txType, currentField>>,
           \A f \in KeptFields : f \in Completed => value'[f] = value[f]
    PROVE  ValueTaken' = ValueTaken
<1>1. Completed' = Completed
  BY DEF Completed
<1> QED BY <1>1 DEF ValueTaken

\* A step that only returns a verdict, for a reason that TxFields has.
LEMMA VerdictStep ==
    ASSUME UNCHANGED <<tx, txType, currentField, fieldAt, value, length>>, Open,
           \/ status' = "FINISHED" /\ Field \in {"DONE", "V"}
           \/ /\ status' = "FAULT"
              /\ \/ fieldAt < Len(tx) /\ Fields!HeaderBytes > RlpBufferSize
                 \/ Fields!HeaderValid /\ ~Fields!WellFormed
                 \/ Fields!ContractData
    PROVE  FieldsStep
<1>1. ValueTaken' = ValueTaken
  BY SameValue
<1>2. CASE status' = "FINISHED" /\ Field \in {"DONE", "V"}
  BY <1>1, <1>2, SameRlp DEF FieldsStep, Fields!Next, Fields!Accept, ValueTaken, Open
<1>3. CASE /\ status' = "FAULT"
           /\ \/ fieldAt < Len(tx) /\ Fields!HeaderBytes > RlpBufferSize
              \/ Fields!HeaderValid /\ ~Fields!WellFormed
              \/ Fields!ContractData
  BY <1>1, <1>3, SameRlp DEF FieldsStep, Fields!Next, Fields!Reject, ValueTaken, Open
<1> QED BY <1>2, <1>3

\* The checks of a handler are those of TxFields.
LEMMA SameChecks ==
    ASSUME FieldsInv, processingField
    PROVE  Fields!HeaderValid /\ (Fields!WellFormed <=> ~Malformed)
<1>1. /\ Fields!HeaderValid /\ currentFieldLength = Fields!PayloadLength
      /\ currentFieldIsList = RlpIsList(Fields!First)
  BY DEF FieldsInv, PayloadRead
<1>2. Fields!MalformedField(Fields!Field, Fields!RlpIsList(Fields!First), Fields!PayloadLength)
          <=> Malformed
  BY <1>1, SameRlp DEF Malformed
<1> QED BY <1>1, <1>2 DEF Fields!WellFormed

\* So are the conditions for offering data to the contract code.
LEMMA SameContractData ==
    ASSUME IInv, FieldsInv, CustomProcessing
    PROVE  processingField /\ Field = "DATA" /\ Fields!ContractData
<1>1. processingField /\ Field = "DATA"
  BY AtFieldInv DEF CustomProcessing
<1>2. Fields!HeaderValid /\ currentFieldLength = Fields!PayloadLength
  BY <1>1 DEF FieldsInv, PayloadRead
<1> QED BY <1>1, <1>2, SameRlp DEF CustomProcessing, SelectorLength, Fields!ContractData

\* A handler takes a part of a field, or the field.
LEMMA TakesStep ==
    ASSUME IInv, FieldsInv, NEW n, Takes(n), Fields!WellFormed \/ Fields!ContractData
    PROVE  FieldsStep
<1>0. Open /\ Open'
  BY DEF Takes, Open
<1>1. CASE currentFieldPos + n # currentFieldLength
  <2>1. UNCHANGED <<tx, txType, currentField, fieldAt>> /\ length' = length
    BY <1>1, TakesMoves DEF Takes
  <2>2. ValueTaken' = ValueTaken
    BY <2>1, FieldAhead, SameValue DEF Takes, IInv
  <2> QED BY <1>0, <2>1, <2>2, FieldsSame
<1>2. CASE currentFieldPos + n = currentFieldLength
  <2>1. /\ UNCHANGED <<tx, txType>> /\ currentField' = currentField + 1
        /\ fieldAt' = Fields!PayloadAt + Fields!PayloadLength
        /\ Field \notin {"CONTENT", "DONE"}
    BY <1>2, TakesMoves DEF Takes
  <2>2. currentFieldLength = Fields!PayloadLength
    BY DEF Takes, FieldsInv, PayloadRead
  <2>3. length' = IF Field \in BufferFields
                  THEN [length EXCEPT ![Field] = Fields!PayloadLength]
                  ELSE length
    BY <1>2, <2>2 DEF Takes
  <2>4. Fields!PayloadAt + Fields!PayloadLength <= Len(tx)
    <3>1. fieldAt' = workBuffer + n
      BY <1>2, TakesMoves
    <3>2. workBuffer + n <= Len(tx)
      BY CopySizeBounds, LenProperties DEF Takes, IInv, TypeOK, NothingLost
    <3> QED BY <2>1, <3>1, <3>2
  <2>5. Completed' = Completed \cup {Field}
    BY <2>1, CompletedNext DEF IInv
  <2>6. ValueTaken' = IF Field \in KeptFields
                      THEN [ValueTaken EXCEPT ![Field] = Fields!Payload]
                      ELSE ValueTaken
    <3>1. ASSUME NEW f \in KeptFields \ {Field}
          PROVE  ValueTaken'[f] = ValueTaken[f]
      BY <2>5, <3>1 DEF ValueTaken, Takes
    <3>2. ASSUME Field \in KeptFields
          PROVE  ValueTaken'[Field] = Fields!Payload
      <4>1. ValueTaken'[Field] = value'[Field]
        BY <2>5, <3>2 DEF ValueTaken
      <4>2. value'[Field] = Fields!Payload
        BY <1>2, <2>2, <3>2 DEF Takes, Beginning, Fields!Payload
      <4> QED BY <4>1, <4>2
    <3> QED BY <3>1, <3>2 DEF ValueTaken
  <2>7. Fields!TakeField
    BY <1>0, <2>1, <2>3, <2>4, <2>6, SameRlp DEF Fields!TakeField, ValueTaken, Open
  <2> QED BY <2>7 DEF FieldsStep, Fields!Next
<1> QED BY <1>1, <1>2

\* The same for whichever handler takes them.
LEMMA FieldHandlerStep ==
    ASSUME IInv, FieldsInv, NEW n, Takes(n), ~Malformed
    PROVE  FieldsStep
BY SameChecks, TakesStep DEF Takes

\* The host, the user and the returns of the loop.
LEMMA OutsideStep ==
    ASSUME IInv, FieldsInv,
           \/ \E t \in Transactions, n \in 1..MaxBlock : FirstBlock(t, n)
           \/ \E n \in 0..MaxBlock : MoreBlock(n)
           \/ ContinueTx \/ FinishDone \/ FinishBeforeV \/ OutOfBytes
    PROVE  FieldsStep
<1>1. ASSUME NEW t \in Transactions, NEW n \in 1..MaxBlock, FirstBlock(t, n)
      PROVE  FieldsStep
  <2>1. /\ SupportedType(t) /\ tx' = t /\ txType' = TypeOf(t) /\ currentField' = 1
        /\ fieldAt' = TypeBytes(t) /\ status' = "CONTINUE"
        /\ length' = [f \in BufferFields |-> 0]
    BY <1>1 DEF FirstBlock, InitTx
  <2>2. Completed' = {}
    BY <2>1 DEF Completed
  <2>3. ValueTaken' = [f \in KeptFields |-> <<>>]
    BY <2>2 DEF ValueTaken
  <2>4. /\ Fields!SupportedType(t) /\ Fields!TypeOf(t) = TypeOf(t)
        /\ Fields!TypeBytes(t) = TypeBytes(t)
    BY <2>1 DEF Fields!SupportedType, SupportedType, Fields!TypeOf, TypeOf,
                Fields!TypeBytes, TypeBytes, Fields!Eip2930Type, Eip2930Type
  <2>5. Fields!Open(t)
    BY <2>1, <2>3, <2>4, SameRlp DEF Fields!Open, ValueTaken
  <2> QED BY <2>4, <2>5 DEF FieldsStep, Fields!Next
<1>2. ASSUME NEW n \in 0..MaxBlock, MoreBlock(n)
      PROVE  FieldsStep
  BY <1>2, SameValue, FieldsSame DEF MoreBlock, content, Open
<1>3. CASE ContinueTx
  BY <1>3, SameValue, FieldsSame DEF ContinueTx, transaction, content, Open
<1>4. CASE FinishDone
  BY <1>4, VerdictStep DEF FinishDone, Done, Return, transaction, Open
<1>5. CASE FinishBeforeV
  BY <1>5, LengthOfV, VerdictStep DEF FinishBeforeV, Return, transaction, Open
<1>6. CASE OutOfBytes
  BY <1>6, SameValue, FieldsSame DEF OutOfBytes, Return, transaction, Open
<1> QED BY <1>1, <1>2, <1>3, <1>4, <1>5, <1>6

\* A header: TxFields refuses it if it is too long for rlpBuffer.
LEMMA HeaderStep ==
    ASSUME IInv, FieldsInv, ReadHeader \/ DecodeHeader
    PROVE  FieldsStep
<1>1. /\ UNCHANGED <<tx, txType, currentField, fieldAt, value, length>>
      /\ Looping /\ ~processingField /\ Open
  BY DEF ReadHeader, DecodeHeader, transaction, content, Looping, Open
<1>2. ValueTaken' = ValueTaken
  BY <1>1, SameValue
<1>3. CASE Open'
  BY <1>1, <1>2, <1>3, FieldsSame
<1>4. CASE ~Open'
  <2> DEFINE buf == Append(rlpBuffer, tx[workBuffer + 1])
  <2>1. ReadHeader
    BY <1>4 DEF DecodeHeader, AfterHeader, Open
  <2>2. /\ rlpBuffer' = buf /\ ~RlpCanDecode(buf)
        /\ status' = AfterHeaderByte(buf, commandLength')
    BY <2>1 DEF ReadHeader, ReadTxByte
  <2> HIDE DEF buf
  <2>3. status' = "FAULT" /\ Len(buf) = RlpBufferSize
    BY <1>4, <2>2 DEF AfterHeaderByte, Open
  <2>4. /\ Len(buf) \in 1..RlpBufferSize /\ fieldAt + Len(buf) <= Len(tx)
        /\ Len(buf) <= Fields!HeaderBytes /\ Len(buf) # Fields!HeaderBytes
    BY <1>1, <2>2, NextHeaderByte DEF FieldsInv, buf
  <2>5. fieldAt < Len(tx)
    <3>1. fieldAt \in Nat /\ Len(tx) \in Nat
      BY LenProperties DEF IInv, TypeOK
    <3> QED BY <2>3, <2>4, <3>1 DEF RlpBufferSize
  <2>6. Fields!HeaderBytes > RlpBufferSize
    BY <2>3, <2>4, <2>5, HeaderTyped DEF IInv, RlpBufferSize
  <2> QED BY <1>1, <2>3, <2>5, <2>6, VerdictStep
<1> QED BY <1>3, <1>4

\* The handlers.
LEMMA HandlerStep ==
    ASSUME IInv, FieldsInv, DOMAIN value = BufferFields, FieldHandler
    PROVE  FieldsStep
<1>1. CASE RejectField
  <2>1. processingField /\ status \in {"DISPATCH", "CONTINUE"} /\ Malformed
    BY <1>1, AtFieldInv DEF RejectField
  <2>2. Fields!HeaderValid /\ ~Fields!WellFormed
    BY <2>1, SameChecks
  <2> QED BY <1>1, <2>1, <2>2, VerdictStep DEF RejectField, Return, transaction, Open
<1>2. CASE ProcessContent
  <2>1. /\ processingField /\ status \in {"DISPATCH", "CONTINUE"}
        /\ Field = "CONTENT" /\ ~Malformed
    BY <1>2, AtFieldInv DEF ProcessContent
  <2>2. /\ currentField' = currentField + 2 /\ fieldAt' = workBuffer
        /\ status' = "CONTINUE" /\ UNCHANGED <<tx, txType, value, length>>
    BY <1>2 DEF ProcessContent, transaction, content
  <2>3. workBuffer = Fields!PayloadAt
    <3>1. status = "DISPATCH" /\ currentFieldPos = 0
      BY <2>1 DEF FieldsInv, PayloadRead
    <3>2. Fields!PayloadAt \in Nat
      BY <2>1, HeaderTyped
         DEF IInv, FieldsInv, PayloadRead, Fields!HeaderValid, Fields!HeaderPresent
    <3>3. workBuffer = Fields!PayloadAt + currentFieldPos
      BY <2>1 DEF FieldsInv, PayloadRead
    <3> QED BY <3>1, <3>2, <3>3
  <2>4. currentField = 1 /\ currentField' = 3
    BY <2>1, <2>2, FieldOrder DEF Field, IInv, TypeOK
  <2>5. \A i \in 1..2 : FieldsOf(txType)[i] \notin KeptFields
    BY DEF FieldsOf, LegacyFields, Eip2930Fields, KeptFields
  <2>6. \A f \in KeptFields : f \notin Completed /\ f \notin Completed'
    BY <2>2, <2>4, <2>5 DEF Completed
  <2>7. ValueTaken' = ValueTaken
    BY <2>6 DEF ValueTaken
  <2>8. Fields!WellFormed
    BY <2>1, SameChecks
  <2>9. Fields!EnterList
    BY <2>1, <2>2, <2>3, <2>7, <2>8, SameRlp DEF Fields!EnterList, ValueTaken
  <2> QED BY <2>9 DEF FieldsStep, Fields!Next
<1>3. CASE ProcessChainID \/ ProcessNonce
  <2>1. PICK f \in BufferFields : f \notin KeptFields /\ CopyField(f, 0)
    BY <1>3 DEF ProcessChainID, ProcessNonce, BufferFields, KeptFields
  <2> QED BY <2>1, CopyTakes, FieldHandlerStep
<1>4. CASE ProcessGasprice \/ ProcessStartGas \/ ProcessTo \/ ProcessValue \/ ProcessV
  <2>1. PICK f \in BufferFields : CopyField(f, currentFieldPos)
    BY <1>4
       DEF ProcessGasprice, ProcessStartGas, ProcessTo, ProcessValue, ProcessV, BufferFields
  <2> QED BY <2>1, CopyTakes, FieldHandlerStep
<1>5. CASE ProcessAccessList \/ ProcessData
  <2>1. PICK f \in SkippedFields \cup {"ACCESS_LIST"} : SkipField(f)
    BY <1>5 DEF ProcessAccessList, ProcessData
  <2> QED BY <2>1, SkipTakes, FieldHandlerStep
<1>6. CASE CustomHandled
  <2>1. Fields!ContractData
    BY <1>6, SameContractData DEF CustomHandled
  <2>2. PICK n \in Nat : Takes(n)
    BY <1>6, CustomTakes
  <2> QED BY <2>1, <2>2, TakesStep
<1>7. CASE CustomFault
  <2>1. CustomProcessing /\ Return("FAULT") /\ UNCHANGED length
    BY <1>7 DEF CustomFault
  <2>2. Fields!ContractData
    BY <2>1, SameContractData
  <2>3. Open
    BY <2>1, AtFieldInv DEF CustomProcessing, Open
  <2> QED BY <2>1, <2>2, <2>3, VerdictStep DEF Return, transaction
<1> QED BY <1>1, <1>2, <1>3, <1>4, <1>5, <1>6, <1>7 DEF FieldHandler

\* However a transaction is cut into blocks, the parser takes from it what
\* TxFields takes from the uncut bytes, and refuses it for nothing else.
THEOREM ParserImplementsFields == Spec => ImplementsFields
<1>1. Init => Fields!Init
  <2> SUFFICES ASSUME Init PROVE Fields!Init
    OBVIOUS
  <2>1. Completed = {}
    BY DEF Init, Completed
  <2> QED BY <2>1, SameRlp DEF Init, Fields!Init
<1>2. IInv /\ FieldsInv /\ BoundsInv /\ [Next]_vars => FieldsStep
  <2> SUFFICES ASSUME IInv, FieldsInv, BoundsInv, [Next]_vars PROVE FieldsStep
    OBVIOUS
  <2>1. CASE Next
    BY <2>1, OutsideStep, HeaderStep, HandlerStep DEF Next, ParserStep, BoundsInv
  <2>2. CASE UNCHANGED vars
    <3>1. ValueTaken' = ValueTaken
      BY <2>2, SameValue DEF vars, transaction, content
    <3> QED BY <2>2, <3>1 DEF vars, transaction, content, FieldsStep, Fields!vars, ValueTaken
  <2> QED BY <2>1, <2>2
<1>3. IInv /\ FieldsInv /\ BoundsInv /\ [Next]_vars => [Fields!Next]_Fields!vars
  BY <1>2 DEF FieldsStep
<1> QED BY <1>1, <1>3, Invariance, FieldsInvariance, BoundsInvariance, PTL
        DEF Spec, Fields!Spec, ImplementsFields
=============================================================================
