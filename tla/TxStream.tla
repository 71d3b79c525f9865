------------------------------ MODULE TxStream ------------------------------
(***************************************************************************)
(* The streaming RLP parser of a transaction (src_common/latUstream.c, the *)
(* header rules of src_common/latUtils.c and the way handleSign feeds it). *)
(*                                                                         *)
(* The host cuts a transaction into blocks.  Every block is one call of    *)
(* processTx, a loop that reads RLP headers, copies the payload of each    *)
(* field into txContent, and feeds every byte to Keccak.  One iteration of *)
(* that loop is one step here (two when a header was just decoded), so the *)
(* parser's state can be inspected between any two blocks, in the middle   *)
(* of a header or of a field.                                              *)
(*                                                                         *)
(* The workBuffer pointer is an offset into the transaction: the number of *)
(* bytes consumed.  hashed holds the positions of the bytes given to       *)
(* Keccak, in order.  fieldAt is a history variable, the offset of the     *)
(* field being parsed.  A buffer of txContent is the function of the       *)
(* indices written since it was zeroed, so a write past its end shows in   *)
(* its domain.                                                             *)
(***************************************************************************)
EXTENDS Rlp

CONSTANTS
    Transactions,  \* what a host may send: sequences of bytes
    MaxBlock       \* the longest block of transaction bytes in one APDU

ASSUME StreamAssumption ==
    /\ Transactions \subseteq (Seq(Byte) \ {<<>>})
    /\ MaxBlock \in Nat \ {0}

VARIABLES
    tx,                  \* the transaction being streamed
    delivered,           \* how many of its bytes the host has sent
    workBuffer,          \* how many of them the parser has consumed
    commandLength,       \* bytes of the current block not yet consumed
    txType,              \* "LEGACY" or "EIP2930"
    currentField,        \* index in the enumeration of the fields of txType
    currentFieldLength,
    currentFieldPos,
    currentFieldIsList,
    processingField,     \* the header of currentField has been decoded
    fieldSingleByte,     \* ... and it is its own payload
    rlpBuffer,           \* the header bytes read so far
    dataLength,          \* length of the outer list
    value,               \* the buffers of txContent
    length,              \* their length fields
    hashed,              \* positions of the bytes fed to Keccak
    fieldAt,             \* history: where the header of currentField starts
    status               \* what the parser returned last, or where it is

transaction == <<tx, delivered, txType>>
header == <<currentFieldLength, currentFieldIsList, fieldSingleByte, rlpBuffer>>
content == <<value, length>>
vars == <<transaction, workBuffer, commandLength, currentField, currentFieldPos,
          processingField, header, dataLength, content, hashed, fieldAt, status>>

-----------------------------------------------------------------------------
Field == FieldsOf(txType)[currentField]

\* Fields whose bytes are consumed and hashed, and kept nowhere.
SkippedFields == {"DATA", "R", "S"}

Returned == {"PROCESSING", "SUSPENDED", "FINISHED", "FAULT"}

Smaller(a, b) == IF a < b THEN a ELSE b

-----------------------------------------------------------------------------
(* Feeding the parser.                                                     *)

\* initTx, after reset_app_context zeroed txContent.
InitTx ==
    /\ currentField' = 1
    /\ currentFieldLength' = 0
    /\ currentFieldPos' = 0
    /\ currentFieldIsList' = FALSE
    /\ processingField' = FALSE
    /\ fieldSingleByte' = FALSE
    /\ rlpBuffer' = <<>>
    /\ dataLength' = 0
    /\ value' = [f \in BufferFields |-> <<>>]
    /\ length' = [f \in BufferFields |-> 0]
    /\ hashed' = <<>>

\* handleSign with P1_FIRST: the first n bytes of a new transaction.
FirstBlock(t, n) ==
    /\ status \in Returned \cup {"IDLE"}
    /\ n <= Len(t)
    /\ SupportedType(t)
    /\ InitTx
    /\ tx' = t
    /\ txType' = TypeOf(t)
    /\ delivered' = n
    /\ workBuffer' = TypeBytes(t)
    /\ fieldAt' = TypeBytes(t)
    /\ commandLength' = n - TypeBytes(t)
    /\ status' = "CONTINUE"

\* handleSign with P1_MORE, of a host that waits for the answer to its last block:
\* processTx takes the next n bytes, which may be none.
MoreBlock(n) ==
    /\ status = "PROCESSING"
    /\ delivered + n <= Len(tx)
    /\ delivered' = delivered + n
    /\ workBuffer' = delivered
    /\ commandLength' = n
    /\ status' = "CONTINUE"
    /\ UNCHANGED <<tx, txType, currentField, currentFieldPos, processingField,
                   header, dataLength, content, hashed, fieldAt>>

\* continueTx: the user accepted the piece of contract data on display.
ContinueTx ==
    /\ status = "SUSPENDED"
    /\ status' = "CONTINUE"
    /\ UNCHANGED <<transaction, workBuffer, commandLength, currentField,
                   currentFieldPos, processingField, header, dataLength, content,
                   hashed, fieldAt>>

-----------------------------------------------------------------------------
(* The loop of processTxInternal.                                          *)

Done == Field = "DONE"

\* The top of the loop, past its three early returns.
Looping == status = "CONTINUE" /\ ~Done /\ commandLength > 0

Return(s) ==
    /\ status' = s
    /\ UNCHANGED <<transaction, workBuffer, commandLength, currentField,
                   currentFieldPos, processingField, header, dataLength, value,
                   hashed, fieldAt>>

FinishDone ==
    /\ status = "CONTINUE"
    /\ Done
    /\ Return("FINISHED")
    /\ UNCHANGED length

\* Old style transaction: nothing is left to read where v would be.
FinishBeforeV ==
    /\ status = "CONTINUE"
    /\ Field = "V"
    /\ commandLength = 0
    /\ Return("FINISHED")
    /\ length' = [length EXCEPT !["V"] = 0]

OutOfBytes ==
    /\ status = "CONTINUE"
    /\ ~Done
    /\ Field # "V"
    /\ commandLength = 0
    /\ Return("PROCESSING")
    /\ UNCHANGED length

\* The positions of the next n bytes.
Upcoming(n) == [i \in 1..n |-> workBuffer + i]

\* readTxByte, while no field is being processed.
ReadTxByte ==
    /\ hashed' = hashed \o Upcoming(1)
    /\ rlpBuffer' = Append(rlpBuffer, tx[workBuffer + 1])

\* The self-encoded byte is put back, to be read again as payload.
PutBack(buf) == IF RlpSelfEncoded(buf[1]) THEN 1 ELSE 0

\* Wrong on purpose: one header byte per call, whatever the block still holds.
AfterHeaderByteNoLoop(buf, left) ==
    IF Len(buf) = RlpBufferSize THEN "FAULT" ELSE "PROCESSING"

\* What parseRLP does when the bytes read so far are not a whole header.
AfterHeaderByte(buf, left) ==
    CASE Len(buf) = RlpBufferSize -> "FAULT"
      [] Len(buf) # RlpBufferSize /\ left = 0 -> "PROCESSING"
      [] OTHER -> "CONTINUE"

\* Wrong on purpose: back to the top of the loop, where an empty block returns.
AfterHeaderLoop == "CONTINUE"

\* A decoded field is dispatched in the same iteration, whether or not a byte
\* of the block is left.
AfterHeader == "DISPATCH"

\* parseRLP reads a byte and the header is not complete.
ReadHeader ==
    /\ Looping
    /\ ~processingField
    /\ ReadTxByte
    /\ ~RlpCanDecode(rlpBuffer')
    /\ workBuffer' = workBuffer + 1
    /\ commandLength' = commandLength - 1
    /\ status' = AfterHeaderByte(rlpBuffer', commandLength')
    /\ UNCHANGED <<transaction, currentField, currentFieldPos, processingField,
                   currentFieldLength, currentFieldIsList, fieldSingleByte,
                   dataLength, content, fieldAt>>

\* parseRLP reads the last byte of a header.
DecodeHeader ==
    /\ Looping
    /\ ~processingField
    /\ LET buf == Append(rlpBuffer, tx[workBuffer + 1])
           consumed == 1 - PutBack(buf)
       IN  /\ RlpCanDecode(buf)
           /\ hashed' = hashed \o Upcoming(1)
           /\ workBuffer' = workBuffer + consumed
           /\ commandLength' = commandLength - consumed
           /\ currentFieldLength' = RlpDecodeLength(buf)
           /\ currentFieldIsList' = RlpIsList(buf[1])
           /\ fieldSingleByte' = RlpSelfEncoded(buf[1])
    /\ currentFieldPos' = 0
    /\ rlpBuffer' = <<>>
    /\ processingField' = TRUE
    /\ status' = AfterHeader
    /\ UNCHANGED <<transaction, currentField, dataLength, content, fieldAt>>

-----------------------------------------------------------------------------
(* The handlers of the fields.                                             *)

AtField(f) ==
    /\ Field = f
    /\ status = "DISPATCH" \/ (Looping /\ processingField)

\* Wrong on purpose: the length is not checked.
MalformedAnyLength == MalformedField(Field, currentFieldIsList, 0)

Malformed == MalformedField(Field, currentFieldIsList, currentFieldLength)

RejectField ==
    /\ AtField(Field)
    /\ Malformed
    /\ Return("FAULT")
    /\ UNCHANGED length

\* Wrong on purpose: the part already copied is counted again.
CopySizeWholeField == Smaller(commandLength, currentFieldLength)

\* The bytes of the field that the block still holds.
CopySize == Smaller(commandLength, currentFieldLength - currentFieldPos)

\* Wrong on purpose: every byte copied is hashed.
CopyTxDataHashingAll(n) ==
    /\ workBuffer' = workBuffer + n
    /\ commandLength' = commandLength - n
    /\ currentFieldPos' = currentFieldPos + n
    /\ hashed' = hashed \o Upcoming(n)

\* copyTxData: a self-encoded byte was hashed when it was read as a header.
CopyTxData(n) ==
    /\ workBuffer' = workBuffer + n
    /\ commandLength' = commandLength - n
    /\ currentFieldPos' = currentFieldPos + n
    /\ hashed' = IF fieldSingleByte THEN hashed ELSE hashed \o Upcoming(n)

\* Wrong on purpose: the end of the field is missed by one.
NextFieldAfterOffByOne(n) ==
    IF currentFieldPos + n > currentFieldLength
    THEN /\ currentField' = currentField + 1
         /\ processingField' = FALSE
         /\ fieldAt' = workBuffer + n
    ELSE UNCHANGED <<currentField, processingField, fieldAt>>

\* Where a handler ends: at the end of the field it moves to the next one.
NextFieldAfter(n) ==
    IF currentFieldPos + n = currentFieldLength
    THEN /\ currentField' = currentField + 1
         /\ processingField' = FALSE
         /\ fieldAt' = workBuffer + n
    ELSE UNCHANGED <<currentField, processingField, fieldAt>>

ConsumeField(n) ==
    /\ CopyTxData(n)
    /\ NextFieldAfter(n)
    /\ UNCHANGED <<transaction, header, dataLength>>

\* The buffer after a memmove of the next n bytes to index at.
Overwrite(buffer, at, n) ==
    [i \in DOMAIN buffer \cup (at .. at + n - 1) |->
        IF i \in at .. at + n - 1 THEN tx[workBuffer + 1 + i - at] ELSE buffer[i]]

\* A handler that copies its field into txContent, from index at on.
CopyField(f, at) ==
    /\ AtField(f)
    /\ ~Malformed
    /\ ConsumeField(CopySize)
    /\ value' = [value EXCEPT ![f] = Overwrite(value[f], at, CopySize)]
    /\ length' = IF currentFieldPos + CopySize = currentFieldLength
                 THEN [length EXCEPT ![f] = currentFieldLength]
                 ELSE length
    /\ status' = "CONTINUE"

\* A handler that drops its field.
SkipField(f) ==
    /\ AtField(f)
    /\ ~Malformed
    /\ ConsumeField(CopySize)
    /\ status' = "CONTINUE"
    /\ UNCHANGED content

\* The outer list: its payload is parsed as fields.  RLP_TYPE is skipped,
\* processTx being called without TX_FLAG_TYPE.
ProcessContent ==
    /\ AtField("CONTENT")
    /\ ~Malformed
    /\ dataLength' = currentFieldLength
    /\ currentField' = currentField + 2
    /\ processingField' = FALSE
    /\ fieldAt' = workBuffer
    /\ status' = "CONTINUE"
    /\ UNCHANGED <<transaction, workBuffer, commandLength, currentFieldPos, header,
                   content, hashed>>

ProcessChainID == CopyField("CHAINID", 0)
ProcessNonce == CopyField("NONCE", 0)

\* Wrong on purpose: a second part is copied over the first.
ProcessGaspriceFromStart == CopyField("GASPRICE", 0)

ProcessGasprice == CopyField("GASPRICE", currentFieldPos)
ProcessStartGas == CopyField("STARTGAS", currentFieldPos)
ProcessTo == CopyField("TO", currentFieldPos)
ProcessValue == CopyField("VALUE", currentFieldPos)
ProcessV == CopyField("V", currentFieldPos)
ProcessAccessList == SkipField("ACCESS_LIST")
ProcessData == \E f \in SkippedFields : SkipField(f)

-----------------------------------------------------------------------------
(* customProcessor, offered every call on the data field.  Here it does    *)
(* what it likes within the contract the parser relies on: it consumes     *)
(* some of the bytes, and suspends the parser when it shows them.  It      *)
(* leaves alone the data of a contract creation and data too short for a   *)
(* selector.  It does not look at currentFieldIsList.                      *)

SelectorLength == 4

CustomProcessing ==
    /\ AtField("DATA")
    /\ length["TO"] # 0
    /\ currentFieldLength >= SelectorLength

CustomHandled ==
    /\ CustomProcessing
    /\ \E n \in 1..CopySize : ConsumeField(n)
    /\ status' \in {"CONTINUE", "SUSPENDED"}
    /\ UNCHANGED content

CustomFault ==
    /\ CustomProcessing
    /\ Return("FAULT")
    /\ UNCHANGED length

-----------------------------------------------------------------------------

Init ==
    /\ tx = <<>>
    /\ delivered = 0
    /\ workBuffer = 0
    /\ commandLength = 0
    /\ txType = "LEGACY"
    /\ currentField = 1
    /\ currentFieldLength = 0
    /\ currentFieldPos = 0
    /\ currentFieldIsList = FALSE
    /\ processingField = FALSE
    /\ fieldSingleByte = FALSE
    /\ rlpBuffer = <<>>
    /\ dataLength = 0
    /\ value = [f \in BufferFields |-> <<>>]
    /\ length = [f \in BufferFields |-> 0]
    /\ hashed = <<>>
    /\ fieldAt = 0
    /\ status = "IDLE"

FieldHandler ==
    \/ RejectField \/ ProcessContent
    \/ ProcessChainID \/ ProcessNonce \/ ProcessGasprice \/ ProcessStartGas
    \/ ProcessTo \/ ProcessValue \/ ProcessV
    \/ ProcessAccessList \/ ProcessData
    \/ CustomHandled \/ CustomFault

ParserStep ==
    \/ FinishDone \/ FinishBeforeV \/ OutOfBytes
    \/ ReadHeader \/ DecodeHeader
    \/ FieldHandler

Next ==
    \/ \E t \in Transactions, n \in 1..MaxBlock : FirstBlock(t, n)
    \/ \E n \in 0..MaxBlock : MoreBlock(n)
    \/ ContinueTx
    \/ ParserStep

Spec == Init /\ [][Next]_vars

\* The parser is ordinary sequential code: once called, it runs.
FairSpec == Spec /\ WF_vars(ParserStep)

-----------------------------------------------------------------------------
(* Properties.                                                             *)

TypeOK ==
    /\ tx \in Seq(Byte)
    /\ delivered \in 0..Len(tx)
    /\ workBuffer \in 0..Len(tx)
    /\ commandLength \in Nat
    /\ txType \in {"LEGACY", "EIP2930"}
    /\ currentField \in 1..Len(FieldsOf(txType))
    /\ currentFieldLength \in Nat
    /\ currentFieldPos \in 0..currentFieldLength
    /\ currentFieldIsList \in BOOLEAN
    /\ processingField \in BOOLEAN
    /\ fieldSingleByte \in BOOLEAN
    /\ rlpBuffer \in Seq(Byte) /\ Len(rlpBuffer) <= RlpBufferSize
    /\ dataLength \in Nat
    /\ length \in [BufferFields -> Nat]
    /\ hashed \in Seq(Nat)
    /\ fieldAt \in 0..Len(tx)
    /\ status \in Returned \cup {"IDLE", "CONTINUE", "DISPATCH"}

\* No byte of a block is dropped or read twice: what the parser has not
\* consumed is what is left of the block, and it asks for more only when
\* nothing is left (workBuffer and commandLength are overwritten by the next
\* processTx, latUstream.c:506).
NothingLost ==
    /\ workBuffer + commandLength = delivered
    /\ status = "PROCESSING" => commandLength = 0

FirstByte == IF txType = "EIP2930" THEN 1 ELSE 0

\* A self-encoded byte that was hashed as a header and is yet to be copied.
PutBackByte ==
    IF processingField /\ fieldSingleByte /\ currentFieldPos = 0 THEN 1 ELSE 0

\* The hash that is signed covers every byte the parser consumed, once and in
\* order, however headers and fields are split: a self-encoded byte is read
\* twice and hashed once (latUstream.c:58 and 72).
HashedOnceInOrder ==
    hashed = [i \in 1 .. workBuffer + PutBackByte - FirstByte |-> FirstByte + i]

\* No handler writes outside its buffer in txContent, and no length field
\* says more than the buffer can hold.
BuffersInBounds ==
    \A f \in BufferFields :
        /\ DOMAIN value[f] \subseteq 0 .. Capacity(f) - 1
        /\ length[f] <= Capacity(f)

Completed == {FieldsOf(txType)[i] : i \in 1 .. currentField - 1}

KeptFields == {"GASPRICE", "STARTGAS", "TO", "VALUE", "V"}

Fields == INSTANCE TxFields WITH
    field <- currentField,
    offset <- fieldAt,
    value <- [f \in KeptFields |-> IF f \in Completed THEN value[f] ELSE <<>>],
    verdict <- CASE status = "FINISHED" -> "ACCEPTED"
                 [] status = "FAULT" -> "REJECTED"
                 [] OTHER -> "OPEN"

\* However the transaction is cut into blocks, the parser takes the fields
\* that the specification takes from the uncut bytes, with the same content,
\* and it refuses a transaction only for what its bytes hold.
ImplementsFields == Fields!Spec

\* Every call of the parser returns: no field can be processed for ever.
ParserReturns == status \in {"CONTINUE", "DISPATCH"} ~> status \in Returned

\* The handler of f leaves in its buffer the payload that ends here.
TakenExactly(f) ==
    Field = f /\ currentField' = currentField + 1
        => value'[f] = [i \in 0 .. currentFieldLength - 1 |->
                            tx[workBuffer' - currentFieldLength + 1 + i]]

\* The parser asks for another block only when the field it is at is not
\* complete in what it was sent, so a host that has sent a whole transaction is
\* never left waiting with nothing to send.
AsksOnlyForMissing ==
    status = "PROCESSING" =>
        \/ fieldAt >= delivered
        \/ Fields!PayloadAt > delivered
        \/ Field # "CONTENT" /\ Fields!PayloadAt + Fields!PayloadLength > delivered

\* The nonce is kept as it was sent, split or not ("The input data is the RLP
\* encoded transaction, streamed to the device", doc/latapp.md).  The code
\* copies the second part of a split nonce over the first (latUstream.c:162).
NonceExact == [][TakenExactly("NONCE")]_vars
=============================================================================
