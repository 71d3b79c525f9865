------------------------------ MODULE TxFields ------------------------------
(***************************************************************************)
(* What the parser of a transaction promises: fields are taken one after   *)
(* the other, each one whole, at an offset that depends on the bytes of    *)
(* the transaction alone.  There are no blocks here, so a parser that      *)
(* implements this decodes a transaction the same way however the host     *)
(* cuts it.                                                                *)
(*                                                                         *)
(* NONCE and CHAINID appear by their length only: the code does not keep   *)
(* the promise for their value (see NonceExact in TxStream).               *)
(***************************************************************************)
EXTENDS Rlp

CONSTANT Transactions

VARIABLES
    tx,        \* the transaction
    txType,
    field,     \* index of the field to take next
    offset,    \* of its first byte
    value,     \* the fields taken
    length,
    verdict    \* "OPEN", "ACCEPTED" or "REJECTED"

vars == <<tx, txType, field, offset, value, length, verdict>>

KeptFields == {"GASPRICE", "STARTGAS", "TO", "VALUE", "V"}

Field == FieldsOf(txType)[field]

First == tx[offset + 1]

HeaderBytes == 1 + LengthBytes(First)

\* The header of the field, as far as the transaction goes.
Header == SubSeq(tx, offset + 1, offset + HeaderBytes)

HeaderPresent == offset < Len(tx) /\ offset + HeaderBytes <= Len(tx)

\* Longer headers encode lengths of more than 32 bits.
HeaderValid == HeaderPresent /\ HeaderBytes <= RlpBufferSize

PayloadAt == offset + (IF RlpSelfEncoded(First) THEN 0 ELSE HeaderBytes)

PayloadLength == RlpDecodeLength(Header)

Payload == [i \in 0 .. PayloadLength - 1 |-> tx[PayloadAt + 1 + i]]

WellFormed ==
    HeaderValid /\ ~MalformedField(Field, RlpIsList(First), PayloadLength)

\* Data the contract code is offered: it may take a list, or refuse.
ContractData ==
    /\ Field = "DATA"
    /\ HeaderValid
    /\ length["TO"] # 0
    /\ PayloadLength >= 4

Open(t) ==
    /\ tx' = t
    /\ txType' = TypeOf(t)
    /\ field' = 1
    /\ offset' = TypeBytes(t)
    /\ value' = [f \in KeptFields |-> <<>>]
    /\ length' = [f \in BufferFields |-> 0]
    /\ verdict' = "OPEN"

\* The outer list is entered, RLP_TYPE is passed over.
EnterList ==
    /\ verdict = "OPEN"
    /\ Field = "CONTENT"
    /\ WellFormed
    /\ field' = field + 2
    /\ offset' = PayloadAt
    /\ UNCHANGED <<tx, txType, value, length, verdict>>

TakeField ==
    /\ verdict = "OPEN"
    /\ Field \notin {"CONTENT", "DONE"}
    /\ WellFormed \/ ContractData
    /\ PayloadAt + PayloadLength <= Len(tx)
    /\ field' = field + 1
    /\ offset' = PayloadAt + PayloadLength
    /\ value' = IF Field \in KeptFields THEN [value EXCEPT ![Field] = Payload]
                                        ELSE value
    /\ length' = IF Field \in BufferFields
                 THEN [length EXCEPT ![Field] = PayloadLength]
                 ELSE length
    /\ UNCHANGED <<tx, txType, verdict>>

\* At the end of the fields, or where an old style transaction ends.
Accept ==
    /\ verdict = "OPEN"
    /\ Field \in {"DONE", "V"}
    /\ verdict' = "ACCEPTED"
    /\ UNCHANGED <<tx, txType, field, offset, value, length>>

\* A transaction is refused for what it holds at the offset: a header too
\* long, a field of the wrong shape, or contract data.
Reject ==
    /\ verdict = "OPEN"
    /\ \/ offset < Len(tx) /\ HeaderBytes > RlpBufferSize
       \/ HeaderValid /\ ~WellFormed
       \/ ContractData
    /\ verdict' = "REJECTED"
    /\ UNCHANGED <<tx, txType, field, offset, value, length>>

Init ==
    /\ tx = <<>>
    /\ txType = "LEGACY"
    /\ field = 1
    /\ offset = 0
    /\ value = [f \in KeptFields |-> <<>>]
    /\ length = [f \in BufferFields |-> 0]
    /\ verdict = "OPEN"

Next ==
    \/ \E t \in Transactions : SupportedType(t) /\ Open(t)
    \/ EnterList \/ TakeField \/ Accept \/ Reject

Spec == Init /\ [][Next]_vars
=============================================================================
