-------------------------------- MODULE Rlp ---------------------------------
(***************************************************************************)
(* RLP headers (rlpCanDecode and rlpDecodeLength in src_common/latUtils.c) *)
(* and the fields of a transaction (the enumerations in latUstream.h).     *)
(* Shared by the streaming parser and by its specification.                *)
(***************************************************************************)
EXTENDS Integers, Sequences

CONSTANTS
    MaxInt256,     \* MAX_INT256: room in the five integers of txContent
    MaxAddress,    \* MAX_ADDRESS: room in txContent.destination
    MaxV           \* MAX_V: room in txContent.v

ASSUME CapacityAssumption == {MaxInt256, MaxAddress, MaxV} \subseteq Nat \ {0}

Byte == 0..255

-----------------------------------------------------------------------------
(* A header: its first byte tells whether it is its own payload, a string  *)
(* or a list, and how many bytes of length follow it.                      *)

LengthBytes(b) ==
    IF b \in 184..191 THEN b - 183 ELSE IF b \in 248..255 THEN b - 247 ELSE 0

\* The header in buf is complete.
RlpCanDecode(buf) == Len(buf) > LengthBytes(buf[1])

RlpIsList(b) == b >= 192

\* *offset is 0 for such a byte, which belongs to the payload.
RlpSelfEncoded(b) == b <= 127

\* sizeof(rlpBuffer): one byte and four bytes of length.
RlpBufferSize == 5

\* A number and one more byte, big-endian.
Shifted(high, low) == high * 256 + low

\* The big-endian number in the n bytes that follow the first one.
RlpLongLength(buf, n) ==
    IF n = 1 THEN buf[2]
    ELSE IF n = 2 THEN Shifted(buf[2], buf[3])
    ELSE IF n = 3 THEN Shifted(Shifted(buf[2], buf[3]), buf[4])
    ELSE Shifted(Shifted(Shifted(buf[2], buf[3]), buf[4]), buf[5])

RlpShortLength(b) ==
    IF RlpSelfEncoded(b) THEN 1 ELSE IF RlpIsList(b) THEN b - 192 ELSE b - 128

RlpDecodeLength(buf) ==
    IF LengthBytes(buf[1]) = 0
    THEN RlpShortLength(buf[1])
    ELSE RlpLongLength(buf, LengthBytes(buf[1]))

-----------------------------------------------------------------------------
(* The fields, in the order of rlpLegacyTxField_e and rlpEIP2930TxField_e. *)
(* Fields handled by one function have one name: GASLIMIT is STARTGAS,     *)
(* YPARITY is V.                                                           *)

LegacyFields ==
    <<"CONTENT", "TYPE", "NONCE", "GASPRICE", "STARTGAS", "TO", "VALUE", "DATA",
      "V", "R", "S", "DONE">>

Eip2930Fields ==
    <<"CONTENT", "TYPE", "CHAINID", "NONCE", "GASPRICE", "STARTGAS", "TO",
      "VALUE", "DATA", "ACCESS_LIST", "V", "R", "S", "DONE">>

FieldsOf(type) == IF type = "LEGACY" THEN LegacyFields ELSE Eip2930Fields

\* The fields kept in txContent.
BufferFields == {"CHAINID", "NONCE", "GASPRICE", "STARTGAS", "TO", "VALUE", "V"}

ListFields == {"CONTENT", "ACCESS_LIST"}

Capacity(f) ==
    IF f = "TO" THEN MaxAddress ELSE IF f = "V" THEN MaxV ELSE MaxInt256

\* The checks at the head of the handler of field f.
MalformedField(f, isList, len) ==
    IF f \in ListFields
    THEN ~isList
    ELSE isList \/ (f \in BufferFields /\ len > Capacity(f))

-----------------------------------------------------------------------------
(* handleSign: a byte up to 0x7f in front of the list is the type of the   *)
(* transaction, and 1 is the only one supported.                           *)

Eip2930Type == 1

SupportedType(t) == t[1] = Eip2930Type \/ t[1] > 127

TypeOf(t) == IF t[1] = Eip2930Type THEN "EIP2930" ELSE "LEGACY"

TypeBytes(t) == IF t[1] = Eip2930Type THEN 1 ELSE 0
=============================================================================
