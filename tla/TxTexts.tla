------------------------------- MODULE TxTexts ------------------------------
(***************************************************************************)
(* The texts of a transaction: finalizeParsing prepares them one after the *)
(* other in one buffer on its stack, displayBuffer, and copies each to its *)
(* place in strings.common (logic_signTx.c:353-411).                       *)
(***************************************************************************)
EXTENDS Texts

CONSTANTS
    AmountSize,             \* of displayBuffer, fullAmount and maxFee: 50
    Values, TokenDecimals,  \* amounts, and the decimals of tokens
    Nonces, GasPrices, StartGases,
    NonceSize,              \* of strings.common.nonce: 8
    ChainBits,              \* of the chain identifier: 32
    KnownChain,             \* the one in NETWORK_MAPPING
    ChainIds

TxTextsAssumption ==
    /\ Values \cup Nonces \subseteq Numbers
    /\ UNION {TokenDecimals, GasPrices, StartGases} \subseteq Nat
    /\ AmountSize \in Nat /\ NonceSize \in 2..AmountSize
    /\ ChainIds \subseteq Nat
    /\ ChainBits \in Nat \ {0}
    /\ KnownChain \in 0 .. 2^ChainBits - 1

VARIABLES
    tx,             \* value, decimals, nonce, gasPrice, startGas, chain,
                    \* and destination, which is "NONE" for a creation
    displayBuffer,
    strings,        \* fullAddress, fullAmount, nonce, maxFee, network_name
    stage

vars == <<tx, displayBuffer, strings, stage>>

Ticker == NetworkTicker(tx.chain = KnownChain)

\* The text of an address, and what the stack may hold: both fill the buffer.
AddressText == [i \in 1 .. AmountSize - 1 |-> 60]
StackText == [i \in 1 .. AmountSize - 1 |-> 70]
NetworkText == <<90>>

\* u32_from_BE is strict: an identifier of more bytes is thrown, out of
\* finalizeParsing, before anything is prepared.
ChainIdThrown ==
    /\ stage = "ADDRESS"
    /\ tx.chain >= 2^ChainBits
    /\ stage' = "THROWN"
    /\ UNCHANGED <<tx, displayBuffer, strings>>

PrepareAddress ==
    /\ stage = "ADDRESS"
    /\ tx.chain < 2^ChainBits
    /\ IF tx.destination # "NONE"
       THEN /\ displayBuffer' = AddressText
            /\ strings' = [strings EXCEPT !.fullAddress = AddressText]
       ELSE /\ UNCHANGED displayBuffer
            /\ strings' = [strings EXCEPT !.fullAddress = CreationText]
    /\ stage' = "AMOUNT"
    /\ UNCHANGED tx

PrepareAmount ==
    /\ stage = "AMOUNT"
    /\ displayBuffer' = AmountToString(tx.value, tx.decimals, Ticker,
                                       displayBuffer, AmountSize)
    /\ strings' = [strings EXCEPT !.fullAmount = displayBuffer']
    /\ stage' = "NONCE"
    /\ UNCHANGED tx

\* tostring256 with room for the digits and the null byte; when they fill the
\* buffer and more are to come, it gives up and leaves the lowest of them in the
\* order in which they were found, with no null byte.
NonceText(x) ==
    IF Len(Decimal(x)) < AmountSize THEN Decimal(x)
    ELSE SubSeq(Reverse(Decimal(x)), 1, AmountSize)

\* Just as many digits as places: the null byte is written behind displayBuffer.
FillsBuffer(x) == Len(Decimal(x)) = AmountSize

\* Wrong on purpose: strcpy.
NonceCopyWhole(text) == text

\* strncpy: of a long nonce the first digits, with no null byte behind them.
NonceCopy(text) == SubSeq(text, 1, Min({Len(text), NonceSize}))

PrepareNonce ==
    /\ stage = "NONCE"
    /\ ~FillsBuffer(tx.nonce)
    /\ displayBuffer' = NonceText(tx.nonce)
    /\ strings' = [strings EXCEPT !.nonce = NonceCopy(displayBuffer')]
    /\ stage' = "FEE"
    /\ UNCHANGED tx

\* What follows the write behind displayBuffer is not modelled.
NonceOverrun ==
    /\ stage = "NONCE"
    /\ FillsBuffer(tx.nonce)
    /\ stage' = "OVERRUN"
    /\ UNCHANGED <<tx, displayBuffer, strings>>

FeeText == ComputeFees(tx.gasPrice, tx.startGas, Ticker)

PrepareFee ==
    /\ stage = "FEE"
    /\ Len(FeeText) < AmountSize
    /\ displayBuffer' = FeeText
    /\ strings' = [strings EXCEPT !.maxFee = FeeText]
    /\ stage' = "NETWORK"
    /\ UNCHANGED tx

\* The text is longer than displayBuffer: what follows is not modelled.
FeeOverrun ==
    /\ stage = "FEE"
    /\ Len(FeeText) >= AmountSize
    /\ stage' = "OVERRUN"
    /\ UNCHANGED <<tx, displayBuffer, strings>>

\* "%d": the upper half of the identifiers is printed as a negative number.
PrintedAsInt(id) == IF id < 2^(ChainBits - 1) THEN id ELSE id - 2^ChainBits

PrepareNetwork ==
    /\ stage = "NETWORK"
    /\ strings' = [strings EXCEPT !.network_name =
                      IF tx.chain = KnownChain THEN NetworkText
                      ELSE <<PrintedAsInt(tx.chain)>>]
    /\ stage' = "PREPARED"
    /\ UNCHANGED <<tx, displayBuffer>>

Init ==
    /\ tx \in [destination : {"ADDRESS", "NONE"}, value : Values,
               decimals : TokenDecimals \cup {CoinDecimals}, nonce : Nonces,
               gasPrice : GasPrices, startGas : StartGases, chain : ChainIds]
    /\ displayBuffer \in {<<>>, StackText}
    /\ strings = [fullAddress |-> <<>>, fullAmount |-> <<>>, nonce |-> <<>>,
                  maxFee |-> <<>>, network_name |-> <<>>]
    /\ stage = "ADDRESS"

Next ==
    \/ ChainIdThrown \/ PrepareAddress \/ PrepareAmount
    \/ PrepareNonce \/ NonceOverrun \/ PrepareFee \/ FeeOverrun
    \/ PrepareNetwork

Spec == Init /\ [][Next]_vars

-----------------------------------------------------------------------------
(* Properties.                                                             *)

Prepared == stage = "PREPARED"

\* The nonce that has too many digits for displayBuffer even without a null byte.
NonceTooLong == tx.nonce >= 10^AmountSize

\* Every text has its null byte within its buffer; that leaves out a nonce of
\* NonceSize digits or more in strings, and in displayBuffer the rest of one that
\* is too long, until the fees take its place.
TextsInBuffers ==
    /\ displayBuffer \in Seq(Nat)
    /\ \/ Len(displayBuffer) < AmountSize
       \/ stage \in {"FEE", "OVERRUN"} /\ Len(displayBuffer) = AmountSize /\ NonceTooLong
    /\ Len(strings.nonce) <= NonceSize
    /\ Len(strings.fullAmount) < AmountSize
    /\ Len(strings.maxFee) < AmountSize

\* Amounts that fit are shown as they are, in the decimals of their token,
\* whatever the buffer held before: also below one unit, with zeros at the end
\* or behind the point, and with the last digit that has room.
AmountExact ==
    Prepared /\ Fits(tx.value, tx.decimals, Ticker, AmountSize) =>
        ReadsAs(strings.fullAmount, Ticker, tx.decimals, tx.value)

\* The fees that are shown are price times gas as long as the product has no
\* more than 256 bits.
FeeExact ==
    Prepared /\ tx.gasPrice * tx.startGas < Modulus =>
        ReadsAs(strings.maxFee, Ticker, CoinDecimals, tx.gasPrice * tx.startGas)

\* "10M tx per account ought to be enough for everybody" (shared_context.h:121):
\* up to there the nonce is exact and ends with a null byte.
NonceExact ==
    Prepared /\ tx.nonce < 10^(NonceSize - 1) =>
        /\ strings.nonce = Decimal(tx.nonce)
        /\ Len(strings.nonce) < NonceSize
=============================================================================
