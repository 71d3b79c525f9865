----------------------------- MODULE SwapCalls ------------------------------
(***************************************************************************)
(* The library calls of the exchange application (library_main, the files  *)
(* handle_*.c and parse_swap_config), and what finalizeParsing makes of a  *)
(* transaction that follows SIGN_TRANSACTION: its texts are compared with  *)
(* the approved ones, one after the other (compareOrCopy).  The session    *)
(* around it is LatApp.                                                    *)
(***************************************************************************)
EXTENDS Texts

CONSTANTS
    AmountSize,            \* of fullAmount and maxFee: 50
    Amounts, Fees,         \* numbers
    AmountLengths,         \* bytes of an amount
    Configs,               \* coin configurations: length, ticker, decimals
    Addresses,             \* texts of addresses, in lower case
    Spellings,             \* texts of addresses that callers hand in
    Stacks,                \* what displayBuffer may hold before it is written
    Derived,               \* the address of each account
    MaxPath,               \* MAX_BIP32_PATH: 10
    MaxTicker,             \* MAX_TICKER_LEN: 12
    PrintableSize,         \* of printable_amount: 30
    AddressSize            \* of fullAddress: 43

SwapAssumption ==
    /\ Amounts \cup Fees \subseteq Numbers
    /\ AmountLengths \subseteq Nat
    /\ \A config \in Configs : config.ticker \in Seq(Nat) /\ config.decimals \in Nat
    /\ DOMAIN Derived # {} /\ \A account \in DOMAIN Derived : Derived[account] \in Seq(Nat)
    /\ {AmountSize, MaxPath, MaxTicker, PrintableSize, AddressSize} \subseteq Nat \ {0}
    /\ \A text \in UNION {Addresses, Spellings, Stacks} : text \in Seq(Nat)
    /\ <<>> \notin Addresses

VARIABLES
    stage,       \* of the call: "CALLED", "ANSWERED", "RUN", then the texts
    call,        \* the command and its parameters
    result,      \* of the handler: 0 or 1
    printable,   \* printable_amount
    strings,     \* the approved texts
    tx           \* the transaction that the host sends

vars == <<stage, call, result, printable, strings, tx>>

\* Before the first text is copied, and the text of what is not there.
Former == [fullAddress |-> <<70>>, fullAmount |-> <<70>>, maxFee |-> <<70>>]
Missing == <<>>

Answer(r) == stage' = "ANSWERED" /\ result' = r

-----------------------------------------------------------------------------
(* CHECK_ADDRESS.                                                          *)

PathOk(path) == path.count \in 1..MaxPath /\ path.count * 4 = path.length - 1

\* "0x"
HexMark == <<0, 62>>

Unmarked(text) == IF IsPrefix(HexMark, text) THEN SubSeq(text, 3, Len(text)) ELSE text

\* os_strcmp compares the null byte, too.
SameAddress(derived, given) == derived = given

HandleCheckAddress ==
    /\ stage = "CALLED"
    /\ call.command = "CHECK_ADDRESS"
    /\ Answer(IF /\ call.address # Missing
                 /\ PathOk(call.path)
                 /\ SameAddress(Derived[call.path.account], Unmarked(call.address))
              THEN 1 ELSE 0)
    /\ UNCHANGED <<call, printable, strings, tx>>

-----------------------------------------------------------------------------
(* parse_swap_config: a length byte, the ticker and a byte of decimals.    *)

ConfigOk(config) ==
    /\ config.length > 0
    /\ Len(config.ticker) \in 1 .. MaxTicker - 2
    /\ config.length >= 1 + Len(config.ticker) + 1

ConfigTicker(config) == config.ticker \o <<Space>>

-----------------------------------------------------------------------------
(* GET_PRINTABLE_AMOUNT.                                                   *)

\* Wrong on purpose: a fee is printed in the coin that is swapped.
PrintableTickerOfConfig(config, isFee) == ConfigTicker(config)

PrintableTicker(config, isFee) ==
    IF isFee THEN <<Coin, Space>> ELSE ConfigTicker(config)

PrintableDecimals(config, isFee) ==
    IF isFee THEN CoinDecimals ELSE config.decimals

HandleGetPrintableAmount ==
    /\ stage = "CALLED"
    /\ call.command = "GET_PRINTABLE_AMOUNT"
    /\ IF call.amountLength > 32 \/ ~ConfigOk(call.config)
       THEN Answer(0) /\ printable' = <<>>
       ELSE /\ Answer(1)
            /\ printable' =
                 AmountToString(call.amount,
                                PrintableDecimals(call.config, call.isFee),
                                PrintableTicker(call.config, call.isFee),
                                <<>>, PrintableSize)
    /\ UNCHANGED <<call, strings, tx>>

-----------------------------------------------------------------------------
(* SIGN_TRANSACTION: copy_transaction_parameters, then the application.    *)

ParametersOk ==
    /\ Len(call.address) < AddressSize
    /\ call.amountLength <= 32
    /\ call.feeLength <= 8
    /\ ConfigOk(call.config)

\* The fee has the name of the coin before it, without a space.
ApprovedTexts ==
    [fullAddress |-> call.address,
     fullAmount |-> AmountToString(call.amount, call.config.decimals,
                                   ConfigTicker(call.config), <<>>, AmountSize),
     maxFee |-> AmountToString(call.fee, CoinDecimals, <<Coin>>, <<>>, AmountSize)]

\* Wrong on purpose: written to strings.common before the last check.
CopyRefusedWritten ==
    /\ stage = "CALLED"
    /\ call.command = "SIGN_TRANSACTION"
    /\ ~ParametersOk
    /\ Answer(0)
    /\ strings' = [strings EXCEPT !.fullAddress = call.address]
    /\ UNCHANGED <<call, printable, tx>>

CopyRefused ==
    /\ stage = "CALLED"
    /\ call.command = "SIGN_TRANSACTION"
    /\ ~ParametersOk
    /\ Answer(0)
    /\ UNCHANGED <<call, printable, strings, tx>>

CopyParameters ==
    /\ stage = "CALLED"
    /\ call.command = "SIGN_TRANSACTION"
    /\ ParametersOk
    /\ strings' = ApprovedTexts
    /\ stage' = "RUN"
    /\ UNCHANGED <<call, result, printable, tx>>

-----------------------------------------------------------------------------
(* The transaction of the host.                                            *)

\* One without a destination creates a contract; the text of a destination is
\* written over what displayBuffer held.
Transactions ==
    [destination : Addresses, stack : {<<>>}, value : Amounts, fee : Fees,
     known : BOOLEAN]
    \cup
    [destination : {Missing}, stack : Stacks, value : Amounts, fee : Fees,
     known : BOOLEAN]

SignTx ==
    /\ stage = "RUN"
    /\ \E t \in Transactions : tx' = t
    /\ stage' = "ADDRESS"
    /\ UNCHANGED <<call, result, printable, strings>>

ToUppercase(text) == [i \in 1 .. Len(text) |-> UpperCase(text[i])]

\* Wrong on purpose: the shorter text decides.
CompareShorter(preapproved, parsed) ==
    \/ IsPrefix(ToUppercase(preapproved), ToUppercase(parsed))
    \/ IsPrefix(ToUppercase(parsed), ToUppercase(preapproved))

\* compareOrCopy in silent mode: memcmp over the length of the approved text.
Compare(preapproved, parsed) ==
    IsPrefix(ToUppercase(preapproved), ToUppercase(parsed))

TxTicker == NetworkTicker(tx.known)
Creation == tx.destination = Missing

\* An amount that has no room leaves what was in displayBuffer before: the address
\* that was compared, which is in upper case now, or that of the stack.
ParsedAmount ==
    AmountToString(tx.value, CoinDecimals, TxTicker,
                   IF Creation THEN tx.stack ELSE ToUppercase(tx.destination),
                   AmountSize)
ParsedFee == ComputeFees(tx.fee, 1, TxTicker)

\* A mismatch is thrown; the text that was compared is in upper case.
CompareText(from, to, field, parsed) ==
    /\ stage = from
    /\ stage' = IF Compare(strings[field], parsed) THEN to ELSE "REFUSED"
    /\ strings' = [strings EXCEPT ![field] = ToUppercase(strings[field])]
    /\ UNCHANGED <<call, result, printable, tx>>

\* Of a creation no address is compared: the approved one is written over.
CopyCreation ==
    /\ stage = "ADDRESS"
    /\ Creation
    /\ strings' = [strings EXCEPT !.fullAddress = CreationText]
    /\ stage' = "AMOUNT"
    /\ UNCHANGED <<call, result, printable, tx>>

CompareTexts ==
    \/ ~Creation /\ CompareText("ADDRESS", "AMOUNT", "fullAddress", tx.destination)
    \/ CompareText("AMOUNT", "FEE", "fullAmount", ParsedAmount)
    \/ CompareText("FEE", "SIGNED", "maxFee", ParsedFee)

-----------------------------------------------------------------------------
Calls ==
    [command : {"CHECK_ADDRESS"}, address : Spellings \cup {Missing},
     path : [count : 0 .. MaxPath + 1, length : 0 .. 4 * (MaxPath + 2),
             account : DOMAIN Derived]]
    \cup
    [command : {"GET_PRINTABLE_AMOUNT"}, config : Configs, amount : Amounts,
     amountLength : AmountLengths, isFee : BOOLEAN]
    \cup
    [command : {"SIGN_TRANSACTION"}, config : Configs, amount : Amounts,
     amountLength : AmountLengths, fee : Fees, feeLength : {8, 9},
     address : Spellings]

NoTx == [destination |-> Missing, stack |-> <<>>, value |-> 0, fee |-> 0, known |-> FALSE]

Init ==
    /\ stage = "CALLED"
    /\ call \in Calls
    /\ result = 0
    /\ printable = <<>>
    /\ strings = Former
    /\ tx = NoTx

Next ==
    \/ HandleCheckAddress \/ HandleGetPrintableAmount
    \/ CopyRefused \/ CopyParameters \/ SignTx
    \/ CopyCreation \/ CompareTexts

Spec == Init /\ [][Next]_vars

-----------------------------------------------------------------------------
(* Properties.                                                             *)

\* An address is confirmed only if it is the one of the path, to its last
\* character and with no other behind it.
ConfirmedIsDerived ==
    call.command = "CHECK_ADDRESS" /\ result = 1 =>
        call.address \in {Derived[call.path.account],
                          HexMark \o Derived[call.path.account]}

\* The coin and the decimals of what is asked for: those of the configuration
\* or, for a fee, those of the network.
Asked == call.command = "GET_PRINTABLE_AMOUNT" /\ result = 1
AskedTicker == (IF call.isFee THEN <<Coin>> ELSE call.config.ticker) \o <<Space>>
AskedDecimals == IF call.isFee THEN CoinDecimals ELSE call.config.decimals
PrintableRead == ReadsAs(printable, AskedTicker, AskedDecimals, call.amount)

\* What the exchange application is given to display is the amount that it asked
\* for, in its coin, if the digits fit.
PrintableExact ==
    Asked /\ Fits(call.amount, AskedDecimals, AskedTicker, PrintableSize)
        => PrintableRead

\* The parameters may lie over strings: they are copied when all are good.
RefusedLeavesTexts ==
    call.command = "SIGN_TRANSACTION" /\ stage = "ANSWERED" => strings = Former

\* But for case, the destination begins with the approved text.  That makes it the
\* approved address if the text is as long as one; an empty text, which nothing
\* refuses, is the beginning of any.
BeginsAsApproved ==
    /\ IsPrefix(ToUppercase(call.address), ToUppercase(tx.destination))
    /\ Len(call.address) >= Len(tx.destination) =>
          ToUppercase(call.address) = ToUppercase(tx.destination)

\* What goes on after the comparison of the address is a creation, which has none to
\* compare, or has an approved destination.  What goes on after that of the amount
\* moves no less than was approved, whatever was in displayBuffer.
ComparedNeverLess ==
    /\ stage \in {"AMOUNT", "FEE", "SIGNED"} /\ ~Creation => BeginsAsApproved
    /\ (/\ stage \in {"FEE", "SIGNED"}
        /\ call.config.decimals = CoinDecimals
        /\ Fits(call.amount, CoinDecimals, ConfigTicker(call.config), AmountSize))
            => tx.value >= call.amount
=============================================================================
