---------------------------- MODULE Prc20Screens ----------------------------
(***************************************************************************)
(* The approval screens of the PRC-20 plugin (prc20_plugin.c): what it     *)
(* keeps of a token, and how it answers when an item is to be displayed.   *)
(* Its context is kept from one transaction to the next.  That it is given *)
(* the parameters of the transaction is shown by ContractData, the order   *)
(* in which items are asked for is that of PluginUi: any here.             *)
(***************************************************************************)
EXTENDS Texts

CONSTANTS
    Amounts, MaxInt,    \* MaxInt: 32 bytes of 0xff
    Tokens,             \* records: ticker, decimals
    Destinations,       \* texts of addresses; the first is that of address 0
    MsgLength,          \* of strings.tmp.tmp2: 40
    MsgRoom,            \* what amountToString is told: 100
    MaxTransactions     \* bound

ScreenAssumption ==
    /\ Amounts \subseteq 0..MaxInt /\ MaxInt \in Numbers
    /\ \A token \in DOMAIN Tokens :
          token # "NONE" /\ Tokens[token].ticker \in Seq(Nat) /\ Tokens[token].decimals \in Nat
    /\ Destinations \in Seq(Seq(Nat)) /\ Destinations # <<>>
    /\ {MsgLength, MsgRoom} \subseteq Nat \ {0}
    /\ MaxTransactions \in Nat

VARIABLES
    tx, serial,     \* selector, amount, destination, token ("NONE" if unknown)
    context,        \* prc20_parameters_t
    msg,            \* strings.tmp.tmp2 as a text
    last,           \* the last place of it that was written
    screen          \* "NONE", "REVIEW", then the item on display: 0 or 1

vars == <<tx, serial, context, msg, last, screen>>

LeftOver == [i \in 1 .. MsgRoom - 1 |-> 70]
HexMark == <<0, 62>>
Unlimited == 80     \* "Unlimited ", as one character

\* CONTRACTS has places but no names: every one is for address 0.
Contracts == {1}

CheckContract(destination) == destination \in Contracts

Target ==
    IF tx'.selector = "APPROVE" /\ CheckContract(tx'.destination)
    THEN "CONTRACT" ELSE "ADDRESS"

\* A transaction with both parameters, up to PROVIDE_TOKEN.  Without a token the
\* plugin falls back; a transfer has no screens of the plugin.
ProvideToken(selector, amount, destination, token) ==
    /\ serial < MaxTransactions
    /\ serial' = serial + 1
    /\ tx' = [selector |-> selector, amount |-> amount, destination |-> destination,
              token |-> token]
    /\ context' = IF token = "NONE"
                  THEN [context EXCEPT !.amount = amount, !.destination = destination]
                  ELSE [amount |-> amount, destination |-> destination,
                        ticker |-> Tokens[token].ticker,
                        decimals |-> Tokens[token].decimals, target |-> Target]
    /\ screen' = IF selector = "APPROVE" /\ token # "NONE" THEN "REVIEW" ELSE "NONE"
    /\ UNCHANGED <<msg, last>>

IsMaxInt(amount) == amount = MaxInt

\* Wrong on purpose: the decimals of the network's coin.
AmountMsgOfCoin ==
    AmountToString(context.amount, CoinDecimals, context.ticker, msg, MsgRoom)

AmountMsg ==
    AmountToString(context.amount, context.decimals, context.ticker, msg, MsgRoom)

\* amountToString puts a null byte at the end of the room in any case.
NullPlace == MsgRoom - 1

QueryAmount ==
    /\ screen # "NONE"
    /\ IF IsMaxInt(context.amount)
       THEN msg' = <<Unlimited>> \o context.ticker /\ last' = Len(msg')
       ELSE msg' = AmountMsg /\ last' = NullPlace
    /\ screen' = "AMOUNT"
    /\ UNCHANGED <<tx, serial, context>>

\* The name of a contract, which is empty, or the address behind "0x".
QueryDestination ==
    /\ screen # "NONE"
    /\ msg' = IF context.target = "CONTRACT" THEN <<>>
              ELSE HexMark \o Destinations[context.destination]
    /\ last' = Len(msg')
    /\ screen' = "DESTINATION"
    /\ UNCHANGED <<tx, serial, context>>

Init ==
    /\ tx = [selector |-> "TRANSFER", amount |-> 0, destination |-> 1, token |-> "NONE"]
    /\ serial = 0
    /\ context = [amount |-> 0, destination |-> 1, ticker |-> <<>>, decimals |-> 0,
                  target |-> "ADDRESS"]
    /\ msg \in {<<>>, LeftOver}
    /\ last = 0
    /\ screen = "NONE"

Next ==
    \/ \E selector \in {"TRANSFER", "APPROVE"}, amount \in Amounts,
          destination \in DOMAIN Destinations, token \in DOMAIN Tokens \cup {"NONE"} :
            ProvideToken(selector, amount, destination, token)
    \/ QueryAmount
    \/ QueryDestination

Spec == Init /\ [][Next]_vars

-----------------------------------------------------------------------------
(* Properties.                                                             *)

Ticker == Tokens[tx.token].ticker
Decimals == Tokens[tx.token].decimals

\* Whatever an earlier transaction or another item left behind, the amount of an
\* approval is displayed in the units of its token if it fits, and as unlimited
\* exactly when it is the largest number.
ApprovedAmountExact ==
    screen = "AMOUNT" =>
        IF tx.amount = MaxInt THEN msg = <<Unlimited>> \o Ticker
        ELSE Fits(tx.amount, Decimals, Ticker, MsgRoom) =>
                ReadsAs(msg, Ticker, Decimals, tx.amount)

\* Who may spend is named by the address that is in this transaction; only for
\* address 0, which the places of CONTRACTS hold, there is an empty name.
SpenderShown ==
    screen = "DESTINATION" =>
        msg = IF tx.destination \in Contracts THEN <<>>
              ELSE HexMark \o Destinations[tx.destination]

\* "msgLength : maximum msg length" (latapp_plugins.md:262).  The plugin gives
\* amountToString room for 100, and an address with "0x" takes 45.
MsgInRoom == last < MsgLength
=============================================================================
