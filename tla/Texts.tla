------------------------------- MODULE Texts --------------------------------
(***************************************************************************)
(* The texts of amounts, fees and numbers (amountToString of utils.c,      *)
(* adjustDecimals of latUtils.c, computeFees of logic_signTx.c).  A text   *)
(* is the sequence of its characters up to the null byte: a digit is its   *)
(* number, the other characters are numbers from 10 on.  That the digits   *)
(* are those of the number is shown by Digits and DivMod.                  *)
(***************************************************************************)
EXTENDS Numerals

CONSTANTS
    CoinDecimals, \* WEI_TO_ETHER: 18
    Modulus,      \* 2^256: the product of two numbers keeps 256 bits
    MaxPlaces     \* digits of the largest number: 78

\* The digits of the fees and the point among them have room for 100.
FeeRoom == 100

Numbers == 0 .. 10^MaxPlaces - 1

TextAssumption ==
    /\ {CoinDecimals, Modulus, MaxPlaces} \subseteq Nat \ {0}
    /\ Modulus - 1 \in Numbers
    /\ MaxPlaces + 2 <= FeeRoom /\ CoinDecimals + 3 <= FeeRoom

Dot == 10
Space == 11
Coin == 12        \* "LAT", as one character

\* "Contract": what is shown for the destination of a creation.
CreationText == <<80>>

\* A lower case letter is 32 above its upper case.
UpperCase(c) == IF c >= 50 THEN c - 32 ELSE c

\* The ticker of the one network that is known, and the name of the coin
\* (get_network_ticker): only the first ends with a space.
NetworkTicker(known) == IF known THEN <<Coin, Space>> ELSE <<Coin>>

\* The digits of a number, the highest first.
Decimal(x) ==
    LET places == CHOOSE k \in 1..MaxPlaces : x < 10^k /\ (k > 1 => x >= 10^(k - 1))
    IN  [i \in 1..places |-> (x \div 10^(places - i)) % 10]

ReadDigits(digits) == ValueIn(digits, 10)

WithoutLastZeros(digits) ==
    LET kept == {i \in 1 .. Len(digits) : digits[i] # 0}
    IN  SubSeq(digits, 1, IF kept = {} THEN 0 ELSE Max(kept))

\* adjustDecimals refused: no text, whatever there is in the target stays.
Refused == <<>>

\* All the digits are behind the point.
Fraction(src, decimals) ==
    [i \in 1 .. decimals - Len(src) |-> 0] \o WithoutLastZeros(src)

AdjustDecimals(src, targetLength, decimals) ==
    LET whole == SubSeq(src, 1, Len(src) - decimals)
        fraction == WithoutLastZeros(SubSeq(src, Len(whole) + 1, Len(src)))
    IN  CASE src = <<0>> -> IF targetLength < 2 THEN Refused ELSE <<0>>
          [] src # <<0>> /\ Len(src) <= decimals ->
                IF targetLength < decimals + 3 THEN Refused
                ELSE <<0, Dot>> \o Fraction(src, decimals)
          [] src # <<0>> /\ Len(src) > decimals ->
                IF targetLength < Len(src) + 2 THEN Refused
                ELSE IF fraction = <<>> THEN whole
                ELSE whole \o <<Dot>> \o fraction

\* The ticker, and behind it the amount, or what the buffer held there.
TickerFirst(ticker, adjusted, former) ==
    ticker \o IF adjusted = Refused
              THEN SubSeq(former, Len(ticker) + 1, Len(former)) ELSE adjusted

\* amountToString into a buffer of that size that held the text former.
AmountToString(amount, decimals, ticker, former, size) ==
    LET adjusted ==
            AdjustDecimals(Decimal(amount), size - Len(ticker) - 1, decimals)
        text == TickerFirst(ticker, adjusted, former)
    IN  SubSeq(text, 1, Min({Len(text), size - 1}))

\* computeFees: the size of the target is not looked at.
ComputeFees(gasPrice, startGas, ticker) ==
    ticker \o AdjustDecimals(Decimal((gasPrice * startGas) % Modulus), FeeRoom,
                             CoinDecimals)

-----------------------------------------------------------------------------
(* Reading a text back.                                                    *)

\* An amount of that many decimals fits into the buffer with its ticker.
Fits(amount, decimals, ticker, size) ==
    AdjustDecimals(Decimal(amount), size - Len(ticker) - 1, decimals) # Refused

PointAt(digits) ==
    IF \E i \in 1 .. Len(digits) : digits[i] = Dot
    THEN CHOOSE i \in 1 .. Len(digits) : digits[i] = Dot
    ELSE Len(digits) + 1

\* A reader takes text for amount: the ticker, then the digits before the point
\* and, if there is one, up to decimals digits behind it.
ReadsAs(text, ticker, decimals, amount) ==
    LET digits == SubSeq(text, Len(ticker) + 1, Len(text))
        point == PointAt(digits)
        whole == SubSeq(digits, 1, point - 1)
        fraction == SubSeq(digits, point + 1, Len(digits))
    IN  /\ IsPrefix(ticker, text)
        /\ whole # <<>>
        /\ whole \o fraction \in Seq(0..9)
        /\ point <= Len(digits) => Len(fraction) \in 1..decimals
        /\ ReadDigits(whole) * 10^decimals
             + ReadDigits(fraction) * 10^(decimals - Len(fraction)) = amount
=============================================================================
