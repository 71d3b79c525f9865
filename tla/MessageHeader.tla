--------------------------- MODULE MessageHeader ---------------------------
(***************************************************************************)
(* The length in the header of a personal message (cmd_signMessage.c):     *)
(* the decimal digits of remainingLength are written into tmp and hashed.  *)
(* One action per turn of the two loops, in unsigned integers of w bits.   *)
(***************************************************************************)
EXTENDS Numerals

CONSTANTS
    Widths      \* bits of uint32_t: scaled down

VARIABLES
    w, remainingLength,
    index, tmp,      \* tmp up to pos
    loop             \* "POWER", "DIGIT", then "HASHED"

input == <<w, remainingLength>>
vars == <<input, index, tmp, loop>>

base == 10

\* A number of so many bits has fewer than size digits.
Holds(size, bits) == 10^(size - 2) <= 2^bits - 1 /\ 2^bits - 1 < 10^(size - 1)

HeaderAssumption ==
    /\ Widths \subseteq 4..32
    /\ \A bits \in Widths : \E size \in 2..11 : Holds(size, bits)

Wrapped(n) == n % 2^w

\* Wrong on purpose: the overflow is not tested.
HasDigitWrapping(i) == Wrapped(i * base) <= remainingLength

\* The condition of the first loop.
HasDigit(i) ==
    Wrapped(i * base) <= remainingLength /\ Wrapped(i * base) \div base = i

\* Wrong on purpose: index stays.
PowerUpStuck == loop = "POWER" /\ HasDigit(index) /\ UNCHANGED vars

PowerUp ==
    /\ loop = "POWER"
    /\ HasDigit(index)
    /\ index' = Wrapped(index * base)
    /\ UNCHANGED <<input, tmp, loop>>

PowerFound ==
    /\ loop = "POWER"
    /\ ~HasDigit(index)
    /\ loop' = "DIGIT"
    /\ UNCHANGED <<input, tmp, index>>

DigitAt(i) == (remainingLength \div i) % base

WriteDigit ==
    /\ loop = "DIGIT"
    /\ index # 0
    /\ tmp' = Append(tmp, DigitAt(index))
    /\ index' = index \div base
    /\ UNCHANGED <<input, loop>>

Hash ==
    /\ loop = "DIGIT"
    /\ index = 0
    /\ loop' = "HASHED"
    /\ UNCHANGED <<input, index, tmp>>

Init ==
    /\ w \in Widths
    /\ remainingLength \in 0 .. 2^w - 1
    /\ index = 1
    /\ tmp = <<>>
    /\ loop = "POWER"

Next == PowerUp \/ PowerFound \/ WriteDigit \/ Hash

Spec == Init /\ [][Next]_vars

-----------------------------------------------------------------------------
(* Properties.                                                             *)

\* A reader takes the digits for the length.
ReadBack == loop = "HASHED" => ValueIn(tmp, base) = remainingLength

\* sizeof(tmp): the digits of the largest length, and the null byte (11 for
\* 32 bits).
TmpSize == CHOOSE size \in 2..11 : Holds(size, w)

\* What is hashed is the length, in decimal and without a leading zero (the
\* header that any other verifier hashes), and it fits into tmp, also for the
\* lengths for which the power of ten overflows.
HeaderExact ==
    loop = "HASHED" =>
        /\ InPlace(tmp, base, remainingLength)
        /\ Len(tmp) > 1 => tmp[1] # 0
        /\ Len(tmp) < TmpSize
=============================================================================
