------------------------------- MODULE Digits -------------------------------
(***************************************************************************)
(* The two loops that print a number of 256 bits: tostring256 (uint256.c)  *)
(* and uint256_to_decimal (utils.c), one action per digit.  The division   *)
(* of the first is that of DivMod; the second divides the number in place, *)
(* in limbs of 16 bits (here LimbBits).                                    *)
(***************************************************************************)
EXTENDS Numerals

CONSTANTS
    LimbBits, LimbCount,  \* 16 and 16 in the code
    Numbers,              \* that are printed
    OutLengths,           \* sizes of the buffer
    Bases                 \* values of baseParam

DigitsAssumption ==
    /\ {LimbBits, LimbCount} \subseteq Nat \ {0}
    /\ Numbers \subseteq 0 .. 2^(LimbBits * LimbCount) - 1
    /\ OutLengths \subseteq Nat \ {0}
    /\ Bases \subseteq Nat

VARIABLES
    function,     \* "tostring256" or "uint256_to_decimal"
    value, base, outLength,
    rDiv,         \* what is left to print, of tostring256
    n,            \* the limbs, the highest first
    out,          \* the digits that were written, in the order of their places
    lastPlace,    \* of those written in the buffer or behind it, with the null byte
    result        \* "RUNNING", "TRUE" or "FALSE"

arguments == <<function, value, base, outLength>>
vars == <<arguments, rDiv, n, out, lastPlace, result>>

Limb == 2^LimbBits
LimbsOf(x) ==
    [i \in 1..LimbCount |-> (x \div 2^(LimbBits * (LimbCount - i))) % Limb]

Return(returned) ==
    /\ result' = returned
    /\ UNCHANGED <<arguments, rDiv, n>>

-----------------------------------------------------------------------------
(* tostring256: the digits come from the lowest on and are reversed last.  *)

InBase == function = "tostring256" /\ result = "RUNNING"

BadBase == InBase /\ base \notin 2..16 /\ UNCHANGED <<out, lastPlace>> /\ Return("FALSE")

\* No room for a digit; there may be none for the null byte after the last.
Full == Len(out) > outLength - 1

NoRoom ==
    /\ InBase
    /\ base \in 2..16
    /\ Full
    /\ UNCHANGED <<out, lastPlace>>
    /\ Return("FALSE")

\* The loop ends behind its body: 0 has one digit.
LastDigit(left, written) == left = 0

NextDigit ==
    /\ InBase
    /\ base \in 2..16
    /\ ~Full
    /\ LET written == Append(out, rDiv % base)
           left == rDiv \div base
       IN  IF LastDigit(left, written)
           THEN /\ out' = Reverse(written)
                /\ lastPlace' = Len(written) + 1
                /\ result' = "TRUE"
           ELSE /\ out' = written
                /\ lastPlace' = Len(written)
                /\ UNCHANGED result
    /\ rDiv' = rDiv \div base
    /\ UNCHANGED <<arguments, n>>

-----------------------------------------------------------------------------
(* uint256_to_decimal: the digits are written from the end of the buffer.  *)

InLimbs == function = "uint256_to_decimal" /\ result = "RUNNING"

AllZeroes == \A i \in 1..LimbCount : n[i] = 0

\* The number 0 is printed by a case of its own; strncpy fills up the buffer.
PrintZero ==
    /\ InLimbs
    /\ value = 0
    /\ IF outLength < 2
       THEN UNCHANGED <<out, lastPlace>> /\ Return("FALSE")
       ELSE out' = <<0>> /\ lastPlace' = outLength /\ Return("TRUE")

NoPlace ==
    /\ InLimbs
    /\ ~AllZeroes
    /\ Len(out) = outLength
    /\ UNCHANGED <<out, lastPlace>>
    /\ Return("FALSE")

\* Wrong on purpose: the carry is added to the next limb.
WithCarryAdded(carry, limb) == carry + limb

\* What a limb and the remainder of the one before it make.
WithCarry(carry, limb) == carry * Limb + limb

\* The carry into each limb.
Carries ==
    LET carry[i \in 1 .. LimbCount + 1] ==
            IF i = 1 THEN 0 ELSE WithCarry(carry[i - 1], n[i - 1]) % 10
    IN  carry

DivideByTen ==
    /\ InLimbs
    /\ ~AllZeroes
    /\ Len(out) < outLength
    /\ n' = [i \in 1..LimbCount |-> WithCarry(Carries[i], n[i]) \div 10]
    /\ out' = <<Carries[LimbCount + 1]>> \o out
    /\ lastPlace' = outLength
    /\ UNCHANGED <<arguments, rDiv, result>>

\* The digits are moved to the start of the buffer, and end with a null byte.
MoveDigits ==
    /\ InLimbs
    /\ value # 0
    /\ AllZeroes
    /\ UNCHANGED out
    /\ lastPlace' = IF Len(out) < outLength THEN lastPlace ELSE Len(out) + 1
    /\ Return("TRUE")

-----------------------------------------------------------------------------
Init ==
    /\ function \in {"tostring256", "uint256_to_decimal"}
    /\ value \in Numbers
    /\ base \in IF function = "tostring256" THEN Bases ELSE {10}
    /\ outLength \in OutLengths
    /\ rDiv = value
    /\ n = LimbsOf(value)
    /\ out = <<>>
    /\ lastPlace = 0
    /\ result = "RUNNING"

Next ==
    \/ BadBase \/ NoRoom \/ NextDigit
    \/ PrintZero \/ NoPlace \/ DivideByTen \/ MoveDigits

Spec == Init /\ [][Next]_vars

-----------------------------------------------------------------------------
(* Properties.                                                             *)

\* A reader takes the digits for the number.
ReadBack == result = "TRUE" => ValueIn(out, base) = value

\* What is printed is the number, in its base and without a leading zero: the
\* amount, the fees and the nonce that the user is shown.
NumberPrinted ==
    result = "TRUE" =>
        /\ out \in Seq(0..15) /\ Len(out) <= outLength
        /\ InPlace(out, base, value)
        /\ Len(out) > 1 => out[1] # 0

\* A number is refused only when the base is wrong or its digits and the null
\* byte have no room.  It is not always refused when the null byte has none.
RefusedForRoom ==
    result = "FALSE" =>
        base \notin 2..16 \/ outLength = 1 \/ value >= base^(outLength - 1)

PrintedExact == NumberPrinted /\ RefusedForRoom

\* Nothing is written behind the buffer but one null byte, and that exactly when
\* the digits fill the buffer (uint256.c:479, utils.c:119).
OnlyNullByteBehind ==
    /\ lastPlace <= outLength + 1
    /\ lastPlace > outLength <=> result = "TRUE" /\ Len(out) = outLength

\* "Not enough space to hold "0" and \0." (utils.c:92): the null byte needs a
\* place in the buffer, and what has none is refused.
NullByteInBuffer == function = "uint256_to_decimal" => lastPlace <= outLength
=============================================================================
