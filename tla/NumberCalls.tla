---------------------------- MODULE NumberCalls -----------------------------
(***************************************************************************)
(* The functions on numbers: the arithmetic of uint256.c, its division,    *)
(* the loops that print digits, the header of a message and the addresses. *)
(* They share no state, so a behaviour is one call of one of them; the     *)
(* variables of the others stay Idle.                                      *)
(***************************************************************************)
EXTENDS Integers, Sequences

CONSTANTS
    W, BitOr(_, _),                         \* Words
    Operands,                               \* Uint256
    Dividends,                              \* DivMod
    LimbBits, LimbCount, Numbers, OutLengths, Bases,              \* Digits
    Widths,                                 \* MessageHeader
    AddressBytes, Addresses, Hrp, Errors, MaxErrors, BitXor(_, _) \* Bech32

VARIABLES
    job,                                                    \* the function
    a, b, call, target,                                     \* Uint256
    l, r, copyd, adder, resDiv, resMod,                     \* DivMod
    stage,                                                  \* DivMod, Bech32
    function, value, base, outLength, rDiv, n, out,         \* Digits
    lastPlace, result,
    w, remainingLength, index, tmp, loop,                   \* MessageHeader
    address, text, wrong, decoded                           \* Bech32

arithmeticVars == <<a, b, call, target>>
divisionVars == <<l, r, copyd, adder, resDiv, resMod>>
digitsVars == <<function, value, base, outLength, rDiv, n, out, lastPlace, result>>
headerVars == <<w, remainingLength, index, tmp, loop>>
addressVars == <<address, text, wrong, decoded>>
vars == <<job, arithmeticVars, divisionVars, stage, digitsVars, headerVars, addressVars>>

Arithmetic == INSTANCE Uint256
Division == INSTANCE DivMod
Digits == INSTANCE Digits
Header == INSTANCE MessageHeader
Address == INSTANCE Bech32

ASSUME NumbersAssumption ==
    /\ Arithmetic!WordAssumption
    /\ Arithmetic!PowerLaws
    /\ Arithmetic!OrLaws
    /\ Arithmetic!OperandAssumption
    /\ Division!DividendAssumption
    /\ Digits!DigitsAssumption
    /\ Header!HeaderAssumption
    /\ Address!AddressAssumption

-----------------------------------------------------------------------------
Idle == "IDLE"

IdleArithmetic == a = Idle /\ b = Idle /\ call = Idle /\ target = Idle
IdleDivision ==
    l = Idle /\ r = Idle /\ copyd = Idle /\ adder = Idle /\ resDiv = Idle /\ resMod = Idle
IdleDigits ==
    /\ function = Idle /\ value = Idle /\ base = Idle /\ outLength = Idle
    /\ rDiv = Idle /\ n = Idle /\ out = Idle /\ lastPlace = Idle /\ result = Idle
IdleHeader ==
    w = Idle /\ remainingLength = Idle /\ index = Idle /\ tmp = Idle /\ loop = Idle
IdleAddress == address = Idle /\ text = Idle /\ wrong = Idle /\ decoded = Idle

Init ==
    \/ /\ job = "ARITHMETIC" /\ Arithmetic!Init /\ stage = Idle
       /\ IdleDivision /\ IdleDigits /\ IdleHeader /\ IdleAddress
    \/ /\ job = "DIVISION" /\ Division!Init
       /\ IdleArithmetic /\ IdleDigits /\ IdleHeader /\ IdleAddress
    \/ /\ job = "DIGITS" /\ Digits!Init /\ stage = Idle
       /\ IdleArithmetic /\ IdleDivision /\ IdleHeader /\ IdleAddress
    \/ /\ job = "HEADER" /\ Header!Init /\ stage = Idle
       /\ IdleArithmetic /\ IdleDivision /\ IdleDigits /\ IdleAddress
    \/ /\ job = "ADDRESS" /\ Address!Init
       /\ IdleArithmetic /\ IdleDivision /\ IdleDigits /\ IdleHeader

Calculate ==
    /\ job = "ARITHMETIC" /\ Arithmetic!Next
    /\ UNCHANGED <<job, divisionVars, stage, digitsVars, headerVars, addressVars>>

Divide ==
    /\ job = "DIVISION" /\ Division!Next
    /\ UNCHANGED <<job, arithmeticVars, digitsVars, headerVars, addressVars>>

PrintDigits ==
    /\ job = "DIGITS" /\ Digits!Next
    /\ UNCHANGED <<job, arithmeticVars, divisionVars, stage, headerVars, addressVars>>

WriteHeader ==
    /\ job = "HEADER" /\ Header!Next
    /\ UNCHANGED <<job, arithmeticVars, divisionVars, stage, digitsVars, addressVars>>

ConvertAddress ==
    /\ job = "ADDRESS" /\ Address!Next
    /\ UNCHANGED <<job, arithmeticVars, divisionVars, digitsVars, headerVars>>

Next == Calculate \/ Divide \/ PrintDigits \/ WriteHeader \/ ConvertAddress

Spec == Init /\ [][Next]_vars

\* A function that was called runs to its end: nothing interrupts it.
FairSpec == Spec /\ WF_vars(Divide) /\ WF_vars(WriteHeader)

-----------------------------------------------------------------------------
(* Properties.                                                             *)

\* Sums, differences, products, shifts, order and widths of numbers of four
\* words are those of the integers modulo 2^256 (uint256.c).
ArithmeticExact ==
    job = "ARITHMETIC" => Arithmetic!ResultExact /\ Arithmetic!OrderExact

\* divmod256: in every turn of its loop the quotient so far times the divisor,
\* plus what is left, is the dividend; at the end the two are quotient and
\* remainder.
DivisionExact ==
    job = "DIVISION" => Division!NothingLostInTheLoop /\ Division!QuotientExact

\* tostring256 and uint256_to_decimal: the digits are those of the number and lie
\* in the buffer, the null byte may be the one place behind it, and a number is
\* refused only if it has no room.
PrintedExact ==
    job = "DIGITS" => Digits!ReadBack /\ Digits!PrintedExact /\ Digits!OnlyNullByteBehind

\* uint256_to_decimal accounts for the null byte (utils.c:92).  It does so for the
\* number 0 only: other digits may fill the buffer.
NullByteFits == job = "DIGITS" => Digits!NullByteInBuffer

\* cmd_signMessage.c: the length that is hashed is that of the message, also for
\* the lengths at which the power of ten overflows, and tmp has room for it.
HeaderExact == job = "HEADER" => Header!ReadBack /\ Header!HeaderExact

\* bech32.c: an address is read back as it was, in either case, and no wrong
\* symbol goes unnoticed.
AddressExact == job = "ADDRESS" => Address!RoundTrip /\ Address!ErrorsDetected

\* The loops that have no counter end: the first loop of the message header by
\* its test for overflow, that of divmod256 before the divisor is shifted away.
LoopsReturn ==
    /\ job = "HEADER" ~> loop = "HASHED"
    /\ job = "DIVISION" ~> stage = "RETURNED"
=============================================================================
