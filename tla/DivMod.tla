------------------------------- MODULE DivMod -------------------------------
(***************************************************************************)
(* divmod256: the divisor is aligned with the dividend and subtracted on   *)
(* its way back to the right.  divmod128 is the same function on pairs of  *)
(* words.  It is called with the base of a number to print, never with 0,  *)
(* for which the loop would not end.                                       *)
(***************************************************************************)
EXTENDS Words

CONSTANTS
    Dividends   \* numbers

DividendAssumption == Dividends \subseteq 0 .. 2^(4 * W) - 1

VARIABLES
    l, r,               \* the arguments
    copyd, adder,       \* r and 1, shifted alike
    resDiv, resMod,
    stage               \* "CALLED", "ALIGNED", "LOOP", "RETURNED"

arguments == <<l, r>>
shifted == <<copyd, adder>>
results == <<resDiv, resMod>>
vars == <<arguments, shifted, results, stage>>

Of128(x) == <<x \div 2^W, x % 2^W>>
Of256(x) == <<Of128(x \div 2^(2 * W)), Of128(x % 2^(2 * W))>>

\* The dividend is the smaller one.
Smaller ==
    /\ stage = "CALLED"
    /\ Gt256(r, l)
    /\ stage' = "RETURNED"
    /\ UNCHANGED <<arguments, shifted, results>>

Align ==
    /\ stage = "CALLED"
    /\ ~Gt256(r, l)
    /\ LET diffBits == Bits256(l) - Bits256(r)
       IN  copyd' = Shiftl256(r, diffBits) /\ adder' = Shiftl256(One256, diffBits)
    /\ stage' = "ALIGNED"
    /\ UNCHANGED <<arguments, results>>

ShiftBoth ==
    /\ copyd' = Shiftr256(copyd, 1)
    /\ adder' = Shiftr256(adder, 1)

\* The aligned divisor can be the larger one, by less than a factor of 2.
StepBack ==
    /\ stage = "ALIGNED"
    /\ IF Gt256(copyd, resMod) THEN ShiftBoth ELSE UNCHANGED shifted
    /\ stage' = "LOOP"
    /\ UNCHANGED <<arguments, results>>

Fits == Gte256(resMod, copyd)

\* Wrong on purpose: the loop ends one subtraction early.
DivisibleStrictly == Gt256(resMod, r)

Divisible == Gte256(resMod, r)

Subtract ==
    /\ stage = "LOOP"
    /\ Divisible
    /\ Fits
    /\ resMod' = Minus256(resMod, copyd)
    /\ resDiv' = Or256(resDiv, adder)
    /\ ShiftBoth
    /\ UNCHANGED <<arguments, stage>>

Skip ==
    /\ stage = "LOOP"
    /\ Divisible
    /\ ~Fits
    /\ ShiftBoth
    /\ UNCHANGED <<arguments, results, stage>>

Return ==
    /\ stage = "LOOP"
    /\ ~Divisible
    /\ stage' = "RETURNED"
    /\ UNCHANGED <<arguments, shifted, results>>

Init ==
    /\ l \in {Of256(x) : x \in Dividends}
    /\ r \in U256 \ {Zero256}
    /\ copyd = Zero256
    /\ adder = Zero256
    /\ resDiv = Zero256
    /\ resMod = l
    /\ stage = "CALLED"

Next == Smaller \/ Align \/ StepBack \/ Subtract \/ Skip \/ Return

Spec == Init /\ [][Next]_vars

-----------------------------------------------------------------------------
(* Properties.                                                             *)

\* In every turn the parts make up the dividend, and the bit that is set next
\* stands for the multiple that is subtracted with it, and for no bit that is
\* set already.
NothingLostInTheLoop ==
    stage = "LOOP" =>
        /\ Value256(resDiv) * Value256(r) + Value256(resMod) = Value256(l)
        /\ adder # Zero256 => Value256(copyd) = Value256(adder) * Value256(r)
        /\ Value256(resMod) < 2 * Value256(copyd) \/ adder = Zero256

\* The quotient and the remainder are those of the division, whatever the
\* widths of the two numbers.
QuotientExact ==
    stage = "RETURNED" =>
        /\ Value256(resDiv) = Value256(l) \div Value256(r)
        /\ Value256(resMod) = Value256(l) % Value256(r)
=============================================================================
