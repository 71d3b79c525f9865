------------------------------ MODULE Numerals ------------------------------
(***************************************************************************)
(* Numbers as sequences of their digits, the highest first: how a reader   *)
(* takes what the program prints.  Digits, MessageHeader and Texts state   *)
(* their properties with it.                                               *)
(***************************************************************************)
EXTENDS Integers, SequencesExt

\* A law of powers, of which the provers know none.
PowersMultiply(b, j, k) == b^0 = 1 /\ b^1 = b /\ b^(j + k) = b^j * b^k

PowerLaws == \A b \in 2..16, j \in Nat, k \in Nat : PowersMultiply(b, j, k)

\* A reader takes the digits for this number.
ValueIn(digits, b) ==
    LET upTo[i \in 0 .. Len(digits)] ==
            IF i = 0 THEN 0 ELSE upTo[i - 1] * b + digits[i]
    IN  upTo[Len(digits)]

\* The digits that x has in base b, from its highest place down to the units.
InPlace(digits, b, x) ==
    /\ \A i \in 1 .. Len(digits) : digits[i] = (x \div b^(Len(digits) - i)) % b
    /\ x < b^Len(digits)
=============================================================================
