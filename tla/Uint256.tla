------------------------------ MODULE Uint256 ------------------------------
(***************************************************************************)
(* One call of a function of uint256.c with each pair of operands, against *)
(* the arithmetic of the integers modulo 2^256 (here 2^(4 * W)).           *)
(***************************************************************************)
EXTENDS Words

CONSTANTS
    Operands    \* numbers of the second operand

VARIABLES
    a, b,
    call,       \* the function that was called
    target      \* its result

vars == <<a, b, call, target>>

Modulus == 2^(4 * W)

OperandAssumption == Operands \subseteq 0 .. Modulus - 1

Of128(x) == <<x \div 2^W, x % 2^W>>
Of256(x) == <<Of128(x \div 2^(2 * W)), Of128(x % 2^(2 * W))>>

Returns(function, result) ==
    /\ call = "NONE"
    /\ call' = function
    /\ target' = result
    /\ UNCHANGED <<a, b>>

Next ==
    \/ Returns("ADD", Add256(a, b))
    \/ Returns("MINUS", Minus256(a, b))
    \/ Returns("OR", Or256(a, b))
    \/ Returns("MUL", Mul256(a, b))
    \/ Returns("MUL128", <<Zero128, Mul128(Lower(a), Lower(b))>>)
    \/ Returns("SHIFTL", Shiftl256(a, Value256(b)))
    \/ Returns("SHIFTR", Shiftr256(a, Value256(b)))

Init ==
    /\ a \in U256
    /\ b \in {Of256(x) : x \in Operands}
    /\ call = "NONE"
    /\ target = Zero256

Spec == Init /\ [][Next]_vars

-----------------------------------------------------------------------------
(* Properties.                                                             *)

\* What the integers say the result is.
Expected(x, y) ==
    CASE call = "ADD"    -> (x + y) % Modulus
      [] call = "MINUS"  -> (x - y) % Modulus
      [] call = "MUL"    -> (x * y) % Modulus
      [] call = "MUL128" -> ((x % 2^(2 * W)) * (y % 2^(2 * W))) % 2^(2 * W)
      [] call = "SHIFTL" -> IF y >= 4 * W THEN 0 ELSE (x * 2^y) % Modulus
      [] call = "SHIFTR" -> IF y >= 4 * W THEN 0 ELSE x \div 2^y
      [] call = "OR"     -> BitOr(x, y)
      [] call = "NONE"   -> 0

\* The carries and borrows cross the four words, a shift loses only what leaves
\* the number, and of a product the lower half is kept.
ResultExact ==
    /\ target \in U256
    /\ Value256(target) = Expected(Value256(a), Value256(b))

\* The order is that of the integers, and a number has as many bits as are
\* needed: divmod256 aligns its operands by them.
OrderExact ==
    /\ Gt256(a, b) <=> Value256(a) > Value256(b)
    /\ Gte256(a, b) <=> Value256(a) >= Value256(b)
    /\ Value256(a) < 2^Bits256(a)
    /\ a # Zero256 => Value256(a) >= 2^(Bits256(a) - 1)
=============================================================================
