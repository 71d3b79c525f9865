------------------------------- MODULE Words --------------------------------
(***************************************************************************)
(* The integers of src_common/uint256.c: a uint128_t is a pair of words, a *)
(* uint256_t a pair of those, the upper one first.  A word has W bits      *)
(* where the code has 64.  The operators are the functions of the file;    *)
(* their results are compared with those of the integers in Uint256, and   *)
(* for every W in Words_proofs.                                            *)
(***************************************************************************)
EXTENDS Integers

CONSTANTS
    W,              \* bits of a uint64_t
    BitOr(_, _)     \* the operator | of C, on words

WordAssumption == W \in Nat \ {0} /\ W % 2 = 0

Base == 2^W
Word == 0 .. Base - 1
U128 == Word \X Word
U256 == U128 \X U128

Upper(n) == n[1]
Lower(n) == n[2]

Wrapped(x) == x % Base

WordLeft(x, v) == Wrapped(x * 2^v)
WordRight(x, v) == x \div 2^v

Zero128 == <<0, 0>>
Zero256 == <<Zero128, Zero128>>
One128 == <<0, 1>>
One256 == <<Zero128, One128>>

-----------------------------------------------------------------------------
(* Comparisons.                                                            *)

Gt128(a, b) ==
    IF Upper(a) = Upper(b) THEN Lower(a) > Lower(b) ELSE Upper(a) > Upper(b)

Gt256(a, b) ==
    IF Upper(a) = Upper(b)
    THEN Gt128(Lower(a), Lower(b)) ELSE Gt128(Upper(a), Upper(b))

Gte256(a, b) == Gt256(a, b) \/ a = b

\* The number of shifts that leave 0.
WordBits(x) == CHOOSE k \in 0..W : x < 2^k /\ (k > 0 => x >= 2^(k - 1))

Bits128(n) ==
    IF Upper(n) # 0 THEN W + WordBits(Upper(n)) ELSE WordBits(Lower(n))

Bits256(n) ==
    IF Upper(n) # Zero128
    THEN 2 * W + Bits128(Upper(n)) ELSE Bits128(Lower(n))

-----------------------------------------------------------------------------
(* Sums and differences, with the carry seen from the sum that wrapped.    *)

Carry(test) == IF test THEN 1 ELSE 0

Add128(a, b) ==
    LET low == Wrapped(Lower(a) + Lower(b))
    IN  <<Wrapped(Upper(a) + Upper(b) + Carry(low < Lower(a))), low>>

\* Wrong on purpose: no carry from the lower half to the upper one.
Add256NoCarry(a, b) ==
    <<Add128(Upper(a), Upper(b)), Add128(Lower(a), Lower(b))>>

Add256(a, b) ==
    LET low == Add128(Lower(a), Lower(b))
        up == Add128(Upper(a), Upper(b))
    IN  <<IF Gt128(Lower(a), low) THEN Add128(up, One128) ELSE up, low>>

Minus128(a, b) ==
    LET low == Wrapped(Lower(a) - Lower(b))
    IN  <<Wrapped(Upper(a) - Upper(b) - Carry(low > Lower(a))), low>>

Minus256(a, b) ==
    LET low == Minus128(Lower(a), Lower(b))
        up == Minus128(Upper(a), Upper(b))
    IN  <<IF Gt128(low, Lower(a)) THEN Minus128(up, One128) ELSE up, low>>

Or128(a, b) == <<BitOr(Upper(a), Upper(b)), BitOr(Lower(a), Lower(b))>>

Or256(a, b) == <<Or128(Upper(a), Upper(b)), Or128(Lower(a), Lower(b))>>

-----------------------------------------------------------------------------
(* Shifts.  A word is never shifted by its whole width, which C leaves     *)
(* undefined: that case has a branch of its own.                           *)

Shiftl128(n, v) ==
    CASE v >= 2 * W       -> Zero128
      [] v = W            -> <<Lower(n), 0>>
      [] v = 0            -> n
      [] v \in 1 .. W - 1 ->
            <<Wrapped(WordLeft(Upper(n), v) + WordRight(Lower(n), W - v)),
              WordLeft(Lower(n), v)>>
      [] v \in W + 1 .. 2 * W - 1 -> <<WordLeft(Lower(n), v - W), 0>>

Shiftr128(n, v) ==
    CASE v >= 2 * W       -> Zero128
      [] v = W            -> <<0, Upper(n)>>
      [] v = 0            -> n
      [] v \in 1 .. W - 1 ->
            <<WordRight(Upper(n), v),
              Wrapped(WordLeft(Upper(n), W - v) + WordRight(Lower(n), v))>>
      [] v \in W + 1 .. 2 * W - 1 -> <<0, WordRight(Upper(n), v - W)>>

Shiftl256(n, v) ==
    CASE v >= 4 * W           -> Zero256
      [] v = 2 * W            -> <<Lower(n), Zero128>>
      [] v = 0                -> n
      [] v \in 1 .. 2 * W - 1 ->
            <<Add128(Shiftl128(Upper(n), v), Shiftr128(Lower(n), 2 * W - v)),
              Shiftl128(Lower(n), v)>>
      [] v \in 2 * W + 1 .. 4 * W - 1 ->
            <<Shiftl128(Lower(n), v - 2 * W), Zero128>>

Shiftr256(n, v) ==
    CASE v >= 4 * W           -> Zero256
      [] v = 2 * W            -> <<Zero128, Upper(n)>>
      [] v = 0                -> n
      [] v \in 1 .. 2 * W - 1 ->
            <<Shiftr128(Upper(n), v),
              Add128(Shiftr128(Lower(n), v), Shiftl128(Upper(n), 2 * W - v))>>
      [] v \in 2 * W + 1 .. 4 * W - 1 ->
            <<Zero128, Shiftr128(Upper(n), v - 2 * W)>>

-----------------------------------------------------------------------------
(* Products.                                                               *)

HalfWord == 2^(W \div 2)
High(x) == x \div HalfWord
Low(x) == x % HalfWord

\* The half words of a uint128_t, the highest first.
Halves(n) == <<High(Upper(n)), Low(Upper(n)), High(Lower(n)), Low(Lower(n))>>

\* The products of half words by columns; sums of columns wrap in a word.
Mul128(a, b) ==
    LET product(i, j) == Halves(a)[4 - i] * Halves(b)[j + 1]
        fourth == Low(product(0, 3))
        third == Low(product(0, 2)) + High(product(0, 3)) + Low(product(1, 3))
        second == Low(product(0, 1)) + High(product(0, 2)) + Low(product(1, 2))
                    + High(product(1, 3)) + Low(product(2, 3))
        first == Low(product(0, 0)) + High(product(0, 1)) + Low(product(1, 1))
                    + High(product(1, 2)) + Low(product(2, 2))
                    + High(product(2, 3)) + Low(product(3, 3))
        columns == Add128(<<WordLeft(first, W \div 2), 0>>,
                          <<High(third), WordLeft(third, W \div 2)>>)
    IN  Add128(<<0, fourth>>, Add128(<<Wrapped(second), 0>>, columns))

\* The words, the highest first: the bytes that are handed to cx_math_mult.
WordsOf(n) ==
    <<Upper(Upper(n)), Lower(Upper(n)), Upper(Lower(n)), Lower(Lower(n))>>

Number(words) ==
    ((words[1] * Base + words[2]) * Base + words[3]) * Base + words[4]

\* cx_math_mult, of the SDK: the eight words of the product.
MathMult(a, b) ==
    [i \in 1..8 |-> Wrapped((Number(a) * Number(b)) \div 2^(W * (8 - i)))]

\* The lower half of the product is kept.
Mul256(a, b) ==
    LET result == MathMult(WordsOf(a), WordsOf(b))
    IN  <<<<result[5], result[6]>>, <<result[7], result[8]>>>>

-----------------------------------------------------------------------------
(* The numbers that are meant.                                             *)

Value128(n) == Upper(n) * Base + Lower(n)
Value256(n) == Value128(Upper(n)) * (Base * Base) + Value128(Lower(n))

-----------------------------------------------------------------------------
(* What the proofs take from arithmetic: the prover knows no law of powers *)
(* and no bits.  TLC evaluates both on the instances.                      *)

PowerLaws ==
    \A i, j \in 0 .. 4 * W : 2^i \in Nat \ {0} /\ 2^(i + j) = 2^i * 2^j

OrLaws ==
    /\ \A x \in Word :
          /\ BitOr(x, 0) = x
          /\ \A y \in Word : BitOr(x, y) \in Word
          /\ \A i \in 0 .. W - 1 : (x \div 2^i) % 2 = 0 => BitOr(x, 2^i) = x + 2^i
    \* Of a number of two halves, each half is for itself.
    /\ \A p \in {2^W, 2^(2 * W)} : \A x, y, z, n \in 0 .. p - 1 :
          BitOr(x * p + y, z * p + n) = BitOr(x, z) * p + BitOr(y, n)
=============================================================================
