----------------------------- MODULE MCNumbers ------------------------------
(***************************************************************************)
(* TLC instance of NumberCalls.                                            *)
(***************************************************************************)
EXTENDS NumberCalls, Bitwise

MCBitOr(x, y) == x | y
MCBitXor(x, y) == x ^^ y

\* Every number of 4 words as one operand, and as the other those at the
\* borders of the words, which are all the widths of a shift, too.
MCOperands == 0..20 \cup {31, 32, 63, 64, 65, 85, 127, 128, 170, 240, 254, 255}

\* The numbers at the borders of the words, and some with bits everywhere, by
\* every divisor.
MCDividends == 0..4 \cup {7, 8, 15, 16, 17, 63, 64, 65, 85, 99, 100, 127, 128,
                         129, 170, 200, 240, 254, 255}

\* Around the powers of the bases and of a limb, in 12 bits.
MCNumbersPrinted == 0..20 \cup {31, 32, 63, 64, 65, 99, 100, 101, 255, 256, 257, 512,
                               640, 999, 1000, 1001, 1023, 1024, 2047, 2048, 4000, 4095}

\* All bits clear, all set, and every byte another one, behind "lat".
MCAddresses == {[i \in 1..20 |-> 0], [i \in 1..20 |-> 255],
                [i \in 1..20 |-> (i * 89) % 256]}
MCHrp == <<108, 97, 116>>

\* The laws of powers that the proofs take for granted.
ASSUME PowersAssumption ==
    \A x \in 2..16, j, k \in 0..3 : Digits!PowersMultiply(x, j, k)
=============================================================================
