------------------------------- MODULE Bech32 -------------------------------
(***************************************************************************)
(* The addresses of the network (src_common/bech32.c): encode writes the   *)
(* one that is displayed, decode reads one back.  A character behind the   *)
(* separator is the number of its symbol in charset, 32 if it has none.    *)
(***************************************************************************)
EXTENDS Integers, SequencesExt

CONSTANTS
    AddressBytes,   \* length of an address: 20
    Addresses,      \* sequences of bytes
    Hrp,            \* codes of the letters of the network: "lat"
    Errors,         \* what a wrong symbol differs by
    MaxErrors,      \* bound: wrong symbols in a text
    BitXor(_, _)    \* the operator ^ of C

AddressAssumption ==
    /\ \A a \in Addresses : a \in Seq(0..255) /\ Len(a) = AddressBytes
    /\ Hrp \in Seq(64..127)
    /\ MaxErrors \in Nat

VARIABLES
    address,     \* that is encoded
    text,        \* hrp, values, spelling
    wrong,       \* places of the wrong symbols
    decoded,     \* the buffer that decode fills
    stage        \* "BINARY", "ENCODED", "DECODED"

vars == <<address, text, wrong, decoded, stage>>

-----------------------------------------------------------------------------
(* convert_bits: digits of frombits bits become digits of tobits bits.     *)

\* One digit is taken in and all the whole ones are put out.
Take(s, value, frombits, tobits) ==
    LET acc == (s.acc * 2^frombits + value) % 2^(frombits + tobits - 1)
        n == (s.bits + frombits) \div tobits
        bits == (s.bits + frombits) % tobits
    IN  [acc |-> acc, bits |-> bits,
         out |-> s.out \o [k \in 1..n |->
                    (acc \div 2^(bits + (n - k) * tobits)) % 2^tobits]]

TakenBits(in, frombits, tobits) ==
    FoldLeft(LAMBDA s, value : Take(s, value, frombits, tobits),
             [acc |-> 0, bits |-> 0, out |-> <<>>], in)

\* The bits that are left, in the upper places of a digit.
LeftBits(s, tobits) == (s.acc * 2^(tobits - s.bits)) % 2^tobits

PaddedBits(in, frombits, tobits) ==
    LET s == TakenBits(in, frombits, tobits)
    IN  IF s.bits > 0 THEN Append(s.out, LeftBits(s, tobits)) ELSE s.out

\* Without padding, what is left must be less than a digit and zero.
UnpaddedOk(in, frombits, tobits) ==
    LET s == TakenBits(in, frombits, tobits)
    IN  s.bits < frombits /\ LeftBits(s, tobits) = 0

-----------------------------------------------------------------------------
(* The checksum.                                                           *)

ExpandHrp(hrp) ==
    [i \in 1 .. Len(hrp) |-> hrp[i] \div 32] \o <<0>>
        \o [i \in 1 .. Len(hrp) |-> hrp[i] % 32]

\* 0x3b6a57b2, 0x26508e6d, 0x1ea119fa, 0x3d4233dd and 0x2a1462b3.
Generators == <<996825010, 642813549, 513874426, 1027748829, 705979059>>

Generated(top) ==
    FoldLeft(LAMBDA x, i : IF (top \div 2^(i - 1)) % 2 = 1
                           THEN BitXor(x, Generators[i]) ELSE x,
             0, <<1, 2, 3, 4, 5>>)

\* Wrong on purpose: the highest bits are dropped and nothing comes for them.
PolymodStepDropping(chk, value) == BitXor((chk % 2^25) * 32, value)

PolymodStep(chk, value) ==
    BitXor(BitXor((chk % 2^25) * 32, value), Generated(chk \div 2^25))

\* A checksum has 30 bits.
Polymod(values) ==
    LET step == [chk \in 0 .. 2^30 - 1, value \in 0..31 |-> PolymodStep(chk, value)]
        chk[i \in 0 .. Len(values)] ==
            IF i = 0 THEN 1 ELSE step[chk[i - 1], values[i]]
    IN  chk[Len(values)]

CreateChecksum(hrp, values) ==
    LET mod == BitXor(Polymod(ExpandHrp(hrp) \o values \o <<0, 0, 0, 0, 0, 0>>), 1)
    IN  [i \in 1..6 |-> (mod \div 2^(5 * (6 - i))) % 32]

VerifyChecksum(hrp, values) == Polymod(ExpandHrp(hrp) \o values) = 1

-----------------------------------------------------------------------------
Encode ==
    LET values == PaddedBits(address, 8, 5) IN
    /\ stage = "BINARY"
    /\ text' = [hrp |-> Hrp, values |-> values \o CreateChecksum(Hrp, values),
                spelling |-> "LOWER"]
    /\ stage' = "ENCODED"
    /\ UNCHANGED <<address, wrong, decoded>>

\* On its way the text is spelled in another case, or symbols get wrong: by an
\* error of their bits, or a character that is no symbol.
Spell ==
    /\ stage = "ENCODED"
    /\ text.spelling = "LOWER"
    /\ wrong = {}
    /\ \E spelling \in {"UPPER", "MIXED"} :
          text' = [text EXCEPT !.spelling = spelling]
    /\ UNCHANGED <<address, wrong, decoded, stage>>

Spoil ==
    /\ stage = "ENCODED"
    /\ text.spelling = "LOWER"
    /\ Cardinality(wrong) < MaxErrors
    /\ \E i \in DOMAIN text.values :
          /\ \A j \in wrong : j < i
          /\ \/ \E e \in Errors :
                   text' = [text EXCEPT !.values[i] = BitXor(text.values[i], e)]
             \/ text' = [text EXCEPT !.values[i] = 32]
          /\ wrong' = wrong \cup {i}
    /\ UNCHANGED <<address, decoded, stage>>

\* One case, and nothing but symbols.
Readable(t) == t.spelling # "MIXED" /\ \A i \in DOMAIN t.values : t.values[i] < 32

\* decode: the address is filled in when everything is right.  The result tells
\* only whether the network is the expected one.
Decode ==
    LET data == SubSeq(text.values, 1, Len(text.values) - 6)
        conv == TakenBits(data, 5, 8).out
    IN  /\ stage = "ENCODED"
        /\ decoded' =
             IF /\ Readable(text)
                /\ VerifyChecksum(Hrp, text.values)
                /\ UnpaddedOk(data, 5, 8)
                /\ Len(conv) = AddressBytes
             THEN conv ELSE decoded
        /\ stage' = "DECODED"
        /\ UNCHANGED <<address, text, wrong>>

NoText == [hrp |-> Hrp, values |-> <<>>, spelling |-> "LOWER"]

Init ==
    /\ address \in Addresses
    /\ text = NoText
    /\ wrong = {}
    /\ decoded = <<>>
    /\ stage = "BINARY"

Next == Encode \/ Spell \/ Spoil \/ Decode

Spec == Init /\ [][Next]_vars

-----------------------------------------------------------------------------
(* Properties.                                                             *)

\* A text that was not spoiled is read as the address it was made of, in either
\* case: no bit is lost at the borders of the digits.
RoundTrip ==
    stage = "DECODED" /\ wrong = {} /\ text.spelling # "MIXED" =>
        decoded = address

\* A text with wrong symbols is read as no address: the user who compares, or a
\* program that reads, never takes it for another one.
ErrorsDetected ==
    stage = "DECODED" /\ (wrong # {} \/ text.spelling = "MIXED") => decoded = <<>>
=============================================================================
