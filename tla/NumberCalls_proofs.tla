------------------------- MODULE NumberCalls_proofs -------------------------
(***************************************************************************)
(* Proofs about the functions on numbers, for words of any width, buffers  *)
(* of any size and all numbers: the length in the header of a personal     *)
(* message, the digits of tostring256 and uint256_to_decimal, and from     *)
(* Words_proofs what uint256.c calculates.                                 *)
(***************************************************************************)
EXTENDS NumberCalls, Numerals_proofs

-----------------------------------------------------------------------------
(* The length in the header of a message.                                  *)

\* The digits down to that of 10^places: places of them are still missing.
Begun(places) ==
    LET size == Len(tmp) + places
    IN  /\ size >= 1
        /\ remainingLength < 10^size
        /\ size > 1 => 10^(size - 1) <= remainingLength
        /\ index = IF places = 0 THEN 0 ELSE 10^(places - 1)
        /\ \A i \in 1 .. Len(tmp) : tmp[i] = (remainingLength \div 10^(size - i)) % 10

HeaderInv ==
    /\ w \in Widths
    /\ remainingLength \in 0 .. 2^w - 1
    /\ tmp \in Seq(0..9)
    /\ loop \in {"POWER", "DIGIT", "HASHED"}
    /\ loop = "POWER" =>
            tmp = <<>> /\ \E k \in Nat : index = 10^k /\ (k > 0 => 10^k <= remainingLength)
    /\ loop # "POWER" => \E places \in Nat : Begun(places)
    /\ loop = "HASHED" => index = 0

LEMMA WidthPositive ==
    ASSUME PowerLaws, Header!HeaderAssumption, w \in Widths
    PROVE  2^w \in Nat \ {0}
<1>1. w \in Nat /\ 2 \in 2..16
  BY DEF Header!HeaderAssumption
<1> QED BY Zenon, <1>1, PowerPositive

LEMMA HeaderInit ==
    ASSUME PowerLaws, Header!HeaderAssumption, Header!Init
    PROVE  HeaderInv
<1>1. 10^0 = 1
  <2>1. 10 \in 2..16 /\ 0 \in Nat
    OBVIOUS
  <2> QED BY Zenon, <2>1, NextPower
<1>2. \E k \in Nat : index = 10^k /\ (k > 0 => 10^k <= remainingLength)
  <2>1. 0 \in Nat /\ index = 10^0
    BY <1>1 DEF Header!Init
  <2>2. ~(0 > 0)
    OBVIOUS
  <2> QED BY Zenon, <2>1, <2>2
<1> QED BY <1>2 DEF HeaderInv, Header!Init

LEMMA PowerUpInv ==
    ASSUME PowerLaws, Header!HeaderAssumption, HeaderInv, Header!PowerUp
    PROVE  HeaderInv'
<1>1. /\ loop = "POWER" /\ Header!HasDigit(index) /\ index' = Header!Wrapped(index * 10)
      /\ UNCHANGED <<w, remainingLength, tmp, loop>>
  BY DEF Header!PowerUp, Header!input, Header!base
<1>2. PICK k \in Nat : index = 10^k
  BY <1>1 DEF HeaderInv
<1>3. 10 \in 2..16 /\ k + 1 \in Nat
  OBVIOUS
<1>4. 10^k \in Nat \ {0} /\ 10^(k + 1) = 10^k * 10
  BY Zenon, <1>2, <1>3, PowerPositive, NextPower
<1>5. 2^w \in Nat \ {0}
  BY WidthPositive DEF HeaderInv
<1>6. /\ (index * 10) % 2^w <= remainingLength /\ ((index * 10) % 2^w) \div 10 = index
      /\ index' = (index * 10) % 2^w
  BY <1>1 DEF Header!HasDigit, Header!Wrapped, Header!base
<1>7. (index * 10) % 2^w = index * 10
  <2> DEFINE m == 2^w
  <2>1. m \in Nat \ {0} /\ index \in Nat /\ ((index * 10) % m) \div 10 = index
    BY <1>2, <1>4, <1>5, <1>6
  <2> HIDE DEF m
  <2>2. (index * 10) % m = index * 10
    BY <2>1, ProductWhole
  <2> QED BY <2>2 DEF m
<1>8. index' = 10^(k + 1) /\ 10^(k + 1) <= remainingLength'
  BY <1>1, <1>2, <1>4, <1>6, <1>7
<1>9. \E j \in Nat : index' = 10^j /\ (j > 0 => 10^j <= remainingLength')
  BY Zenon, <1>3, <1>8
<1> QED BY <1>1, <1>9 DEF HeaderInv

LEMMA PowerFoundInv ==
    ASSUME PowerLaws, Header!HeaderAssumption, HeaderInv, Header!PowerFound
    PROVE  HeaderInv'
<1>1. /\ loop = "POWER" /\ ~Header!HasDigit(index) /\ tmp = <<>> /\ loop' = "DIGIT"
      /\ UNCHANGED <<w, remainingLength, tmp, index>>
  BY DEF Header!PowerFound, Header!input, HeaderInv
<1>2. PICK k \in Nat : index = 10^k /\ (k > 0 => 10^k <= remainingLength)
  BY <1>1 DEF HeaderInv
<1>3. 10 \in 2..16 /\ k + 1 \in Nat
  OBVIOUS
<1>4. 10^k \in Nat \ {0} /\ 10^(k + 1) = 10^k * 10
  BY Zenon, <1>2, <1>3, PowerPositive, NextPower
<1>5. 2^w \in Nat \ {0} /\ remainingLength \in 0 .. 2^w - 1
  BY WidthPositive DEF HeaderInv
<1>6. remainingLength < 10^(k + 1)
  <2>1. ~((index * 10) % 2^w <= remainingLength /\ ((index * 10) % 2^w) \div 10 = index)
    BY <1>1 DEF Header!HasDigit, Header!Wrapped, Header!base
  <2> DEFINE m == 2^w
             x == 10^k
  <2>2. /\ m \in Nat \ {0} /\ remainingLength \in 0 .. m - 1 /\ x \in Nat
        /\ ~((x * 10) % m <= remainingLength /\ ((x * 10) % m) \div 10 = x)
    BY <1>2, <1>4, <1>5, <2>1
  <2>3. 10^(k + 1) = x * 10
    BY <1>4
  <2> HIDE DEF m, x
  <2>4. CASE x * 10 < m
    <3>1. (x * 10) % m = x * 10 /\ (x * 10) \div 10 = x
      BY <2>2, <2>4, SMT
    <3> QED BY <3>1, <2>2, <2>3
  <2> QED BY <2>2, <2>3, <2>4
<1>7. Begun(k + 1)'
  <2>1. tmp' = <<>> /\ Len(tmp') = 0 /\ index' = 10^k /\ (k + 1) - 1 = k /\ k + 1 # 0
    BY <1>1, <1>2
  <2>2. Len(tmp') + (k + 1) = k + 1
    BY <2>1
  <2>3. remainingLength' < 10^(k + 1) /\ (k + 1 > 1 => 10^k <= remainingLength')
    BY <1>1, <1>2, <1>6
  <2> QED BY <2>1, <2>2, <2>3 DEF Begun
<1>8. \E places \in Nat : Begun(places)'
  BY Zenon, <1>3, <1>7
<1> QED BY <1>1, <1>8 DEF HeaderInv

LEMMA WriteDigitInv ==
    ASSUME PowerLaws, Header!HeaderAssumption, HeaderInv, Header!WriteDigit
    PROVE  HeaderInv'
<1> DEFINE digit == (remainingLength \div index) % 10
           length == Len(tmp)
<1>1. /\ loop = "DIGIT" /\ index # 0 /\ tmp' = Append(tmp, digit) /\ index' = index \div 10
      /\ UNCHANGED <<w, remainingLength, loop>> /\ tmp \in Seq(0..9) /\ length \in Nat
  BY DEF Header!WriteDigit, Header!input, Header!base, Header!DigitAt, HeaderInv
<1>2. PICK places \in Nat : Begun(places)
  BY <1>1 DEF HeaderInv
<1>3. places # 0 /\ places - 1 \in Nat /\ index = 10^(places - 1) /\ 10 \in 2..16
  BY <1>1, <1>2 DEF Begun
<1>4. remainingLength \in Nat /\ index \in Nat \ {0}
  <2>1. index \in Nat \ {0}
    BY <1>3, PowerPositive
  <2>2. 2^w \in Nat
    BY WidthPositive DEF HeaderInv
  <2> QED BY <2>1, <2>2 DEF HeaderInv
<1>5. digit \in 0..9
  <2>1. remainingLength \div index \in Nat
    BY <1>4, WithRemainder
  <2> QED BY <2>1
<1>6. index' = IF places - 1 = 0 THEN 0 ELSE 10^((places - 1) - 1)
  <2>1. CASE places - 1 = 0
    <3>1. 10^0 = 1 /\ 0 \in Nat
      BY <1>3, NextPower
    <3> QED BY <3>1, <2>1, <1>1, <1>3
  <2>2. CASE places - 1 # 0
    <3>1. places - 2 \in Nat /\ (places - 2) + 1 = places - 1 /\ (places - 1) - 1 = places - 2
      BY <1>3, <2>2
    <3>2. 10^(places - 2) \in Nat \ {0} /\ 10^((places - 2) + 1) = 10^(places - 2) * 10
      BY Zenon, <3>1, <1>3, PowerPositive, NextPower
    <3>3. index = 10^(places - 2) * 10
      BY <3>1, <3>2, <1>3
    <3>4. index \div 10 = 10^(places - 2)
      <4> DEFINE x == 10^(places - 2)
      <4>1. x \in Nat /\ index = x * 10
        BY <3>2, <3>3
      <4> HIDE DEF x
      <4>2. index \div 10 = x
        BY <4>1
      <4> QED BY <4>2 DEF x
    <3> QED BY <3>1, <3>4, <2>2, <1>1
  <2> QED BY <2>1, <2>2
<1> HIDE DEF digit
<1>7. /\ tmp' \in Seq(0..9) /\ Len(tmp') = length + 1 /\ tmp'[length + 1] = digit
      /\ \A i \in 1..length : tmp'[i] = tmp[i]
  BY <1>1, <1>5
<1>8. Begun(places - 1)'
  <2> DEFINE size == length + places
  <2>1. Len(tmp') + (places - 1) = size /\ size \in Nat /\ size - (length + 1) = places - 1
    BY <1>1, <1>3, <1>7
  <2>2. /\ size >= 1 /\ remainingLength < 10^size
        /\ size > 1 => 10^(size - 1) <= remainingLength
        /\ \A i \in 1..length : tmp[i] = (remainingLength \div 10^(size - i)) % 10
    BY <1>2 DEF Begun
  <2>3. tmp'[length + 1] = (remainingLength \div 10^(size - (length + 1))) % 10
    BY <1>3, <1>7, <2>1 DEF digit
  <2> HIDE DEF size
  <2>4. \A i \in 1 .. length + 1 : tmp'[i] = (remainingLength \div 10^(size - i)) % 10
    <3> SUFFICES ASSUME NEW i \in 1 .. length + 1
                 PROVE  tmp'[i] = (remainingLength \div 10^(size - i)) % 10
      OBVIOUS
    <3>1. CASE i = length + 1
      BY <3>1, <2>3
    <3>2. CASE i \in 1..length
      <4>1. tmp'[i] = tmp[i]
        BY <3>2, <1>7
      <4> QED BY <4>1, <3>2, <2>2
    <3> QED BY <3>1, <3>2, <1>1
  <2> HIDE DEF length
  <2> QED BY ONLY <2>1, <2>2, <2>4, <1>1, <1>6, <1>7 DEF Begun
<1>9. \E p \in Nat : Begun(p)'
  BY Zenon, <1>3, <1>8
<1> QED BY <1>1, <1>7, <1>9 DEF HeaderInv

LEMMA HeaderStep ==
    ASSUME PowerLaws, Header!HeaderAssumption, HeaderInv, [Header!Next]_(Header!vars)
    PROVE  HeaderInv'
<1>1. CASE Header!PowerUp
  BY <1>1, PowerUpInv
<1>2. CASE Header!PowerFound
  BY <1>2, PowerFoundInv
<1>3. CASE Header!WriteDigit
  BY <1>3, WriteDigitInv
<1>4. CASE Header!Hash
  BY <1>4 DEF Header!Hash, Header!input, HeaderInv, Begun
<1>5. CASE UNCHANGED Header!vars
  BY <1>5 DEF Header!vars, Header!input, HeaderInv, Begun
<1> QED BY <1>1, <1>2, <1>3, <1>4, <1>5 DEF Header!Next

LEMMA HeaderEnd ==
    ASSUME PowerLaws, Header!HeaderAssumption, HeaderInv
    PROVE  Header!HeaderExact
<1> DEFINE length == Len(tmp)
<1>1. SUFFICES ASSUME loop = "HASHED"
               PROVE  /\ Header!InPlace(tmp, 10, remainingLength)
                      /\ length > 1 => tmp[1] # 0
                      /\ length < Header!TmpSize
  BY DEF Header!HeaderExact, Header!base
<1>2. PICK places \in Nat : Begun(places)
  BY <1>1 DEF HeaderInv
<1>3. 10 \in 2..16 /\ length \in Nat /\ remainingLength \in Nat
  <2>1. 2^w \in Nat
    BY WidthPositive DEF HeaderInv
  <2> QED BY <2>1 DEF HeaderInv
<1>4. places = 0
  <2>1. SUFFICES ASSUME places # 0 PROVE FALSE
    OBVIOUS
  <2>2. places - 1 \in Nat /\ index = 10^(places - 1) /\ index = 0
    BY <2>1, <1>1, <1>2 DEF Begun, HeaderInv
  <2>3. 10^(places - 1) \in Nat \ {0}
    BY Zenon, <2>2, <1>3, PowerPositive
  <2> QED BY <2>2, <2>3
<1>5. /\ length >= 1 /\ remainingLength < 10^length /\ (length > 1 => 10^(length - 1) <= remainingLength)
      /\ \A i \in 1..length : tmp[i] = (remainingLength \div 10^(length - i)) % 10
  <2>1. length + 0 = length
    BY <1>3
  <2> QED BY <1>2, <1>4, <2>1 DEF Begun
<1>6. Header!InPlace(tmp, 10, remainingLength)
  BY <1>5 DEF Header!InPlace
<1>7. ASSUME length > 1
      PROVE  tmp[1] # 0
  <2> DEFINE p == 10^(length - 1)
  <2>1. length - 1 \in Nat /\ (length - 1) + 1 = length
    BY <1>3, <1>7
  <2>2. p \in Nat \ {0} /\ 10^((length - 1) + 1) = p * 10
    BY Zenon, <1>3, <2>1, PowerPositive, NextPower
  <2>3. p <= remainingLength /\ remainingLength < p * 10 /\ tmp[1] = (remainingLength \div p) % 10
    BY <1>5, <1>7, <2>1, <2>2
  <2> HIDE DEF p
  <2>4. remainingLength \div p \in 1..9
    BY <1>3, <2>2, <2>3, QuotientBetween
  <2> QED BY <2>3, <2>4
<1>8. length < Header!TmpSize
  <2> DEFINE size == Header!TmpSize
  <2>1. size \in 2..11 /\ Header!Holds(size, w)
    <3>1. \E s \in 2..11 : Header!Holds(s, w)
      BY DEF Header!HeaderAssumption, HeaderInv
    <3> QED BY Zenon, <3>1 DEF Header!TmpSize
  <2> HIDE DEF size
  <2>2. remainingLength < 10^(size - 1)
    <3>1. 2^w - 1 < 10^(size - 1) /\ remainingLength \in 0 .. 2^w - 1 /\ 2^w \in Nat
      BY <2>1, WidthPositive DEF Header!Holds, HeaderInv
    <3>2. 10^(size - 1) \in Nat
      BY <2>1, <1>3, PowerPositive
    <3> QED BY <3>1, <3>2
  <2>3. CASE length > 1
    <3>1. SUFFICES ASSUME size - 1 <= length - 1 PROVE FALSE
      BY <1>3, <2>1 DEF size
    <3>2. length - 1 \in Nat /\ size - 1 \in Nat
      BY <1>3, <2>1, <2>3
    <3>3. 10^(size - 1) <= 10^(length - 1)
      BY <1>3, <3>1, <3>2, PowersOrdered
    <3>4. 10^(size - 1) \in Nat /\ 10^(length - 1) \in Nat
      BY <1>3, <3>2, PowerPositive
    <3> QED BY <1>3, <1>5, <2>2, <2>3, <3>3, <3>4
  <2>4. CASE length = 1
    BY <2>1, <2>4 DEF size
  <2>5. length > 1 \/ length = 1
    <3>1. length \in Nat /\ length >= 1
      BY Zenon, <1>3, <1>5
    <3> HIDE DEF length
    <3> QED BY <3>1
  <2> QED BY <2>3, <2>4, <2>5
<1> QED BY <1>6, <1>7, <1>8

\* Such digits are read as the length.
LEMMA HeaderRead ==
    ASSUME PowerLaws, Header!HeaderAssumption, HeaderInv
    PROVE  Header!ReadBack
<1>1. SUFFICES ASSUME loop = "HASHED" PROVE Header!ValueIn(tmp, 10) = remainingLength
  BY DEF Header!ReadBack, Header!base
<1>2. InPlace(tmp, 10, remainingLength)
  BY <1>1, HeaderEnd DEF Header!HeaderExact, Header!InPlace, Header!base, InPlace
<1>3. remainingLength \in Nat
  BY WidthPositive DEF HeaderInv
<1>4. tmp \in Seq(Nat)
  BY DEF HeaderInv
<1>5. ValueIn(tmp, 10) = remainingLength
  BY <1>2, <1>3, <1>4, ReadInPlace
<1> QED BY <1>5 DEF ValueIn, Header!ValueIn

-----------------------------------------------------------------------------
(* The limbs of uint256_to_decimal.                                        *)

\* What the place of limb i counts for, and the place above the highest limb.
Place(i) == 2^(LimbBits * (LimbCount - i))

LEMMA Places ==
    ASSUME PowerLaws, Digits!DigitsAssumption
    PROVE  /\ \A i \in 0..LimbCount : Place(i) \in Nat \ {0}
           /\ \A i \in 1..LimbCount : Place(i - 1) = Place(i) * Digits!Limb
           /\ Place(LimbCount) = 1
           /\ Digits!Limb \in Nat \ {0}
           /\ LimbCount \in Nat \ {0}
<1>1. LimbBits \in Nat /\ LimbCount \in Nat \ {0} /\ 2 \in 2..16
  BY DEF Digits!DigitsAssumption
<1>2. \A i \in 0..LimbCount : LimbBits * (LimbCount - i) \in Nat
  BY <1>1, SMT
<1>3. \A i \in 0..LimbCount : Place(i) \in Nat \ {0}
  <2> SUFFICES ASSUME NEW i \in 0..LimbCount PROVE Place(i) \in Nat \ {0}
    OBVIOUS
  <2>1. LimbBits * (LimbCount - i) \in Nat
    BY <1>2
  <2> QED BY Zenon, <1>1, <2>1, PowerPositive DEF Place
<1>4. \A i \in 1..LimbCount : Place(i - 1) = Place(i) * Digits!Limb
  <2> SUFFICES ASSUME NEW i \in 1..LimbCount PROVE Place(i - 1) = Place(i) * Digits!Limb
    OBVIOUS
  <2> DEFINE j == LimbBits * (LimbCount - i)
  <2>1. i \in 0..LimbCount /\ j \in Nat
    BY <1>2
  <2>2. LimbBits * (LimbCount - (i - 1)) = j + LimbBits
    BY <1>1, SMT
  <2>3. 2^(j + LimbBits) = 2^j * 2^LimbBits
    BY Zenon, <1>1, <2>1, PowerLaw
  <2> QED BY Zenon, <2>2, <2>3 DEF Place, Digits!Limb
<1>5. Place(LimbCount) = 1
  <2>1. LimbBits * (LimbCount - LimbCount) = 0
    BY <1>1, SMT
  <2>2. 2^0 = 1
    BY Zenon, <1>1, NextPower
  <2> QED BY Zenon, <2>1, <2>2 DEF Place
<1>6. Digits!Limb \in Nat \ {0}
  BY Zenon, <1>1, PowerPositive DEF Digits!Limb
<1> QED BY <1>1, <1>3, <1>4, <1>5, <1>6

\* Limb i and the limbs above it.
LEMMA LimbPlaced ==
    ASSUME PowerLaws, Digits!DigitsAssumption, NEW x \in Nat, n = Digits!LimbsOf(x), NEW i \in 1..LimbCount
    PROVE  /\ x \div Place(i) \in Nat
           /\ n[i] = (x \div Place(i)) % Digits!Limb
           /\ x \div Place(i - 1) = (x \div Place(i)) \div Digits!Limb
<1>1. i \in 0..LimbCount /\ Place(i) \in Nat \ {0} /\ Digits!Limb \in Nat \ {0}
      /\ Place(i - 1) = Place(i) * Digits!Limb
  <2>1. i \in 0..LimbCount
    BY Places
  <2> QED BY <2>1, Places
<1>2. n[i] = (x \div Place(i)) % Digits!Limb
  BY DEF Digits!LimbsOf, Place
<1>3. (x \div Place(i)) \div Digits!Limb = x \div (Place(i) * Digits!Limb)
  BY <1>1, QuotientOfQuotient
<1>4. x \div Place(i) \in Nat
  BY <1>1, WithRemainder
<1> QED BY <1>1, <1>2, <1>3, <1>4

\* The carry into a limb is the remainder of what is above it.
LEMMA CarriesAre ==
    ASSUME PowerLaws, Digits!DigitsAssumption, NEW x \in Nat, x < Place(0), n = Digits!LimbsOf(x)
    PROVE  \A i \in 1 .. LimbCount + 1 : Digits!Carries[i] = (x \div Place(i - 1)) % 10
<1> DEFINE G == [i \in 1 .. LimbCount + 1 |-> (x \div Place(i - 1)) % 10]
           Carry(f) == [i \in 1 .. LimbCount + 1 |->
                          IF i = 1 THEN 0 ELSE Digits!WithCarry(f[i - 1], n[i - 1]) % 10]
<1>0. LimbCount \in Nat \ {0}
  BY Places
<1>1. G[1] = 0
  <2>1. Place(0) \in Nat \ {0}
    BY <1>0, Places
  <2>2. x \div Place(0) = 0
    <3> DEFINE p == Place(0)
    <3>1. p \in Nat \ {0} /\ x < p
      BY <2>1
    <3> HIDE DEF p
    <3>2. x \div p = 0
      BY <3>1
    <3> QED BY <3>2 DEF p
  <2>3. 1 \in 1 .. LimbCount + 1 /\ 1 - 1 = 0
    BY <1>0
  <2> QED BY <2>2, <2>3
<1>2. \A i \in 2 .. LimbCount + 1 : G[i] = Digits!WithCarry(G[i - 1], n[i - 1]) % 10
  <2> SUFFICES ASSUME NEW i \in 2 .. LimbCount + 1
               PROVE  G[i] = Digits!WithCarry(G[i - 1], n[i - 1]) % 10
    OBVIOUS
  <2> DEFINE k == i - 1
             y == x \div Place(k)
  <2>1. k \in 1..LimbCount /\ k \in 1 .. LimbCount + 1 /\ i \in 1 .. LimbCount + 1
    BY <1>0
  <2>2. y \in Nat /\ n[k] = y % Digits!Limb /\ x \div Place(k - 1) = y \div Digits!Limb /\ Digits!Limb \in Nat \ {0}
    BY <2>1, LimbPlaced, Places
  <2>3. G[i] = y % 10 /\ G[k] = (y \div Digits!Limb) % 10
    BY <2>1, <2>2
  <2> HIDE DEF G, k, y
  <2>4. (((y \div Digits!Limb) % 10) * Digits!Limb + (y % Digits!Limb)) % 10 = y % 10
    BY <2>2, LimbDivided
  <2>5. Digits!WithCarry(G[k], n[k]) % 10 = G[i]
    BY <2>2, <2>3, <2>4 DEF Digits!WithCarry
  <2> QED BY <2>5 DEF k
<1>3. G = Carry(G)
  <2>1. \A i \in 1 .. LimbCount + 1 : i = 1 \/ i \in 2 .. LimbCount + 1
    BY <1>0
  <2>2. \A i \in 1 .. LimbCount + 1 :
            G[i] = IF i = 1 THEN 0 ELSE Digits!WithCarry(G[i - 1], n[i - 1]) % 10
    BY <1>1, <1>2, <2>1
  <2>3. G = [i \in 1 .. LimbCount + 1 |-> G[i]]
    OBVIOUS
  <2> HIDE DEF G
  <2> QED BY <2>2, <2>3
<1>4. Digits!Carries = Carry(Digits!Carries)
  <2> HIDE DEF G
  <2> QED BY <1>3 DEF Digits!Carries
<1> HIDE DEF G
<1>5. \A i \in 1 .. LimbCount + 1 : Digits!Carries[i] = G[i]
  <2> DEFINE Bad == {i \in 1 .. LimbCount + 1 : Digits!Carries[i] # G[i]}
  <2>1. SUFFICES ASSUME Bad # {} PROVE FALSE
    OBVIOUS
  <2>2. PICK m \in Bad : \A i \in Bad : m <= i
    <3>1. Bad \in SUBSET Nat
      BY <1>0
    <3> HIDE DEF Bad
    <3> QED BY <3>1, <2>1, Least
  <2>3. m \in 1 .. LimbCount + 1 /\ Digits!Carries[m] # G[m]
    OBVIOUS
  <2>4. CASE m = 1
    <3>1. Digits!Carries[1] = 0
      BY <2>3, <2>4, <1>4
    <3> QED BY <3>1, <1>1, <2>3, <2>4
  <2>5. CASE m # 1
    <3>1. m - 1 \in 1 .. LimbCount + 1 /\ m \in 2 .. LimbCount + 1 /\ ~(m <= m - 1)
      BY <2>3, <2>5, <1>0
    <3>2. Digits!Carries[m - 1] = G[m - 1]
      BY <2>2, <3>1
    <3>3. Digits!Carries[m] = Digits!WithCarry(Digits!Carries[m - 1], n[m - 1]) % 10
      BY <2>3, <2>5, <1>4
    <3>4. G[m] = Digits!WithCarry(G[m - 1], n[m - 1]) % 10
      BY <3>1, <1>2
    <3> QED BY <2>3, <3>2, <3>3, <3>4
  <2> QED BY <2>4, <2>5
<1> QED BY <1>5 DEF G

\* The limbs are zero when the number is.
LEMMA ZeroLimbs ==
    ASSUME PowerLaws, Digits!DigitsAssumption, NEW x \in Nat, x < Place(0), n = Digits!LimbsOf(x)
    PROVE  Digits!AllZeroes <=> x = 0
<1>0. LimbCount \in Nat \ {0} /\ Place(0) \in Nat \ {0} /\ Digits!Limb \in Nat \ {0}
  BY Places
<1>1. ASSUME x = 0
      PROVE  Digits!AllZeroes
  <2> SUFFICES ASSUME NEW i \in 1..LimbCount PROVE n[i] = 0
    BY DEF Digits!AllZeroes
  <2>1. n[i] = (x \div Place(i)) % Digits!Limb /\ Place(i) \in Nat \ {0}
    <3>1. i \in 0..LimbCount
      BY <1>0
    <3> QED BY <3>1, LimbPlaced, Places
  <2>2. x \div Place(i) = 0
    <3> DEFINE p == Place(i)
    <3>1. p \in Nat \ {0}
      BY <2>1
    <3> HIDE DEF p
    <3>2. x \div p = 0
      BY <3>1, <1>1
    <3> QED BY <3>2 DEF p
  <2>3. 0 % Digits!Limb = 0
    BY <1>0
  <2> QED BY <2>1, <2>2, <2>3
<1>2. ASSUME Digits!AllZeroes, x # 0
      PROVE  FALSE
  <2> DEFINE Bad == {i \in 0..LimbCount : x \div Place(i) # 0}
  <2>1. x \div Place(LimbCount) = x
    BY Places
  <2>2. LimbCount \in Bad
    BY <2>1, <1>0, <1>2
  <2>3. PICK m \in Bad : \A i \in Bad : m <= i
    <3>1. Bad \in SUBSET Nat /\ Bad # {}
      BY <1>0, <2>2
    <3> HIDE DEF Bad
    <3> QED BY <3>1, Least
  <2>4. m \in 0..LimbCount /\ x \div Place(m) # 0
    OBVIOUS
  <2>5. m # 0
    <3> DEFINE p == Place(0)
    <3>1. p \in Nat \ {0} /\ x < p
      BY <1>0
    <3>2. SUFFICES ASSUME m = 0 PROVE FALSE
      OBVIOUS
    <3>3. x \div p # 0
      BY <2>4, <3>2
    <3> HIDE DEF p
    <3> QED BY <3>1, <3>3
  <2>6. m \in 1..LimbCount /\ m - 1 \in 0..LimbCount /\ ~(m <= m - 1)
    BY <2>4, <2>5, <1>0
  <2>7. x \div Place(m - 1) = 0
    BY <2>3, <2>6
  <2> DEFINE y == x \div Place(m)
  <2>8. y \in Nat /\ y % Digits!Limb = 0 /\ y \div Digits!Limb = 0
    <3>1. n[m] = 0
      BY <2>6, <1>2 DEF Digits!AllZeroes
    <3> QED BY <3>1, <2>6, <2>7, LimbPlaced
  <2>9. y # 0
    BY <2>4
  <2> HIDE DEF y
  <2> QED BY <2>8, <2>9, <1>0, WithRemainder
<1> QED BY <1>1, <1>2

\* What the loop over the limbs makes of the number.
LEMMA LimbsDivided ==
    ASSUME PowerLaws, Digits!DigitsAssumption, NEW x \in Nat, x < Place(0), n = Digits!LimbsOf(x)
    PROVE  /\ [i \in 1..LimbCount |-> Digits!WithCarry(Digits!Carries[i], n[i]) \div 10] = Digits!LimbsOf(x \div 10)
           /\ Digits!Carries[LimbCount + 1] = x % 10
<1>0. LimbCount \in Nat \ {0} /\ Digits!Limb \in Nat \ {0}
  BY Places
<1>1. ASSUME NEW i \in 1..LimbCount
      PROVE  Digits!WithCarry(Digits!Carries[i], n[i]) \div 10 = ((x \div 10) \div Place(i)) % Digits!Limb
  <2> DEFINE y == x \div Place(i)
  <2>1. i \in 0..LimbCount /\ i \in 1 .. LimbCount + 1
    BY <1>0
  <2>2. Place(i) \in Nat \ {0}
    BY <2>1, Places
  <2>3. y \in Nat /\ n[i] = y % Digits!Limb /\ Digits!Carries[i] = (y \div Digits!Limb) % 10
    BY <2>1, LimbPlaced, CarriesAre
  <2>4. y \div 10 = (x \div 10) \div Place(i)
    <3> DEFINE p == Place(i)
    <3>1. p \in Nat /\ p > 0
      BY <2>2
    <3> HIDE DEF p
    <3>2. (x \div p) \div 10 = x \div (p * 10) /\ (x \div 10) \div p = x \div (10 * p)
      BY <3>1, QuotientOfQuotient
    <3>3. p * 10 = 10 * p
      BY <3>1
    <3> QED BY <3>2, <3>3 DEF p
  <2> HIDE DEF y
  <2>5. (((y \div Digits!Limb) % 10) * Digits!Limb + (y % Digits!Limb)) \div 10 = (y \div 10) % Digits!Limb
    BY <2>3, <1>0, LimbDivided
  <2> QED BY <2>3, <2>4, <2>5 DEF Digits!WithCarry
<1>2. Digits!Carries[LimbCount + 1] = x % 10
  <2>1. LimbCount + 1 \in 1 .. LimbCount + 1 /\ (LimbCount + 1) - 1 = LimbCount
    BY <1>0
  <2>2. Digits!Carries[LimbCount + 1] = (x \div Place(LimbCount)) % 10
    BY <2>1, CarriesAre
  <2>3. x \div Place(LimbCount) = x
    BY Places
  <2> QED BY <2>2, <2>3
<1> QED BY <1>1, <1>2 DEF Digits!LimbsOf, Place
-----------------------------------------------------------------------------
(* The two loops.                                                          *)

\* tostring256 has the digits from the units up to those of base^Len(out).
DigitsFound ==
    IF base \notin 2..16 THEN out = <<>>
    ELSE /\ rDiv = value \div base^Len(out)
         /\ \A i \in 1 .. Len(out) : out[i] = (value \div base^(i - 1)) % base
         /\ Len(out) > 0 => base^Len(out) <= value

\* uint256_to_decimal has them the other way round, and the rest in limbs.
LimbsLeft ==
    /\ base = 10
    /\ n = Digits!LimbsOf(value \div 10^Len(out))
    /\ \A i \in 1 .. Len(out) : out[i] = (value \div 10^(Len(out) - i)) % 10
    /\ Len(out) > 0 => 10^(Len(out) - 1) <= value

PrintInv ==
    /\ function \in {"tostring256", "uint256_to_decimal"}
    /\ value \in Numbers
    /\ outLength \in OutLengths
    /\ result = "RUNNING" =>
            /\ out \in Seq(0..15)
            /\ Len(out) <= outLength
            /\ function = "tostring256" => DigitsFound
            /\ function = "uint256_to_decimal" => LimbsLeft
    /\ result = "TRUE" => base \in 2..16
    /\ Digits!PrintedExact

LEMMA ArgumentsTyped ==
    ASSUME PowerLaws, Digits!DigitsAssumption, value \in Numbers, outLength \in OutLengths
    PROVE  value \in Nat /\ value < Place(0) /\ outLength \in Nat \ {0}
<1>1. LimbBits * (LimbCount - 0) = LimbBits * LimbCount
  BY SMT DEF Digits!DigitsAssumption
<1>2. 2^(LimbBits * LimbCount) = Place(0)
  BY Zenon, <1>1 DEF Place
<1>3. value \in 0 .. Place(0) - 1
  BY <1>2 DEF Digits!DigitsAssumption
<1>4. Place(0) \in Nat
  <2>1. 0 \in 0..LimbCount
    BY DEF Digits!DigitsAssumption
  <2> QED BY <2>1, Places
<1> QED BY <1>3, <1>4 DEF Digits!DigitsAssumption

LEMMA PrintInit ==
    ASSUME PowerLaws, Digits!DigitsAssumption, Digits!Init
    PROVE  PrintInv
<1> USE DEF Digits!Init
<1>1. value \in Nat
  BY ArgumentsTyped
<1>2. value = value \div 1
  BY <1>1
<1>3. Len(out) = 0 /\ out \in Seq(0..15) /\ \A i \in 1 .. Len(out) : FALSE
  OBVIOUS
<1>4. DigitsFound
  <2>1. CASE base \in 2..16
    <3>1. base^0 = 1
      BY Zenon, <2>1, NextPower, 0 \in Nat
    <3>2. rDiv = value \div base^Len(out)
      BY <3>1, <1>2, <1>3
    <3> QED BY <2>1, <3>2, <1>3 DEF DigitsFound
  <2> QED BY <2>1 DEF DigitsFound
<1>5. function = "uint256_to_decimal" => LimbsLeft
  <2>1. 10^0 = 1
    <3>1. 10 \in 2..16 /\ 0 \in Nat
      OBVIOUS
    <3> QED BY Zenon, <3>1, NextPower
  <2>2. n = Digits!LimbsOf(value \div 10^Len(out))
    BY <2>1, <1>2, <1>3
  <2> QED BY <2>2, <1>3 DEF LimbsLeft
<1>6. Digits!PrintedExact
  BY DEF Digits!PrintedExact, Digits!NumberPrinted, Digits!RefusedForRoom
<1>7. Len(out) <= outLength
  BY <1>3, ArgumentsTyped
<1> QED BY <1>3, <1>4, <1>5, <1>6, <1>7 DEF PrintInv

LEMMA BadBaseInv ==
    ASSUME PrintInv, Digits!BadBase
    PROVE  PrintInv'
BY DEF PrintInv, Digits!BadBase, Digits!InBase, Digits!Return, Digits!arguments, Digits!PrintedExact, Digits!NumberPrinted, Digits!RefusedForRoom

LEMMA NoRoomInv ==
    ASSUME PowerLaws, Digits!DigitsAssumption, PrintInv, Digits!NoRoom
    PROVE  PrintInv'
<1>1. /\ base \in 2..16 /\ ~(Len(out) <= outLength - 1) /\ result' = "FALSE" /\ DigitsFound
      /\ UNCHANGED <<function, value, base, outLength>> /\ out \in Seq(0..15) /\ Len(out) <= outLength
      /\ outLength \in Nat \ {0} /\ value \in Nat
  BY ArgumentsTyped DEF PrintInv, Digits!NoRoom, Digits!InBase, Digits!Full, Digits!Return, Digits!arguments
<1>2. Len(out) = outLength
  <2> DEFINE size == Len(out)
  <2>1. size \in Nat /\ ~(size <= outLength - 1) /\ size <= outLength
    BY <1>1
  <2> HIDE DEF size
  <2>2. size = outLength
    BY <2>1, <1>1
  <2> QED BY <2>2 DEF size
<1>3. base^outLength <= value
  <2>1. outLength > 0
    BY <1>1
  <2> QED BY <1>1, <1>2, <2>1 DEF DigitsFound
<1>4. value >= base^(outLength - 1)
  <2>1. outLength - 1 \in Nat /\ outLength - 1 <= outLength
    BY <1>1
  <2>2. base^(outLength - 1) <= base^outLength
    BY <1>1, <2>1, PowersOrdered
  <2>3. base^(outLength - 1) \in Nat /\ base^outLength \in Nat
    BY <1>1, <2>1, PowerPositive
  <2> QED BY <2>2, <2>3, <1>3, <1>1
<1>5. Digits!PrintedExact'
  BY <1>1, <1>4 DEF Digits!PrintedExact, Digits!NumberPrinted, Digits!RefusedForRoom
<1> QED BY <1>1, <1>5 DEF PrintInv

LEMMA NextDigitInv ==
    ASSUME PowerLaws, Digits!DigitsAssumption, PrintInv, Digits!NextDigit
    PROVE  PrintInv'
<1> DEFINE size == Len(out)
           power == base^size
           digit == rDiv % base
           written == Append(out, digit)
           left == rDiv \div base
<1>1. /\ function = "tostring256" /\ base \in 2..16 /\ ~(size > outLength - 1) /\ DigitsFound
      /\ out \in Seq(0..15) /\ value \in Nat /\ outLength \in Nat \ {0} /\ size \in Nat
      /\ UNCHANGED <<function, value, base, outLength>>
      /\ IF left = 0 THEN out' = Digits!Reverse(written) /\ result' = "TRUE"
         ELSE out' = written /\ result' = "RUNNING"
      /\ rDiv' = left
  <2>1. /\ function = "tostring256" /\ base \in 2..16 /\ ~(size > outLength - 1) /\ DigitsFound
        /\ out \in Seq(0..15) /\ value \in Nat /\ outLength \in Nat \ {0} /\ size \in Nat
    BY ArgumentsTyped DEF PrintInv, Digits!NextDigit, Digits!InBase, Digits!Full
  <2>2. /\ UNCHANGED <<function, value, base, outLength>>
        /\ IF left = 0 THEN out' = Digits!Reverse(written) /\ result' = "TRUE"
           ELSE out' = written /\ UNCHANGED result
        /\ rDiv' = left /\ result = "RUNNING"
    BY DEF Digits!NextDigit, Digits!InBase, Digits!LastDigit, Digits!arguments
  <2> QED BY <2>1, <2>2
<1>2. power \in Nat \ {0} /\ base^(size + 1) = power * base
  BY Zenon, <1>1, PowerPositive, NextPower
<1>3. /\ rDiv = value \div power /\ rDiv \in Nat
      /\ \A i \in 1..size : out[i] = (value \div base^(i - 1)) % base
      /\ size > 0 => power <= value
  <2>1. /\ rDiv = value \div power
        /\ \A i \in 1..size : out[i] = (value \div base^(i - 1)) % base
        /\ size > 0 => power <= value
    BY <1>1 DEF DigitsFound
  <2>2. value \div power \in Nat
    <3>1. power \in Nat /\ power > 0 /\ value \in Nat
      BY <1>1, <1>2
    <3> HIDE DEF power
    <3> QED BY <3>1, WithRemainder
  <2> QED BY <2>1, <2>2
<1>4. digit \in 0..15 /\ digit = (value \div power) % base
  <2> HIDE DEF power
  <2>1. base \in 2..16 /\ rDiv \in Nat /\ rDiv = value \div power
    BY <1>1, <1>3
  <2>2. digit \in 0 .. base - 1
    BY <2>1
  <2> HIDE DEF digit
  <2>3. digit \in 0..15
    BY <2>1, <2>2
  <2> QED BY <2>1, <2>3 DEF digit
<1>5. left = value \div base^(size + 1)
  <2>1. (value \div power) \div base = value \div (power * base)
    <3> HIDE DEF power
    <3>1. power \in Nat /\ power > 0 /\ base \in Nat /\ base > 0 /\ value \in Nat
      BY <1>1, <1>2
    <3> QED BY <3>1, QuotientOfQuotient
  <2> QED BY <2>1, <1>2, <1>3
<1>6. base^(size + 1) \in Nat \ {0}
  <2>1. size + 1 \in Nat
    BY <1>1
  <2> QED BY Zenon, <2>1, <1>1, PowerPositive
<1>7. /\ written \in Seq(0..15) /\ Len(written) = size + 1 /\ written[size + 1] = digit
      /\ \A i \in 1..size : written[i] = out[i]
  <2> HIDE DEF digit
  <2> QED BY <1>1, <1>4
<1>8. \A i \in 1 .. size + 1 : written[i] = (value \div base^(i - 1)) % base
  <2> SUFFICES ASSUME NEW i \in 1 .. size + 1
               PROVE  written[i] = (value \div base^(i - 1)) % base
    OBVIOUS
  <2>1. CASE i = size + 1
    <3>1. i - 1 = size
      BY <2>1, <1>1
    <3> QED BY <3>1, <2>1, <1>4, <1>7
  <2>2. CASE i \in 1..size
    BY <2>2, <1>3, <1>7
  <2> QED BY <2>1, <2>2, <1>1
<1>9. size + 1 <= outLength
  BY <1>1
<1>10. CASE left = 0
  <2>1. out' = Digits!Reverse(written) /\ result' = "TRUE"
    BY <1>1, <1>10
  <2> HIDE DEF written, left
  <2>2. /\ out' \in Seq(0..15) /\ Len(out') = size + 1
        /\ \A i \in 1 .. size + 1 : out'[i] = written[(size + 1) - i + 1]
    <3>1. out' = [i \in 1 .. size + 1 |-> written[(size + 1) - i + 1]]
      BY <2>1, <1>7 DEF Digits!Reverse
    <3>2. \A i \in 1 .. size + 1 : written[(size + 1) - i + 1] \in 0..15
      <4>1. \A i \in 1 .. size + 1 : (size + 1) - i + 1 \in 1 .. size + 1
        BY <1>1
      <4> QED BY <4>1, <1>7
    <3>3. size + 1 \in Nat
      BY <1>1
    <3> DEFINE top == size + 1
               f == [i \in 1..top |-> written[top - i + 1]]
    <3>4. out' = f /\ top \in Nat /\ \A i \in 1..top : f[i] = written[top - i + 1] /\ f[i] \in 0..15
      BY <3>1, <3>2, <3>3
    <3>5. DOMAIN f = 1..top
      OBVIOUS
    <3>6. f \in [1..top -> 0..15]
      BY <3>2
    <3> HIDE DEF top, f
    <3>7. f \in Seq(0..15) /\ Len(f) = top
      BY <3>4, <3>5, <3>6
    <3> QED BY <3>4, <3>7 DEF top
  <2>3. value < base^(size + 1)
    <3> DEFINE m == base^(size + 1)
    <3>1. m \in Nat \ {0} /\ value \div m = 0
      BY <1>5, <1>6, <1>10
    <3> HIDE DEF m
    <3>2. value < m
      BY <3>1, <1>1, SMT
    <3> QED BY <3>2 DEF m
  <2>4. \A i \in 1 .. size + 1 : out'[i] = (value \div base^((size + 1) - i)) % base
    <3> SUFFICES ASSUME NEW i \in 1 .. size + 1
                 PROVE  out'[i] = (value \div base^((size + 1) - i)) % base
      OBVIOUS
    <3> DEFINE k == (size + 1) - i + 1
    <3>1. k \in 1 .. size + 1 /\ k - 1 = (size + 1) - i
      BY <1>1
    <3>2. out'[i] = written[k]
      BY <2>2
    <3> HIDE DEF k
    <3> QED BY <3>1, <3>2, <1>8
  <2>5. Digits!InPlace(out, base, value)'
    BY <1>1, <2>2, <2>3, <2>4 DEF Digits!InPlace
  <2>6. size + 1 > 1 => out'[1] # 0
    <3>1. SUFFICES ASSUME size > 0 PROVE out'[1] # 0
      BY <1>1
    <3>2. out'[1] = (value \div power) % base
      <4>1. 1 \in 1 .. size + 1 /\ (size + 1) - 1 = size
        BY <1>1
      <4> QED BY <4>1, <2>4
    <3>3. value \div power \in 1 .. base - 1
      <4>1. power <= value /\ value < power * base
        BY <3>1, <1>2, <1>3, <2>3
      <4> HIDE DEF power
      <4> QED BY <4>1, <1>1, <1>2, QuotientBetween
    <3> DEFINE q == value \div power
    <3>4. q \in 1 .. base - 1 /\ base \in 2..16 /\ out'[1] = q % base
      BY ONLY <3>2, <3>3, <1>1
    <3> HIDE DEF q
    <3>5. q % base = q
      BY ONLY <3>4
    <3> QED BY ONLY <3>4, <3>5
  <2>7. Digits!PrintedExact'
    <3>1. Len(out') <= outLength' /\ (Len(out') > 1 => out'[1] # 0)
      BY <1>1, <1>9, <2>2, <2>6
    <3> QED BY <2>1, <2>2, <2>5, <3>1 DEF Digits!PrintedExact, Digits!NumberPrinted, Digits!RefusedForRoom
  <2> QED BY <1>1, <2>1, <2>7 DEF PrintInv
<1>11. CASE left # 0
  <2>1. out' = written /\ result' = "RUNNING"
    BY <1>1, <1>11
  <2>2. base^(size + 1) <= value
    <3> DEFINE m == base^(size + 1)
    <3>1. m \in Nat \ {0} /\ value \div m # 0
      BY <1>5, <1>6, <1>11
    <3> HIDE DEF m
    <3>2. m <= value
      BY <3>1, <1>1, SMT
    <3> QED BY <3>2 DEF m
  <2> HIDE DEF written, left
  <2>3. Len(out') = size + 1 /\ out' \in Seq(0..15)
    BY <2>1, <1>7
  <2>4. DigitsFound'
    BY <1>1, <1>5, <1>8, <2>1, <2>2, <2>3 DEF DigitsFound
  <2>5. Digits!PrintedExact'
    BY <2>1 DEF Digits!PrintedExact, Digits!NumberPrinted, Digits!RefusedForRoom
  <2> QED BY <1>1, <1>9, <2>1, <2>3, <2>4, <2>5 DEF PrintInv
<1> QED BY <1>10, <1>11

LEMMA PrintZeroInv ==
    ASSUME PowerLaws, Digits!DigitsAssumption, PrintInv, Digits!PrintZero
    PROVE  PrintInv'
<1>1. /\ value = 0 /\ base = 10 /\ UNCHANGED <<function, value, base, outLength>>
      /\ outLength \in Nat \ {0}
      /\ IF outLength < 2 THEN result' = "FALSE" ELSE out' = <<0>> /\ result' = "TRUE"
  BY ArgumentsTyped DEF PrintInv, Digits!PrintZero, Digits!InLimbs, LimbsLeft, Digits!Return, Digits!arguments
<1>2. CASE outLength < 2
  <2>1. outLength = 1
    BY <1>1, <1>2
  <2> QED BY <1>1, <1>2, <2>1 DEF PrintInv, Digits!PrintedExact, Digits!NumberPrinted, Digits!RefusedForRoom
<1>3. CASE ~(outLength < 2)
  <2>1. out' = <<0>> /\ result' = "TRUE" /\ Len(out') = 1 /\ out'[1] = 0 /\ out' \in Seq(0..15)
    <3>1. out' = <<0>> /\ result' = "TRUE"
      BY <1>1, <1>3
    <3>2. <<0>> \in Seq(0..15) /\ Len(<<0>>) = 1 /\ <<0>>[1] = 0
      OBVIOUS
    <3> QED BY <3>1, <3>2
  <2>2. 10 \in 2..16 /\ 0 \in Nat /\ 0 + 1 = 1
    OBVIOUS
  <2>3. 10^0 = 1 /\ 10^1 = 10
    BY Zenon, <2>2, PowerLaw
  <2>4. \A i \in 1 .. Len(out') : out'[i] = (value' \div 10^(Len(out') - i)) % 10
    <3> SUFFICES ASSUME NEW i \in 1 .. Len(out')
                 PROVE  out'[i] = (value' \div 10^(Len(out') - i)) % 10
      OBVIOUS
    <3>1. i = 1 /\ Len(out') - i = 0
      BY <2>1
    <3>2. (0 \div 1) % 10 = 0
      OBVIOUS
    <3> QED BY <3>1, <3>2, <2>1, <2>3, <1>1
  <2>5. Digits!InPlace(out, base, value)'
    BY <1>1, <2>1, <2>3, <2>4 DEF Digits!InPlace
  <2>6. Len(out') <= outLength'
    BY <1>1, <2>1
  <2>7. Digits!PrintedExact'
    BY <2>1, <2>5, <2>6 DEF Digits!PrintedExact, Digits!NumberPrinted, Digits!RefusedForRoom
  <2> QED BY <1>1, <2>1, <2>7 DEF PrintInv
<1> QED BY <1>2, <1>3

\* The loop over the limbs stands where LimbsLeft says.
LEMMA InTheLimbs ==
    ASSUME PowerLaws, Digits!DigitsAssumption, PrintInv, Digits!InLimbs
    PROVE  LET size == Len(out)
               x == value \div 10^size
           IN  /\ LimbsLeft /\ base = 10 /\ out \in Seq(0..15) /\ size \in Nat /\ size <= outLength
               /\ 10^size \in Nat \ {0} /\ value \in Nat /\ outLength \in Nat \ {0}
               /\ x \in Nat /\ x < Place(0) /\ n = Digits!LimbsOf(x)
               /\ Digits!AllZeroes <=> value < 10^size
<1> DEFINE size == Len(out)
           m == 10^size
           x == value \div m
<1>1. /\ LimbsLeft /\ base = 10 /\ out \in Seq(0..15) /\ size \in Nat /\ size <= outLength
      /\ value \in Nat /\ value < Place(0) /\ outLength \in Nat \ {0} /\ n = Digits!LimbsOf(x)
  BY ArgumentsTyped DEF PrintInv, Digits!InLimbs, LimbsLeft
<1>2. m \in Nat \ {0}
  <2>1. 10 \in 2..16
    OBVIOUS
  <2> QED BY Zenon, <1>1, <2>1, PowerPositive
<1>3. x \in Nat /\ x <= value /\ (x = 0 <=> value < m)
  <2> HIDE DEF m
  <2>1. value = m * x + (value % m) /\ value % m \in 0 .. m - 1 /\ x \in Nat
    BY <1>1, <1>2, WithRemainder
  <2>2. (x # 0 => m * x >= m) /\ m * x >= x /\ m * x \in Nat
    <3>1. x \in Nat /\ m \in Nat /\ m >= 1
      BY <2>1, <1>2
    <3> HIDE DEF x
    <3> QED BY <3>1, SMT
  <2>4. x = 0 => m * x = 0
    BY <1>2
  <2> DEFINE y == m * x
             rest == value % m
  <2>5. /\ value = y + rest /\ rest \in 0 .. m - 1 /\ y \in Nat /\ x \in Nat
        /\ (x # 0 => y >= m) /\ y >= x /\ (x = 0 => y = 0)
    BY <2>1, <2>2, <2>4
  <2> HIDE DEF x, y, rest
  <2> QED BY <2>5, <1>1, <1>2
<1>4. Place(0) \in Nat
  <2>1. 0 \in 0..LimbCount
    BY Places
  <2> QED BY <2>1, Places
<1>5. x < Place(0)
  <2> HIDE DEF x
  <2> QED BY <1>1, <1>3, <1>4
<1>6. Digits!AllZeroes <=> x = 0
  BY <1>1, <1>3, <1>5, ZeroLimbs
<1> QED BY <1>1, <1>2, <1>3, <1>5, <1>6

LEMMA NoPlaceInv ==
    ASSUME PowerLaws, Digits!DigitsAssumption, PrintInv, Digits!NoPlace
    PROVE  PrintInv'
<1>1. /\ base = 10 /\ Len(out) = outLength /\ outLength \in Nat \ {0} /\ result' = "FALSE"
      /\ ~(value < 10^outLength) /\ 10^outLength \in Nat /\ value \in Nat
      /\ UNCHANGED <<function, value, base, outLength>>
  BY InTheLimbs DEF Digits!NoPlace, Digits!Return, Digits!arguments
<1>2. 10 \in 2..16 /\ outLength - 1 \in Nat /\ outLength - 1 <= outLength
  BY <1>1
<1>3. 10^(outLength - 1) <= 10^outLength /\ 10^(outLength - 1) \in Nat
  BY <1>1, <1>2, PowersOrdered, PowerPositive
<1>4. value >= 10^(outLength - 1)
  BY <1>1, <1>3
<1>5. Digits!PrintedExact'
  BY <1>1, <1>4 DEF Digits!PrintedExact, Digits!NumberPrinted, Digits!RefusedForRoom
<1> QED BY <1>1, <1>5 DEF PrintInv

LEMMA DivideByTenInv ==
    ASSUME PowerLaws, Digits!DigitsAssumption, PrintInv, Digits!DivideByTen
    PROVE  PrintInv'
<1> DEFINE size == Len(out)
           m == 10^size
           x == value \div m
           digit == Digits!Carries[LimbCount + 1]
<1>1. /\ Digits!InLimbs /\ ~Digits!AllZeroes /\ size < outLength /\ result = "RUNNING" /\ result' = "RUNNING"
      /\ n' = [i \in 1..LimbCount |-> Digits!WithCarry(Digits!Carries[i], n[i]) \div 10]
      /\ out' = <<digit>> \o out
      /\ UNCHANGED <<function, value, base, outLength>>
  BY DEF Digits!DivideByTen, Digits!InLimbs, Digits!arguments
<1>2. /\ LimbsLeft /\ base = 10 /\ out \in Seq(0..15) /\ size \in Nat
      /\ m \in Nat \ {0} /\ value \in Nat /\ outLength \in Nat \ {0}
      /\ x \in Nat /\ x < Place(0) /\ n = Digits!LimbsOf(x) /\ ~(value < m)
  BY <1>1, InTheLimbs
<1>3. n' = Digits!LimbsOf(x \div 10) /\ digit = x % 10
  BY <1>1, <1>2, LimbsDivided
<1>4. digit \in 0..9
  <2> HIDE DEF x
  <2> QED BY <1>2, <1>3
<1>5. 10 \in 2..16 /\ size + 1 \in Nat /\ (size + 1) - 1 = size /\ size + 1 # 0
  BY <1>2
<1>6. 10^(size + 1) = m * 10
  BY Zenon, <1>2, <1>5, NextPower
<1>7. x \div 10 = value \div 10^(size + 1)
  <2> HIDE DEF m
  <2>1. (value \div m) \div 10 = value \div (m * 10)
    <3>1. m \in Nat /\ m > 0 /\ value \in Nat
      BY <1>2
    <3> QED BY <3>1, QuotientOfQuotient
  <2> QED BY <2>1, <1>6
<1> HIDE DEF digit
<1>8. /\ out' \in Seq(0..15) /\ Len(out') = size + 1 /\ out'[1] = digit
      /\ \A i \in 2 .. size + 1 : out'[i] = out[i - 1]
  <2>1. <<digit>> \in Seq(0..15) /\ Len(<<digit>>) = 1 /\ <<digit>>[1] = digit
    BY <1>4
  <2> QED BY <2>1, <1>1, <1>2
<1>9. \A i \in 1 .. size + 1 : out'[i] = (value \div 10^((size + 1) - i)) % 10
  <2> SUFFICES ASSUME NEW i \in 1 .. size + 1
               PROVE  out'[i] = (value \div 10^((size + 1) - i)) % 10
    OBVIOUS
  <2>1. CASE i = 1
    <3>1. (size + 1) - i = size
      BY <2>1, <1>2
    <3> QED BY <3>1, <2>1, <1>3, <1>8
  <2>2. CASE i # 1
    <3>1. i \in 2 .. size + 1 /\ i - 1 \in 1..size /\ (size + 1) - i = size - (i - 1)
      BY <2>2, <1>2
    <3>2. out[i - 1] = (value \div 10^(size - (i - 1))) % 10
      BY <3>1, <1>2 DEF LimbsLeft
    <3> QED BY <3>1, <3>2, <1>8
  <2> QED BY <2>1, <2>2
<1>10. m <= value
  <2> HIDE DEF m
  <2> QED BY <1>2
<1>11. LimbsLeft'
  <2> HIDE DEF x
  <2>1. n' = Digits!LimbsOf(value' \div 10^Len(out'))
    BY <1>1, <1>3, <1>7, <1>8
  <2>2. Digits!LimbsOf(value \div 10^Len(out))' = Digits!LimbsOf(value' \div 10^Len(out'))
    BY DEF Digits!LimbsOf
  <2>3. 10^(Len(out') - 1) <= value'
    BY <1>1, <1>5, <1>8, <1>10
  <2> QED BY <2>1, <2>2, <2>3, <1>1, <1>2, <1>8, <1>9 DEF LimbsLeft
<1>12. Digits!PrintedExact'
  BY <1>1 DEF Digits!PrintedExact, Digits!NumberPrinted, Digits!RefusedForRoom
<1>13. Len(out') <= outLength'
  BY <1>1, <1>2, <1>8
<1>14. function' = "uint256_to_decimal"
  BY <1>1 DEF Digits!InLimbs
<1> QED BY <1>1, <1>8, <1>11, <1>12, <1>13, <1>14 DEF PrintInv

LEMMA MoveDigitsInv ==
    ASSUME PowerLaws, Digits!DigitsAssumption, PrintInv, Digits!MoveDigits
    PROVE  PrintInv'
<1> DEFINE size == Len(out)
<1>1. /\ value # 0 /\ out' = out /\ result' = "TRUE" /\ Digits!InLimbs /\ Digits!AllZeroes
      /\ UNCHANGED <<function, value, base, outLength>>
  BY DEF Digits!MoveDigits, Digits!Return, Digits!arguments
<1>2. /\ LimbsLeft /\ base = 10 /\ out \in Seq(0..15) /\ size \in Nat /\ size <= outLength
      /\ value \in Nat /\ value < 10^size
  BY <1>1, InTheLimbs
<1>3. 10 \in 2..16
  OBVIOUS
<1>4. ASSUME size > 1
      PROVE  out[1] # 0
  <2> DEFINE p == 10^(size - 1)
  <2>1. size - 1 \in Nat /\ (size - 1) + 1 = size /\ 1 \in 1..size
    BY <1>2, <1>4
  <2>2. p \in Nat \ {0} /\ 10^((size - 1) + 1) = p * 10
    BY Zenon, <1>3, <2>1, PowerPositive, NextPower
  <2>3. p <= value /\ out[1] = (value \div p) % 10
    <3>1. size > 0
      BY <1>2, <1>4
    <3> QED BY <3>1, <2>1, <1>2 DEF LimbsLeft
  <2>4. value < p * 10
    BY <2>1, <2>2, <1>2
  <2> HIDE DEF p
  <2>5. value \div p \in 1..9
    <3>1. value \div p \in 1 .. 10 - 1
      BY <2>2, <2>3, <2>4, <1>2, QuotientBetween
    <3> QED BY <3>1
  <2> QED BY <2>3, <2>5
<1>5. Digits!InPlace(out, base, value)
  BY <1>2 DEF Digits!InPlace, LimbsLeft
<1>6. Digits!PrintedExact'
  BY <1>1, <1>2, <1>4, <1>5 DEF Digits!PrintedExact, Digits!NumberPrinted, Digits!RefusedForRoom, Digits!InPlace
<1> QED BY <1>1, <1>2, <1>6 DEF PrintInv

LEMMA PrintStep ==
    ASSUME PowerLaws, Digits!DigitsAssumption, PrintInv, [Digits!Next]_(Digits!vars)
    PROVE  PrintInv'
<1>1. CASE Digits!BadBase
  BY <1>1, BadBaseInv
<1>2. CASE Digits!NoRoom
  BY <1>2, NoRoomInv
<1>3. CASE Digits!NextDigit
  BY <1>3, NextDigitInv
<1>4. CASE Digits!PrintZero
  BY <1>4, PrintZeroInv
<1>5. CASE Digits!NoPlace
  BY <1>5, NoPlaceInv
<1>6. CASE Digits!DivideByTen
  BY <1>6, DivideByTenInv
<1>7. CASE Digits!MoveDigits
  BY <1>7, MoveDigitsInv
<1>8. CASE UNCHANGED Digits!vars
  BY <1>8 DEF Digits!vars, Digits!arguments, PrintInv, DigitsFound, LimbsLeft, Digits!LimbsOf, Digits!PrintedExact,
              Digits!NumberPrinted, Digits!RefusedForRoom, Digits!InPlace
<1> QED BY <1>1, <1>2, <1>3, <1>4, <1>5, <1>6, <1>7, <1>8 DEF Digits!Next

\* How far the buffer is filled while the loops run.
PlaceInv ==
    /\ function \in {"tostring256", "uint256_to_decimal"}
    /\ result = "RUNNING" =>
          lastPlace = IF function = "tostring256" THEN Len(out)
                      ELSE IF Len(out) = 0 THEN 0 ELSE outLength
    /\ Digits!OnlyNullByteBehind

\* One digit is added at either end.
LEMMA OneLonger ==
    ASSUME NEW S, NEW seq \in Seq(S), NEW e
    PROVE  /\ Len(seq) \in Nat
           /\ Len(Append(seq, e)) = Len(seq) + 1
           /\ Len(<<e>> \o seq) = Len(seq) + 1
           /\ Len(Digits!Reverse(Append(seq, e))) = Len(seq) + 1
<1>1. Len(seq) \in Nat /\ Len(Append(seq, e)) = Len(seq) + 1
  OBVIOUS
<1>2. Len(<<e>> \o seq) = Len(seq) + 1
  <2>1. seq \in Seq(S \cup {e}) /\ <<e>> \in Seq(S \cup {e}) /\ Len(<<e>>) = 1
    OBVIOUS
  <2> QED BY <2>1
<1>3. Len(Digits!Reverse(Append(seq, e))) = Len(seq) + 1
  <2> DEFINE top == Len(seq) + 1
             longer == Append(seq, e)
             f == [i \in 1..top |-> longer[top - i + 1]]
  <2>1. Digits!Reverse(longer) = f /\ top \in Nat
    BY <1>1 DEF Digits!Reverse
  <2>2. DOMAIN f = 1..top
    OBVIOUS
  <2> HIDE DEF f, top, longer
  <2>3. Len(f) = top
    BY <2>1, <2>2
  <2> QED BY <2>1, <2>3 DEF top, longer
<1> QED BY <1>1, <1>2, <1>3

LEMMA PlaceStep ==
    ASSUME PowerLaws, Digits!DigitsAssumption, PrintInv, PlaceInv,
           [Digits!Next]_(Digits!vars)
    PROVE  PlaceInv'
<1> USE DEF PlaceInv, Digits!OnlyNullByteBehind, Digits!Return, Digits!arguments
<1>1. /\ outLength \in Nat \ {0}
      /\ result = "RUNNING" => out \in Seq(0..15) /\ Len(out) \in Nat /\ Len(out) <= outLength
  BY ArgumentsTyped DEF PrintInv
<1>2. CASE Digits!BadBase \/ Digits!NoRoom \/ Digits!NoPlace
  <2>1. /\ result = "RUNNING" /\ result' = "FALSE"
        /\ UNCHANGED <<function, outLength, out, lastPlace>>
    BY <1>2 DEF Digits!BadBase, Digits!NoRoom, Digits!NoPlace, Digits!InBase, Digits!InLimbs
  <2> QED BY <1>1, <2>1
<1>3. CASE Digits!NextDigit
  <2> DEFINE written == Append(out, rDiv % base)
  <2>1. /\ function = "tostring256" /\ result = "RUNNING" /\ ~(Len(out) > outLength - 1)
        /\ UNCHANGED <<function, outLength>>
        /\ \/ /\ out' = Digits!Reverse(written) /\ result' = "TRUE"
              /\ lastPlace' = Len(written) + 1
           \/ /\ out' = written /\ result' = "RUNNING"
              /\ lastPlace' = Len(written)
    BY <1>3 DEF Digits!NextDigit, Digits!InBase, Digits!Full, Digits!LastDigit
  <2>2. Len(written) = Len(out) + 1 /\ Len(Digits!Reverse(written)) = Len(out) + 1
    BY <1>1, <2>1, OneLonger
  <2> HIDE DEF written
  <2> QED BY <1>1, <2>1, <2>2
<1>4. CASE Digits!PrintZero
  <2>1. /\ result = "RUNNING" /\ UNCHANGED <<function, outLength>>
        /\ \/ result' = "FALSE" /\ UNCHANGED <<out, lastPlace>>
           \/ outLength >= 2 /\ result' = "TRUE" /\ lastPlace' = outLength /\ Len(out') = 1
    <3>1. Len(<<0>>) = 1
      OBVIOUS
    <3>2. result = "RUNNING" /\ UNCHANGED <<function, outLength>>
      BY <1>4 DEF Digits!PrintZero, Digits!InLimbs
    <3>3. \/ result' = "FALSE" /\ UNCHANGED <<out, lastPlace>>
          \/ outLength >= 2 /\ result' = "TRUE" /\ lastPlace' = outLength /\ out' = <<0>>
      BY <1>1, <1>4 DEF Digits!PrintZero
    <3> QED BY <3>1, <3>2, <3>3
  <2>2. CASE result' = "FALSE" /\ UNCHANGED <<out, lastPlace>>
    BY <1>1, <2>1, <2>2
  <2>3. CASE outLength >= 2 /\ result' = "TRUE" /\ lastPlace' = outLength /\ Len(out') = 1
    BY <1>1, <2>1, <2>3
  <2> QED BY <2>1, <2>2, <2>3
<1>5. CASE Digits!DivideByTen
  <2> DEFINE digit == Digits!Carries[LimbCount + 1]
  <2>1. /\ function = "uint256_to_decimal" /\ result = "RUNNING" /\ Len(out) < outLength
        /\ UNCHANGED <<function, outLength, result>>
        /\ out' = <<digit>> \o out /\ lastPlace' = outLength
    BY <1>5 DEF Digits!DivideByTen, Digits!InLimbs
  <2> HIDE DEF digit
  <2>2. Len(out') = Len(out) + 1
    BY <1>1, <2>1, OneLonger
  <2> QED BY <1>1, <2>1, <2>2
<1>6. CASE Digits!MoveDigits
  <2>1. /\ function = "uint256_to_decimal" /\ result = "RUNNING" /\ result' = "TRUE"
        /\ UNCHANGED <<function, outLength, out>>
        /\ lastPlace' = IF Len(out) < outLength THEN lastPlace ELSE Len(out) + 1
    BY <1>6 DEF Digits!MoveDigits, Digits!InLimbs
  <2> QED BY <1>1, <2>1
<1>7. CASE UNCHANGED Digits!vars
  BY <1>7 DEF Digits!vars
<1> QED BY <1>2, <1>3, <1>4, <1>5, <1>6, <1>7 DEF Digits!Next

\* They are read as the number.
LEMMA DigitsRead ==
    ASSUME PowerLaws, Digits!DigitsAssumption, PrintInv
    PROVE  Digits!ReadBack
<1>1. SUFFICES ASSUME result = "TRUE" PROVE Digits!ValueIn(out, base) = value
  BY DEF Digits!ReadBack
<1>2. InPlace(out, base, value) /\ out \in Seq(Nat)
  BY <1>1 DEF PrintInv, Digits!PrintedExact, Digits!NumberPrinted, Digits!InPlace, InPlace
<1>3. base \in 2..16 /\ value \in Nat
  BY <1>1, ArgumentsTyped DEF PrintInv
<1>4. ValueIn(out, base) = value
  BY <1>2, <1>3, ReadInPlace
<1> QED BY <1>4 DEF ValueIn, Digits!ValueIn

-----------------------------------------------------------------------------
(* A behaviour is a call of one function: what is proved of a component    *)
(* holds of the calls that are its.                                        *)

Words == INSTANCE Words_proofs

LEMMA DivisionLaws ==
    ASSUME TRUE PROVE Words!Laws
BY NumbersAssumption
   DEF Words!Laws, NumbersAssumption, Division!DividendAssumption, Words!DividendAssumption,
       Arithmetic!WordAssumption, Words!WordAssumption, Arithmetic!PowerLaws, Words!PowerLaws,
       Arithmetic!OrLaws, Words!OrLaws, Arithmetic!Word, Words!Word, Arithmetic!Base, Words!Base

\* DivMod is the same in both instances: its operators, and so its steps.
LEMMA SameOperators ==
    ASSUME NEW x, NEW y
    PROVE  /\ Division!Gt256(x, y) = Words!Gt256(x, y)
           /\ Division!Bits256(x) = Words!Bits256(x)
           /\ Division!Minus256(x, y) = Words!Minus256(x, y)
           /\ Division!Or256(x, y) = Words!Or256(x, y)
           /\ Division!Shiftl256(x, y) = Words!Shiftl256(x, y)
           /\ Division!Shiftr256(x, y) = Words!Shiftr256(x, y)
           /\ Division!Value256(x) = Words!Value256(x)
<1>1. Division!Gt256(x, y) = Words!Gt256(x, y)
  BY DEF Division!Gt256, Words!Gt256, Division!Gt128, Words!Gt128,
         Division!Upper, Words!Upper, Division!Lower, Words!Lower
<1>2. Division!Bits256(x) = Words!Bits256(x)
  BY DEF Division!Bits256, Words!Bits256, Division!Bits128, Words!Bits128,
         Division!WordBits, Words!WordBits, Division!Zero128, Words!Zero128,
         Division!Upper, Words!Upper, Division!Lower, Words!Lower
<1>3. Division!Minus256(x, y) = Words!Minus256(x, y)
  BY DEF Division!Minus256, Words!Minus256, Division!Minus128,
         Words!Minus128, Division!Gt128, Words!Gt128, Division!Carry,
         Words!Carry, Division!Wrapped, Words!Wrapped, Division!Base,
         Words!Base, Division!One128, Words!One128, Division!Upper,
         Words!Upper, Division!Lower, Words!Lower
<1>4. Division!Or256(x, y) = Words!Or256(x, y)
  BY DEF Division!Or256, Words!Or256, Division!Or128, Words!Or128,
         Division!Upper, Words!Upper, Division!Lower, Words!Lower
<1>5. \A z, u : Division!Shiftl128(z, u) = Words!Shiftl128(z, u)
  BY DEF Division!Shiftl128, Words!Shiftl128, Division!Zero128,
         Words!Zero128, Division!WordLeft, Words!WordLeft,
         Division!WordRight, Words!WordRight, Division!Wrapped,
         Words!Wrapped, Division!Base, Words!Base, Division!Upper,
         Words!Upper, Division!Lower, Words!Lower
<1>6. \A z, u : Division!Shiftr128(z, u) = Words!Shiftr128(z, u)
  BY DEF Division!Shiftr128, Words!Shiftr128, Division!Zero128,
         Words!Zero128, Division!WordLeft, Words!WordLeft,
         Division!WordRight, Words!WordRight, Division!Wrapped,
         Words!Wrapped, Division!Base, Words!Base, Division!Upper,
         Words!Upper, Division!Lower, Words!Lower
<1>7. \A z, u : Division!Add128(z, u) = Words!Add128(z, u)
  BY DEF Division!Add128, Words!Add128, Division!Carry, Words!Carry,
         Division!Wrapped, Words!Wrapped, Division!Base, Words!Base,
         Division!Upper, Words!Upper, Division!Lower, Words!Lower
<1>8. Division!Shiftl256(x, y) = Words!Shiftl256(x, y)
  BY <1>5, <1>6, <1>7 DEF Division!Shiftl256, Words!Shiftl256,
         Division!Zero256, Words!Zero256, Division!Zero128, Words!Zero128,
         Division!Upper, Words!Upper, Division!Lower, Words!Lower
<1>9. Division!Shiftr256(x, y) = Words!Shiftr256(x, y)
  BY <1>5, <1>6, <1>7 DEF Division!Shiftr256, Words!Shiftr256,
         Division!Zero256, Words!Zero256, Division!Zero128, Words!Zero128,
         Division!Upper, Words!Upper, Division!Lower, Words!Lower
<1>10. Division!Value256(x) = Words!Value256(x)
  BY DEF Division!Value256, Words!Value256, Division!Value128,
         Words!Value128, Division!Base, Words!Base, Division!Upper,
         Words!Upper, Division!Lower, Words!Lower
<1> QED BY <1>1, <1>2, <1>3, <1>4, <1>8, <1>9, <1>10

LEMMA SameDivision ==
    /\ Division!Init => Words!Init
    /\ [Division!Next]_(Division!vars) => [Words!Next]_(Words!vars)
    /\ Words!NothingLostInTheLoop => Division!NothingLostInTheLoop
    /\ Words!QuotientExact => Division!QuotientExact
<1>1. Division!Init => Words!Init
  BY DEF Division!Init, Words!Init, Division!Of128, Words!Of128,
         Division!Of256, Words!Of256, Division!U256, Words!U256,
         Division!U128, Words!U128, Division!Word, Words!Word, Division!Base,
         Words!Base, Division!Zero256, Words!Zero256, Division!Zero128,
         Words!Zero128
<1>2. [Division!Next]_(Division!vars) => [Words!Next]_(Words!vars)
  BY SameOperators DEF Division!Next, Words!Next, Division!Smaller,
         Words!Smaller, Division!Align, Words!Align, Division!ShiftBoth,
         Words!ShiftBoth, Division!StepBack, Words!StepBack,
         Division!Divisible, Words!Divisible, Division!Fits, Words!Fits,
         Division!Gte256, Words!Gte256, Division!Subtract, Words!Subtract,
         Division!Skip, Words!Skip, Division!Return, Words!Return,
         Division!One256, Words!One256, Division!One128, Words!One128,
         Division!Zero128, Words!Zero128, Division!vars, Words!vars,
         Division!arguments, Words!arguments, Division!shifted,
         Words!shifted, Division!results, Words!results
<1>3. Words!NothingLostInTheLoop => Division!NothingLostInTheLoop
  BY SameOperators DEF Division!NothingLostInTheLoop,
         Words!NothingLostInTheLoop, Division!Zero256, Words!Zero256,
         Division!Zero128, Words!Zero128
<1>4. Words!QuotientExact => Division!QuotientExact
  BY SameOperators DEF Division!QuotientExact, Words!QuotientExact
<1> QED BY <1>1, <1>2, <1>3, <1>4

\* divmod256, in calls with any divisor but 0 and for words of any width: in every
\* turn of its loop nothing of the dividend is lost, and what it returns are the
\* quotient and the remainder of the integers.
THEOREM DivisionByParts == Spec => []DivisionExact
<1> DEFINE Inv == job = "DIVISION" => Words!DivInv
<1>1. Init => Inv
  <2> SUFFICES ASSUME Init, job = "DIVISION" PROVE Words!DivInv
    OBVIOUS
  <2>1. Division!Init
    BY DEF Init
  <2> QED BY <2>1, SameDivision, DivisionLaws, Words!InitDivision
<1>2. Inv /\ [Next]_vars => Inv'
  <2> SUFFICES ASSUME Inv, [Next]_vars, job' = "DIVISION" PROVE Words!DivInv'
    OBVIOUS
  <2>1. job = "DIVISION" /\ Words!DivInv
    BY DEF Next, Calculate, Divide, PrintDigits, WriteHeader, ConvertAddress, vars
  <2>2. [Division!Next]_(Division!vars)
    BY <2>1 DEF Next, Calculate, Divide, PrintDigits, WriteHeader, ConvertAddress, vars,
                divisionVars, Division!vars, Division!arguments, Division!shifted,
                Division!results
  <2> QED BY <2>1, <2>2, SameDivision, DivisionLaws, Words!DivisionStep
<1>3. Inv => DivisionExact
  BY SameDivision, DivisionLaws, Words!DivisionResult DEF DivisionExact
<1> HIDE DEF Inv
<1> QED BY <1>1, <1>2, <1>3, PTL DEF Spec

\* tostring256 and uint256_to_decimal print the digits of the number, each at its
\* place in the buffer, without a leading zero, and they are read as the number;
\* or they refuse a number that has no room.  Nothing is written behind the
\* buffer but the null byte of digits that fill it.  For any number of limbs of
\* any size (16 of 16 bits in the code), so for every amount, fee and nonce.
THEOREM NumbersPrinted == ASSUME PowerLaws PROVE Spec => []PrintedExact
<1> DEFINE Inv == job = "DIGITS" => PrintInv /\ PlaceInv
<1>1. Digits!DigitsAssumption
  BY NumbersAssumption DEF NumbersAssumption
<1>2. Init => Inv
  <2>1. ASSUME Init, job = "DIGITS" PROVE PrintInv /\ PlaceInv
    <3>1. Digits!Init /\ PrintInv
      BY <1>1, <2>1, PrintInit DEF Init
    <3>2. outLength \in Nat \ {0} /\ Len(out) = 0 /\ lastPlace = 0 /\ result = "RUNNING"
      BY <1>1, <3>1, ArgumentsTyped DEF Digits!Init
    <3>3. PlaceInv
      BY <3>1, <3>2 DEF PlaceInv, PrintInv, Digits!OnlyNullByteBehind
    <3> QED BY <3>1, <3>3
  <2> QED BY <2>1
<1>3. Inv /\ [Next]_vars => Inv'
  <2> SUFFICES ASSUME Inv, [Next]_vars, job' = "DIGITS" PROVE PrintInv' /\ PlaceInv'
    OBVIOUS
  <2>1. job = "DIGITS" /\ PrintInv /\ PlaceInv
    BY DEF Next, Calculate, Divide, PrintDigits, WriteHeader, ConvertAddress, vars
  <2>2. [Digits!Next]_(Digits!vars)
    BY <2>1 DEF Next, Calculate, Divide, PrintDigits, WriteHeader, ConvertAddress, vars,
                digitsVars, Digits!vars, Digits!arguments
  <2> QED BY <1>1, <2>1, <2>2, PrintStep, PlaceStep
<1>4. Inv => PrintedExact
  BY <1>1, DigitsRead DEF PrintedExact, PrintInv, PlaceInv
<1> HIDE DEF Inv
<1> QED BY <1>2, <1>3, <1>4, PTL DEF Spec

\* The header of a personal message holds the length of the message in decimal:
\* every digit at its place, none missing, no zero in front, all of them in tmp,
\* and read as the length.  For every length of up to 32 bits, also those at
\* which the power of ten overflows (cmd_signMessage.c).
THEOREM LengthInHeader == ASSUME PowerLaws PROVE Spec => []HeaderExact
<1> DEFINE Inv == job = "HEADER" => HeaderInv
<1>1. Header!HeaderAssumption
  BY NumbersAssumption DEF NumbersAssumption
<1>2. Init => Inv
  BY <1>1, HeaderInit DEF Init
<1>3. Inv /\ [Next]_vars => Inv'
  <2> SUFFICES ASSUME Inv, [Next]_vars, job' = "HEADER" PROVE HeaderInv'
    OBVIOUS
  <2>1. job = "HEADER" /\ HeaderInv
    BY DEF Next, Calculate, Divide, PrintDigits, WriteHeader, ConvertAddress, vars
  <2>2. [Header!Next]_(Header!vars)
    BY <2>1 DEF Next, Calculate, Divide, PrintDigits, WriteHeader, ConvertAddress, vars,
                headerVars, Header!vars, Header!input
  <2> QED BY <1>1, <2>1, <2>2, HeaderStep
<1>4. Inv => HeaderExact
  BY <1>1, HeaderRead, HeaderEnd DEF HeaderExact
<1> HIDE DEF Inv
<1> QED BY <1>2, <1>3, <1>4, PTL DEF Spec

-----------------------------------------------------------------------------
(* One call of a function of uint256.c.                                    *)

\* Uint256 has its own instance of Words: the same operators.
LEMMA SameArithmetic ==
    ASSUME NEW x, NEW y
    PROVE  /\ Arithmetic!Gt256(x, y) = Words!Gt256(x, y)
           /\ Arithmetic!Gte256(x, y) = Words!Gte256(x, y)
           /\ Arithmetic!Bits256(x) = Words!Bits256(x)
           /\ Arithmetic!Add256(x, y) = Words!Add256(x, y)
           /\ Arithmetic!Minus256(x, y) = Words!Minus256(x, y)
           /\ Arithmetic!Or256(x, y) = Words!Or256(x, y)
           /\ Arithmetic!Mul256(x, y) = Words!Mul256(x, y)
           /\ Arithmetic!Mul128(x, y) = Words!Mul128(x, y)
           /\ Arithmetic!Shiftl256(x, y) = Words!Shiftl256(x, y)
           /\ Arithmetic!Shiftr256(x, y) = Words!Shiftr256(x, y)
           /\ Arithmetic!Value256(x) = Words!Value256(x)
           /\ Arithmetic!Of256(x) = Words!Of256(x)
<1>1. /\ Arithmetic!Gt256(x, y) = Words!Gt256(x, y)
      /\ Arithmetic!Gte256(x, y) = Words!Gte256(x, y)
  BY DEF Arithmetic!Gte256, Words!Gte256,
         Arithmetic!Gt256, Words!Gt256, Arithmetic!Gt128, Words!Gt128,
         Arithmetic!Upper, Words!Upper, Arithmetic!Lower, Words!Lower
<1>2. Arithmetic!Bits256(x) = Words!Bits256(x)
  BY DEF Arithmetic!Bits256, Words!Bits256, Arithmetic!Bits128, Words!Bits128,
         Arithmetic!WordBits, Words!WordBits, Arithmetic!Zero128, Words!Zero128,
         Arithmetic!Upper, Words!Upper, Arithmetic!Lower, Words!Lower
<1>3. Arithmetic!Minus256(x, y) = Words!Minus256(x, y)
  BY DEF Arithmetic!Minus256, Words!Minus256, Arithmetic!Minus128,
         Words!Minus128, Arithmetic!Gt128, Words!Gt128, Arithmetic!Carry,
         Words!Carry, Arithmetic!Wrapped, Words!Wrapped, Arithmetic!Base,
         Words!Base, Arithmetic!One128, Words!One128, Arithmetic!Upper,
         Words!Upper, Arithmetic!Lower, Words!Lower
<1>4. Arithmetic!Or256(x, y) = Words!Or256(x, y)
  BY DEF Arithmetic!Or256, Words!Or256, Arithmetic!Or128, Words!Or128,
         Arithmetic!Upper, Words!Upper, Arithmetic!Lower, Words!Lower
<1>5. \A z, u : Arithmetic!Shiftl128(z, u) = Words!Shiftl128(z, u)
  BY DEF Arithmetic!Shiftl128, Words!Shiftl128, Arithmetic!Zero128,
         Words!Zero128, Arithmetic!WordLeft, Words!WordLeft,
         Arithmetic!WordRight, Words!WordRight, Arithmetic!Wrapped,
         Words!Wrapped, Arithmetic!Base, Words!Base, Arithmetic!Upper,
         Words!Upper, Arithmetic!Lower, Words!Lower
<1>6. \A z, u : Arithmetic!Shiftr128(z, u) = Words!Shiftr128(z, u)
  BY DEF Arithmetic!Shiftr128, Words!Shiftr128, Arithmetic!Zero128,
         Words!Zero128, Arithmetic!WordLeft, Words!WordLeft,
         Arithmetic!WordRight, Words!WordRight, Arithmetic!Wrapped,
         Words!Wrapped, Arithmetic!Base, Words!Base, Arithmetic!Upper,
         Words!Upper, Arithmetic!Lower, Words!Lower
<1>7. \A z, u : Arithmetic!Add128(z, u) = Words!Add128(z, u)
  BY DEF Arithmetic!Add128, Words!Add128, Arithmetic!Carry, Words!Carry,
         Arithmetic!Wrapped, Words!Wrapped, Arithmetic!Base, Words!Base,
         Arithmetic!Upper, Words!Upper, Arithmetic!Lower, Words!Lower
<1>8. Arithmetic!Shiftl256(x, y) = Words!Shiftl256(x, y)
  BY <1>5, <1>6, <1>7 DEF Arithmetic!Shiftl256, Words!Shiftl256,
         Arithmetic!Zero256, Words!Zero256, Arithmetic!Zero128, Words!Zero128,
         Arithmetic!Upper, Words!Upper, Arithmetic!Lower, Words!Lower
<1>9. Arithmetic!Shiftr256(x, y) = Words!Shiftr256(x, y)
  BY <1>5, <1>6, <1>7 DEF Arithmetic!Shiftr256, Words!Shiftr256,
         Arithmetic!Zero256, Words!Zero256, Arithmetic!Zero128, Words!Zero128,
         Arithmetic!Upper, Words!Upper, Arithmetic!Lower, Words!Lower
<1>10. Arithmetic!Value256(x) = Words!Value256(x)
  BY DEF Arithmetic!Value256, Words!Value256, Arithmetic!Value128,
         Words!Value128, Arithmetic!Base, Words!Base, Arithmetic!Upper,
         Words!Upper, Arithmetic!Lower, Words!Lower
<1>11. Arithmetic!Add256(x, y) = Words!Add256(x, y)
  BY <1>7 DEF Arithmetic!Add256, Words!Add256, Arithmetic!Gt128, Words!Gt128,
         Arithmetic!One128, Words!One128,
         Arithmetic!Upper, Words!Upper, Arithmetic!Lower, Words!Lower
<1>12. Arithmetic!Mul256(x, y) = Words!Mul256(x, y)
  BY DEF Arithmetic!Mul256, Words!Mul256, Arithmetic!MathMult, Words!MathMult,
         Arithmetic!Number, Words!Number, Arithmetic!WordsOf, Words!WordsOf,
         Arithmetic!Wrapped, Words!Wrapped, Arithmetic!Base, Words!Base,
         Arithmetic!Upper, Words!Upper, Arithmetic!Lower, Words!Lower
<1>13. Arithmetic!Mul128(x, y) = Words!Mul128(x, y)
  <2>1. \A z : Arithmetic!High(z) = Words!High(z) /\ Arithmetic!Low(z) = Words!Low(z)
    BY DEF Arithmetic!High, Words!High, Arithmetic!Low, Words!Low,
           Arithmetic!HalfWord, Words!HalfWord
  <2>2. \A z : Arithmetic!Halves(z) = Words!Halves(z)
    BY <2>1 DEF Arithmetic!Halves, Words!Halves, Arithmetic!Upper, Words!Upper,
                Arithmetic!Lower, Words!Lower
  <2>3. \A z, u : Arithmetic!WordLeft(z, u) = Words!WordLeft(z, u)
    BY DEF Arithmetic!WordLeft, Words!WordLeft, Arithmetic!Wrapped,
           Words!Wrapped, Arithmetic!Base, Words!Base
  <2>4. \A z : Arithmetic!Wrapped(z) = Words!Wrapped(z)
    BY DEF Arithmetic!Wrapped, Words!Wrapped, Arithmetic!Base, Words!Base
  <2> QED BY <1>7, <2>1, <2>2, <2>3, <2>4 DEF Arithmetic!Mul128, Words!Mul128
<1>14. Arithmetic!Of256(x) = Words!Of256(x)
  BY DEF Arithmetic!Of256, Words!Of256, Arithmetic!Of128, Words!Of128
<1> QED BY <1>1, <1>2, <1>3, <1>4, <1>8, <1>9, <1>10, <1>11, <1>12, <1>13, <1>14

LEMMA ArithmeticTypes ==
    /\ Arithmetic!U256 = Words!U256 /\ Arithmetic!Zero256 = Words!Zero256
    /\ Arithmetic!Modulus = Words!Base256
    /\ Words!WordAssumption /\ Words!PowerLaws /\ Words!OrLaws
<1>1. Words!WordAssumption /\ Words!PowerLaws /\ Words!OrLaws
  BY DivisionLaws DEF Words!Laws
<1>2. Words!Base256 = 2^(4 * W)
  BY <1>1, Words!Bases
<1> QED BY <1>1, <1>2 DEF Arithmetic!U256, Words!U256, Arithmetic!U128, Words!U128,
       Arithmetic!Word, Words!Word, Arithmetic!Base, Words!Base, Arithmetic!Modulus,
       Arithmetic!Zero256, Words!Zero256, Arithmetic!Zero128, Words!Zero128

ArithmeticInv ==
    /\ a \in Words!U256 /\ b \in Words!U256
    /\ Arithmetic!ResultExact

LEMMA ArithmeticInit ==
    ASSUME Arithmetic!Init PROVE ArithmeticInv
<1>1. a \in Words!U256 /\ target = Words!Zero256 /\ call = "NONE"
  BY ArithmeticTypes DEF Arithmetic!Init
<1>2. PICK x \in Operands : b = Words!Of256(x)
  BY SameArithmetic DEF Arithmetic!Init
<1>3. x \in 0 .. 2^(4 * W) - 1
  BY NumbersAssumption DEF NumbersAssumption, Arithmetic!OperandAssumption, Arithmetic!Modulus
<1>4. b \in Words!U256
  BY <1>2, <1>3, DivisionLaws, Words!WordsOfInteger
<1>5. target \in Words!U256 /\ Words!Value256(target) = 0
  BY <1>1, DivisionLaws, Words!Values
<1> QED BY <1>1, <1>4, <1>5, ArithmeticTypes, SameArithmetic
       DEF ArithmeticInv, Arithmetic!ResultExact, Arithmetic!Expected

\* The lower half of a number is what is left of it by the square of the base.
LEMMA LowerHalf ==
    ASSUME NEW x \in Words!U256
    PROVE  /\ Words!Lower(x) \in Words!U128
           /\ Words!Value128(Words!Lower(x)) = Words!Value256(x) % 2^(2 * W)
<1> DEFINE u == Words!Value128(Words!Upper(x))
           k == Words!Value128(Words!Lower(x))
           m == Words!Base128
<1>1. /\ Words!Base \in Nat \ {0} /\ m \in Nat \ {0} /\ 2^(2 * W) = m
  BY ArithmeticTypes, Words!Bases
<1>2. /\ Words!Lower(x) \in Words!U128 /\ u \in 0 .. m - 1 /\ k \in 0 .. m - 1
      /\ Words!Value256(x) = u * m + k
  BY <1>1, Words!Parts256
<1> HIDE DEF u, k, m
<1>3. (u * m + k) % m = k
  <2>1. m \in Nat \ {0} /\ u \in Int /\ k \in 0 .. m - 1
    BY <1>1, <1>2
  <2> QED BY ONLY <2>1, Words!DivisionUnique
<1> QED BY <1>1, <1>2, <1>3 DEF k

LEMMA ArithmeticStep ==
    ASSUME ArithmeticInv, [Arithmetic!Next]_(Arithmetic!vars)
    PROVE  ArithmeticInv'
<1> DEFINE x == Words!Value256(a)
           y == Words!Value256(b)
           m == Words!Base256
<1>1. /\ Words!WordAssumption /\ Words!PowerLaws /\ Words!OrLaws
      /\ a \in Words!U256 /\ b \in Words!U256
  BY ArithmeticTypes DEF ArithmeticInv
<1>2. y \in Nat
  BY <1>1, DivisionLaws, Words!Values
<1>3. CASE Arithmetic!Returns("ADD", Arithmetic!Add256(a, b))
  <2>1. call' = "ADD" /\ target' = Words!Add256(a, b) /\ a' = a /\ b' = b
    BY <1>3, SameArithmetic DEF Arithmetic!Returns
  <2>2. target' \in Words!U256 /\ Words!Value256(target') = (x + y) % m
    BY <1>1, <2>1, Words!SumExact
  <2> QED BY <1>1, <2>1, <2>2, ArithmeticTypes, SameArithmetic
         DEF ArithmeticInv, Arithmetic!ResultExact, Arithmetic!Expected
<1>4. CASE Arithmetic!Returns("MINUS", Arithmetic!Minus256(a, b))
  <2>1. call' = "MINUS" /\ target' = Words!Minus256(a, b) /\ a' = a /\ b' = b
    BY <1>4, SameArithmetic DEF Arithmetic!Returns
  <2>2. target' \in Words!U256 /\ Words!Value256(target') = (x - y) % m
    BY <1>1, <2>1, Words!DifferenceExact
  <2> QED BY <1>1, <2>1, <2>2, ArithmeticTypes, SameArithmetic
         DEF ArithmeticInv, Arithmetic!ResultExact, Arithmetic!Expected
<1>5. CASE Arithmetic!Returns("OR", Arithmetic!Or256(a, b))
  <2>1. call' = "OR" /\ target' = Words!Or256(a, b) /\ a' = a /\ b' = b
    BY <1>5, SameArithmetic DEF Arithmetic!Returns
  <2>2. target' \in Words!U256 /\ Words!Value256(target') = BitOr(x, y)
    BY <1>1, <2>1, Words!OrOfIntegers
  <2> QED BY <1>1, <2>1, <2>2, ArithmeticTypes, SameArithmetic
         DEF ArithmeticInv, Arithmetic!ResultExact, Arithmetic!Expected
<1>6. CASE Arithmetic!Returns("MUL", Arithmetic!Mul256(a, b))
  <2>1. call' = "MUL" /\ target' = Words!Mul256(a, b) /\ a' = a /\ b' = b
    BY <1>6, SameArithmetic DEF Arithmetic!Returns
  <2>2. target' \in Words!U256 /\ Words!Value256(target') = (x * y) % m
    BY <1>1, <2>1, Words!Product256
  <2> QED BY <1>1, <2>1, <2>2, ArithmeticTypes, SameArithmetic
         DEF ArithmeticInv, Arithmetic!ResultExact, Arithmetic!Expected
<1>7. CASE Arithmetic!Returns("MUL128", <<Arithmetic!Zero128,
                                  Arithmetic!Mul128(Arithmetic!Lower(a), Arithmetic!Lower(b))>>)
  <2> DEFINE product == Words!Mul128(Words!Lower(a), Words!Lower(b))
             h == 2^(2 * W)
  <2>1. call' = "MUL128" /\ target' = <<Words!Zero128, product>> /\ a' = a /\ b' = b
    BY <1>7, SameArithmetic
       DEF Arithmetic!Returns, Arithmetic!Lower, Words!Lower, Arithmetic!Zero128,
           Words!Zero128
  <2>2. /\ Words!Lower(a) \in Words!U128 /\ Words!Lower(b) \in Words!U128
        /\ Words!Value128(Words!Lower(a)) = x % h /\ Words!Value128(Words!Lower(b)) = y % h
    BY <1>1, LowerHalf
  <2>3. Words!Base128 = h /\ Words!Base \in Nat \ {0} /\ h \in Nat \ {0}
    BY <1>1, Words!Bases
  <2>4. product \in Words!U128 /\ Words!Value128(product) = ((x % h) * (y % h)) % h
    BY <1>1, <2>2, <2>3, Words!Product128
  <2>5. Words!Value128(product) \in Int
    BY <2>3, <2>4, Words!Parts128
  <2> HIDE DEF product
  <2>6. target' \in Words!U256 /\ Words!Value256(target') = Words!Value128(product)
    <3>1. Words!Zero128 \in Words!U128 /\ Words!Value128(Words!Zero128) = 0
      BY <2>3 DEF Words!Zero128, Words!U128, Words!Word, Words!Value128,
                  Words!Upper, Words!Lower
    <3>2. 0 * (Words!Base * Words!Base) = 0
      BY <2>3
    <3> QED BY <2>1, <2>4, <2>5, <3>1, <3>2
           DEF Words!U256, Words!Value256, Words!Upper, Words!Lower
  <2> QED BY <1>1, <2>1, <2>4, <2>6, ArithmeticTypes, SameArithmetic
         DEF ArithmeticInv, Arithmetic!ResultExact, Arithmetic!Expected
<1>8. CASE Arithmetic!Returns("SHIFTL", Arithmetic!Shiftl256(a, Arithmetic!Value256(b)))
  <2>1. call' = "SHIFTL" /\ target' = Words!Shiftl256(a, y) /\ a' = a /\ b' = b
    BY <1>8, SameArithmetic DEF Arithmetic!Returns
  <2>2. target' \in Words!U256
        /\ Words!Value256(target') = IF y >= 4 * W THEN 0 ELSE (x * 2^y) % m
    <3>1. Words!Value256(Words!Zero256) = 0 /\ W \in Nat
      BY <1>1, DivisionLaws, Words!Values, Words!Bases
    <3> HIDE DEF x, y
    <3> QED BY <1>1, <1>2, <2>1, <3>1, Words!ShiftsExact DEF x
  <2> QED BY <1>1, <2>1, <2>2, ArithmeticTypes, SameArithmetic
         DEF ArithmeticInv, Arithmetic!ResultExact, Arithmetic!Expected
<1>9. CASE Arithmetic!Returns("SHIFTR", Arithmetic!Shiftr256(a, Arithmetic!Value256(b)))
  <2>1. call' = "SHIFTR" /\ target' = Words!Shiftr256(a, y) /\ a' = a /\ b' = b
    BY <1>9, SameArithmetic DEF Arithmetic!Returns
  <2>2. target' \in Words!U256
        /\ Words!Value256(target') = IF y >= 4 * W THEN 0 ELSE x \div 2^y
    <3>1. Words!Value256(Words!Zero256) = 0 /\ W \in Nat
      BY <1>1, DivisionLaws, Words!Values, Words!Bases
    <3> HIDE DEF x, y
    <3> QED BY <1>1, <1>2, <2>1, <3>1, Words!ShiftsExact DEF x
  <2> QED BY <1>1, <2>1, <2>2, ArithmeticTypes, SameArithmetic
         DEF ArithmeticInv, Arithmetic!ResultExact, Arithmetic!Expected
<1>10. CASE UNCHANGED Arithmetic!vars
  BY <1>10, ArithmeticTypes
     DEF Arithmetic!vars, ArithmeticInv, Arithmetic!ResultExact, Arithmetic!Expected,
         Arithmetic!Modulus
<1> QED BY <1>3, <1>4, <1>5, <1>6, <1>7, <1>8, <1>9, <1>10 DEF Arithmetic!Next

LEMMA ArithmeticOrder ==
    ASSUME ArithmeticInv PROVE Arithmetic!OrderExact
<1>1. /\ Words!WordAssumption /\ Words!PowerLaws
      /\ a \in Words!U256 /\ b \in Words!U256
  BY ArithmeticTypes DEF ArithmeticInv
<1>2. /\ Words!Gt256(a, b) <=> Words!Value256(a) > Words!Value256(b)
      /\ Words!Gte256(a, b) <=> Words!Value256(a) >= Words!Value256(b)
  BY <1>1, Words!OrderOfIntegers
<1>3. Words!Bits256(a) \in 0 .. 4 * W /\ Words!IsWidth(Words!Bits256(a), Words!Value256(a))
  BY <1>1, Words!BitsOf256
<1>4. a # Words!Zero256 => Words!Bits256(a) > 0
  <2> SUFFICES ASSUME a # Words!Zero256, Words!Bits256(a) = 0 PROVE FALSE
    BY <1>3
  <2>1. Words!Value256(a) < 1
    <3>1. 2^0 = 1
      OBVIOUS
    <3> QED BY <1>3, <3>1 DEF Words!IsWidth
  <2> QED BY <1>1, <2>1, DivisionLaws, Words!Values
<1> QED BY <1>1, <1>2, <1>3, <1>4, ArithmeticTypes, SameArithmetic
       DEF Arithmetic!OrderExact, Words!IsWidth

\* The arithmetic of uint256.c is that of the integers modulo 2^256, for words of
\* any width and every pair of numbers: carries and borrows cross the words,
\* shifts have their borders at every width of a word, the products by columns
\* lose nothing below 2^256, and order and widths are those of the integers.
THEOREM ArithmeticByWords == Spec => []ArithmeticExact
<1> DEFINE Inv == job = "ARITHMETIC" => ArithmeticInv
<1>1. Init => Inv
  BY ArithmeticInit DEF Init
<1>2. Inv /\ [Next]_vars => Inv'
  <2> SUFFICES ASSUME Inv, [Next]_vars, job' = "ARITHMETIC" PROVE ArithmeticInv'
    OBVIOUS
  <2>1. job = "ARITHMETIC" /\ ArithmeticInv
    BY DEF Next, Calculate, Divide, PrintDigits, WriteHeader, ConvertAddress, vars
  <2>2. [Arithmetic!Next]_(Arithmetic!vars)
    BY <2>1 DEF Next, Calculate, Divide, PrintDigits, WriteHeader, ConvertAddress, vars,
                arithmeticVars, Arithmetic!vars
  <2> QED BY <2>1, <2>2, ArithmeticStep
<1>3. Inv => ArithmeticExact
  BY ArithmeticOrder DEF ArithmeticExact, ArithmeticInv
<1> HIDE DEF Inv
<1> QED BY <1>1, <1>2, <1>3, PTL DEF Spec
=============================================================================
