-------------------------- MODULE Numerals_proofs ---------------------------
(***************************************************************************)
(* Powers, quotients and digits: the lemmas on which the proofs about      *)
(* numbers and texts rest, and that digits in their places are read as the *)
(* number.                                                                 *)
(***************************************************************************)
EXTENDS Numerals, TLAPS, WellFoundedInduction

-----------------------------------------------------------------------------
(* Powers, quotients and remainders.                                       *)

\* A set of numbers has a least one.
LEMMA Least ==
    ASSUME NEW S \in SUBSET Nat, S # {}
    PROVE  \E m \in S : \A k \in S : m <= k
<1> DEFINE Less == OpToRel(<, Nat)
<1>1. IsWellFoundedOn(Less, Nat)
  BY NatLessThanWellFounded
<1>2. \A s \in Nat \X Nat : s[1] < s[2] => s \in Less
  BY DEF OpToRel
<1> HIDE DEF Less
<1>3. PICK m \in S : \A k \in S : ~(<<k, m>> \in Less)
  BY <1>1, WFMin
<1>4. ASSUME NEW k \in S, k < m
      PROVE  FALSE
  <2> DEFINE s == <<k, m>>
  <2>1. s \in Nat \X Nat /\ s[1] < s[2]
    BY <1>4
  <2> QED BY <2>1, <1>2, <1>3
<1> QED BY <1>4

LEMMA PowerLaw ==
    ASSUME PowerLaws, NEW b \in 2..16, NEW j \in Nat, NEW k \in Nat
    PROVE  b^0 = 1 /\ b^1 = b /\ b^(j + k) = b^j * b^k
<1>1. PowersMultiply(b, j, k)
  BY Zenon DEF PowerLaws
<1> QED BY Zenon, <1>1 DEF PowersMultiply

LEMMA NextPower ==
    ASSUME PowerLaws, NEW b \in 2..16, NEW k \in Nat
    PROVE  b^(k + 1) = b^k * b /\ b^0 = 1
<1>1. 1 \in Nat
  OBVIOUS
<1>2. b^(k + 1) = b^k * b^1 /\ b^1 = b /\ b^0 = 1
  BY Zenon, <1>1, PowerLaw
<1> QED BY Zenon, <1>2

LEMMA PowerPositive ==
    ASSUME PowerLaws, NEW b \in 2..16, NEW k \in Nat
    PROVE  b^k \in Nat \ {0}
<1> DEFINE Bad == {j \in Nat : b^j \notin Nat \ {0}}
<1>1. SUFFICES ASSUME Bad # {} PROVE FALSE
  OBVIOUS
<1>2. PICK m \in Bad : \A j \in Bad : m <= j
  <2> HIDE DEF Bad
  <2>1. Bad \in SUBSET Nat
    BY DEF Bad
  <2> QED BY <2>1, <1>1, Least
<1>3. CASE m = 0
  <2>1. b^0 = 1
    BY PowerLaw
  <2> QED BY <2>1, <1>3, <1>2
<1>4. CASE m # 0
  <2>1. m - 1 \in Nat /\ m - 1 \notin Bad
    BY <1>2, <1>4
  <2>2. b^(m - 1) \in Nat \ {0}
    BY <2>1
  <2>3. b^((m - 1) + 1) = b^(m - 1) * b
    BY Zenon, <2>1, NextPower
  <2>4. b^(m - 1) * b \in Nat \ {0}
    BY <2>2, SMT
  <2>5. (m - 1) + 1 = m
    BY <1>2
  <2> QED BY <2>3, <2>4, <2>5, <1>2
<1> QED BY <1>3, <1>4

LEMMA PowersOrdered ==
    ASSUME PowerLaws, NEW b \in 2..16, NEW j \in Nat, NEW k \in Nat, j <= k
    PROVE  b^j <= b^k
<1>1. k - j \in Nat /\ j + (k - j) = k
  OBVIOUS
<1>2. b^k = b^j * b^(k - j)
  <2>1. b^(j + (k - j)) = b^j * b^(k - j)
    BY <1>1, PowerLaw
  <2> QED BY <2>1, <1>1
<1>3. b^j \in Nat \ {0} /\ b^(k - j) \in Nat \ {0}
  BY <1>1, PowerPositive
<1> DEFINE x == b^j
           y == b^(k - j)
<1>4. x * y >= x
  <2>1. x \in Nat /\ y \in Nat /\ y >= 1
    BY <1>3
  <2> HIDE DEF x, y
  <2> QED BY <2>1, SMT
<1> QED BY <1>2, <1>4

LEMMA WithRemainder ==
    ASSUME NEW x \in Nat, NEW d \in Nat, d > 0
    PROVE  x = d * (x \div d) + (x % d) /\ x % d \in 0 .. d - 1 /\ x \div d \in Nat
BY SMT

LEMMA Quotient ==
    ASSUME NEW d \in Nat, d > 0, NEW q \in Nat, NEW r \in 0 .. d - 1
    PROVE  (q * d + r) \div d = q /\ (q * d + r) % d = r
<1> DEFINE x == q * d + r
           p == x \div d
           s == x % d
<1>1. x \in Nat
  BY SMT
<1>2. x = p * d + s /\ s \in 0 .. d - 1 /\ p \in Nat
  <2> HIDE DEF x
  <2>1. x = d * (x \div d) + (x % d) /\ x % d \in 0 .. d - 1 /\ x \div d \in Nat
    BY <1>1, WithRemainder
  <2> QED BY <2>1, SMT
<1>3. x = q * d + r
  OBVIOUS
<1> HIDE DEF x, p, s
<1>4. p = q
  <2>1. (p - q) * d < d /\ (q - p) * d < d
    BY <1>2, <1>3, SMT
  <2>2. CASE p - q >= 1
    <3>1. (p - q) * d >= d
      BY <2>2, <1>2, SMT
    <3> QED BY <3>1, <2>1, <1>2
  <2>3. CASE q - p >= 1
    <3>1. (q - p) * d >= d
      BY <2>3, <1>2, SMT
    <3> QED BY <3>1, <2>1, <1>2
  <2> QED BY <2>2, <2>3, <1>2
<1>5. s = r
  BY <1>2, <1>3, <1>4, SMT
<1> QED BY <1>4, <1>5 DEF x, p, s

\* The highest digit of a number.
LEMMA QuotientBetween ==
    ASSUME NEW x \in Nat, NEW d \in Nat, d > 0, NEW b \in Nat, d <= x, x < d * b
    PROVE  x \div d \in 1 .. b - 1
<1> DEFINE q == x \div d
           r == x % d
<1>1. x = d * q + r /\ r \in 0 .. d - 1 /\ q \in Nat
  BY WithRemainder
<1> HIDE DEF q, r
<1>2. q # 0
  <2>1. SUFFICES ASSUME q = 0 PROVE FALSE
    OBVIOUS
  <2>2. d * q = 0
    BY <2>1
  <2> QED BY <2>2, <1>1
<1>3. q < b
  <2>1. SUFFICES ASSUME q >= b PROVE FALSE
    BY <1>1
  <2>2. d * q >= d * b
    BY <2>1, <1>1, SMT
  <2>3. d * q \in Nat /\ d * b \in Nat
    BY <1>1, SMT
  <2> QED BY <2>2, <2>3, <1>1
<1> QED BY <1>1, <1>2, <1>3 DEF q

\* Two divisions are one.
LEMMA QuotientOfQuotient ==
    ASSUME NEW x \in Nat, NEW d \in Nat, d > 0, NEW e \in Nat, e > 0
    PROVE  (x \div d) \div e = x \div (d * e)
<1> DEFINE q == x \div d
           r == x % d
           p == q \div e
           s == q % e
<1>1. x = d * q + r /\ r \in 0 .. d - 1 /\ q \in Nat
  BY WithRemainder
<1>2. q = e * p + s /\ s \in 0 .. e - 1 /\ p \in Nat
  <2> HIDE DEF q
  <2> QED BY <1>1, WithRemainder
<1> HIDE DEF q, r, p, s
<1>3. d * e \in Nat /\ d * e > 0
  BY SMT
<1>4. x = p * (d * e) + (d * s + r)
  <2>1. d * (e * p + s) = p * (d * e) + d * s
    BY <1>1, <1>2, SMT
  <2> QED BY <1>1, <1>2, <2>1, SMT
<1>5. d * s + r \in 0 .. d * e - 1
  <2>1. d * s \in Nat /\ d * s <= d * (e - 1)
    BY <1>2, SMT
  <2>2. d * (e - 1) = d * e - d
    BY SMT
  <2> QED BY <2>1, <2>2, <1>1, <1>3
<1>6. x \div (d * e) = p
  <2> DEFINE m == d * e
             t == d * s + r
  <2>1. m \in Nat /\ m > 0 /\ t \in 0 .. m - 1 /\ x = p * m + t
    BY <1>3, <1>4, <1>5
  <2> HIDE DEF m, t
  <2>2. x \div m = p
    BY <2>1, <1>2, Quotient
  <2> QED BY <2>2 DEF m
<1> QED BY <1>6 DEF p, q

\* The test for an overflow is right: with the quotient the product is whole.
LEMMA ProductWhole ==
    ASSUME NEW m \in Nat \ {0}, NEW i \in Nat, ((i * 10) % m) \div 10 = i
    PROVE  (i * 10) % m = i * 10
<1> DEFINE x == i * 10
           q == x \div m
           r == x % m
<1>1. x = m * q + r /\ r \in 0 .. m - 1 /\ q \in Nat /\ x \in Nat
  <2>1. x \in Nat
    OBVIOUS
  <2> HIDE DEF x
  <2> QED BY <2>1, WithRemainder
<1>2. r \div 10 = i /\ x = i * 10
  OBVIOUS
<1> HIDE DEF x, q, r
<1>3. r >= i * 10
  BY <1>1, <1>2
<1>4. m * q <= 0
  BY <1>1, <1>2, <1>3, SMT
<1>5. q = 0
  <2>1. SUFFICES ASSUME q >= 1 PROVE FALSE
    BY <1>1
  <2>2. m * q >= m /\ m * q \in Nat
    BY <2>1, <1>1, SMT
  <2> DEFINE y == m * q
  <2>3. y >= m /\ y \in Nat /\ y <= 0
    BY <2>2, <1>4
  <2> HIDE DEF y
  <2> QED BY <2>3
<1>6. r = x
  BY <1>1, <1>5, SMT
<1> QED BY <1>6 DEF r, x

\* A limb and what is above it, divided by ten: the remainder is that of the
\* whole, the quotient the limb of the quotient.
LEMMA LimbDivided ==
    ASSUME NEW y \in Nat, NEW m \in Nat, m > 0
    PROVE  LET z == ((y \div m) % 10) * m + (y % m)
           IN  z % 10 = y % 10 /\ z \div 10 = (y \div 10) % m
<1> DEFINE h == y \div m
           l == y % m
           c == h % 10
           q == h \div 10
           z == c * m + l
           t == z \div 10
           u == z % 10
<1>1. y = m * h + l /\ l \in 0 .. m - 1 /\ h \in Nat
  BY WithRemainder
<1>2. h = 10 * q + c /\ c \in 0..9 /\ q \in Nat
  <2> HIDE DEF h
  <2> QED BY <1>1, WithRemainder
<1> HIDE DEF h, l, c, q
<1>3. z = c * m + l /\ z \in Nat
  BY <1>1, <1>2, SMT
<1>4. z = 10 * t + u /\ u \in 0..9 /\ t \in Nat
  <2>1. z \in Nat
    BY <1>3
  <2> HIDE DEF z
  <2> QED BY <2>1, SMT
<1> HIDE DEF z, t, u
<1>5. t < m
  <2>1. c * m <= 9 * m
    BY <1>2, SMT
  <2>2. z < 10 * m
    BY <2>1, <1>1, <1>2, <1>3, SMT
  <2> QED BY <2>2, <1>4
<1>6. m * q \in Nat /\ m * q + t \in Nat
  BY <1>2, <1>4, SMT
<1>7. y = (m * q + t) * 10 + u
  <2>1. m * (10 * q + c) = 10 * (m * q) + c * m
    BY <1>2, SMT
  <2>2. y = 10 * (m * q) + c * m + l
    BY <2>1, <1>1, <1>2
  <2> DEFINE e == m * q
             f == c * m
  <2>3. e \in Nat /\ f \in Nat
    BY <1>2, SMT
  <2>4. y = 10 * e + f + l /\ z = f + l
    BY <2>2, <1>3
  <2> HIDE DEF e, f
  <2>5. y = (e + t) * 10 + u
    BY <2>3, <2>4, <1>1, <1>4
  <2> QED BY <2>5 DEF e
<1>8. y % 10 = u /\ y \div 10 = m * q + t
  <2> DEFINE p == m * q + t
  <2>1. p \in Nat /\ y = p * 10 + u
    BY <1>6, <1>7
  <2> HIDE DEF p
  <2>2. y % 10 = u /\ y \div 10 = p
    BY <2>1, <1>4
  <2> QED BY <2>2 DEF p
<1>9. (m * q + t) % m = t
  <2>1. m * q = q * m
    BY <1>2, SMT
  <2>2. (q * m + t) % m = t
    BY <1>2, <1>4, <1>5, Quotient
  <2> QED BY <2>1, <2>2
<1> QED BY <1>8, <1>9 DEF z, c, h, l, t, u

-----------------------------------------------------------------------------
(* Reading digits.                                                         *)

\* A function that satisfies the equations of upTo is the one that is chosen.
LEMMA ReadByPrefixes ==
    ASSUME NEW digits \in Seq(Nat), NEW b \in Nat, NEW f \in [0 .. Len(digits) -> Nat],
           f[0] = 0,
           \A i \in 1 .. Len(digits) : f[i] = f[i - 1] * b + digits[i]
    PROVE  ValueIn(digits, b) = f[Len(digits)]
<1> DEFINE size == Len(digits)
           UpTo(g) == [i \in 0 .. size |-> IF i = 0 THEN 0 ELSE g[i - 1] * b + digits[i]]
           upTo == CHOOSE g : g = UpTo(g)
<1>1. size \in Nat
  OBVIOUS
<1>2. f = UpTo(f)
  <2>1. \A i \in 0 .. size : f[i] = UpTo(f)[i]
    OBVIOUS
  <2> QED BY <2>1
<1>3. upTo = UpTo(upTo)
  <2> HIDE DEF UpTo
  <2> QED BY <1>2
<1>4. ValueIn(digits, b) = upTo[size]
  BY DEF ValueIn
<1> HIDE DEF upTo
<1> DEFINE Bad == {i \in 0 .. size : upTo[i] # f[i]}
<1>5. SUFFICES ASSUME Bad # {} PROVE FALSE
  BY <1>1, <1>4
<1>6. PICK i \in Bad : \A k \in Bad : i <= k
  <2>1. Bad \in SUBSET Nat
    BY <1>1
  <2> HIDE DEF Bad
  <2> QED BY <1>5, <2>1, Least
<1>7. i \in 0 .. size /\ upTo[i] # f[i]
  OBVIOUS
<1>8. CASE i = 0
  BY <1>3, <1>7, <1>8
<1>9. CASE i # 0
  <2>1. i - 1 \in 0 .. size /\ i \in 1 .. size /\ ~(i <= i - 1)
    BY <1>1, <1>7, <1>9
  <2>2. upTo[i - 1] = f[i - 1]
    BY <1>6, <2>1
  <2>3. upTo[i] = upTo[i - 1] * b + digits[i]
    BY <1>3, <2>1
  <2> QED BY <1>7, <2>1, <2>2, <2>3
<1> QED BY <1>8, <1>9

\* What is printed in place is read as the number.
LEMMA ReadInPlace ==
    ASSUME PowerLaws, NEW b \in 2..16, NEW x \in Nat, NEW digits \in Seq(Nat),
           InPlace(digits, b, x)
    PROVE  ValueIn(digits, b) = x
<1> DEFINE size == Len(digits)
           f == [i \in 0 .. size |-> x \div b^(size - i)]
<1>1. size \in Nat
  OBVIOUS
<1>2. \A k \in Nat : b^k \in Nat \ {0} /\ b^(k + 1) = b^k * b
  BY PowerPositive, NextPower
<1>3. f \in [0 .. size -> Nat]
  <2>1. ASSUME NEW i \in 0 .. size PROVE x \div b^(size - i) \in Nat
    <3> DEFINE m == b^(size - i)
    <3>1. size - i \in Nat
      BY <1>1
    <3>2. m \in Nat \ {0}
      BY <1>2, <3>1
    <3> HIDE DEF m
    <3>3. x \div m \in Nat
      BY <3>2, WithRemainder
    <3> QED BY <3>3 DEF m
  <2> QED BY <2>1
<1>4. f[0] = 0
  <2> DEFINE m == b^size
  <2>1. m \in Nat \ {0} /\ x < m
    BY <1>1, <1>2 DEF InPlace
  <2>2. f[0] = x \div m
    BY <1>1
  <2> HIDE DEF m, f
  <2> QED BY <2>1, <2>2
<1>5. ASSUME NEW i \in 1 .. size
      PROVE  f[i] = f[i - 1] * b + digits[i]
  <2> DEFINE m == b^(size - i)
             q == x \div m
  <2>1. size - i \in Nat /\ i - 1 \in 0 .. size /\ i \in 0 .. size
        /\ size - (i - 1) = (size - i) + 1
    BY <1>1
  <2>2. m \in Nat \ {0} /\ b^(size - (i - 1)) = m * b
    BY <1>2, <2>1
  <2>3. digits[i] = q % b
    BY DEF InPlace
  <2>4. f[i] = q /\ f[i - 1] = x \div (m * b)
    BY <2>1, <2>2
  <2> HIDE DEF m, f
  <2>5. x \div (m * b) = q \div b /\ q \in Nat
    <3>1. m \in Nat /\ m > 0 /\ b \in Nat /\ b > 0 /\ x \in Nat
      BY <2>2
    <3>2. (x \div m) \div b = x \div (m * b) /\ x \div m \in Nat
      BY ONLY <3>1, QuotientOfQuotient, WithRemainder
    <3> QED BY <3>2
  <2> HIDE DEF q
  <2>6. q = b * (q \div b) + (q % b) /\ q \div b \in Nat
    BY <2>5, WithRemainder
  <2> DEFINE up == q \div b
             last == q % b
  <2>7. up \in Nat /\ last \in Nat /\ q = b * up + last /\ b \in Nat
    BY <2>5, <2>6
  <2>8. f[i] = q /\ f[i - 1] = up /\ digits[i] = last
    BY <2>3, <2>4, <2>5
  <2> HIDE DEF up, last
  <2> QED BY ONLY <2>7, <2>8
<1>6. f[size] = x
  <2>1. b^0 = 1 /\ size - size = 0
    <3>1. b^0 = 1
      BY Zenon, <1>1, NextPower
    <3> QED BY <1>1, <3>1
  <2>2. f[size] = x \div b^0
    BY <1>1, <2>1
  <2> HIDE DEF f
  <2> QED BY <2>1, <2>2
<1> HIDE DEF f
<1>7. \A i \in 1 .. Len(digits) : f[i] = f[i - 1] * b + digits[i]
  BY <1>5
<1>8. ValueIn(digits, b) = f[Len(digits)]
  <2>1. b \in Nat /\ f \in [0 .. Len(digits) -> Nat]
    BY <1>3
  <2> QED BY ONLY <2>1, <1>4, <1>7, ReadByPrefixes, digits \in Seq(Nat)
<1> QED BY <1>6, <1>8
=============================================================================
