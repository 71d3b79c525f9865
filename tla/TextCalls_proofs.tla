--------------------------- MODULE TextCalls_proofs --------------------------
(***************************************************************************)
(* Proofs about the texts.  The first part is about one text: what it shows*)
(* of a number, digit by digit (Shown), that adjustDecimals and            *)
(* amountToString write such a text, and that a reader takes it for that   *)
(* number.  Behind it the three parts of TextCalls: the texts of a         *)
(* transaction, the approval screens, and the library calls with the       *)
(* comparison that follows SIGN_TRANSACTION.                               *)
(***************************************************************************)
EXTENDS TextCalls, Numerals_proofs, SequenceTheorems

-----------------------------------------------------------------------------
(* The digits of a number.                                                 *)

DigitAt(x, j) == (x \div 10^j) % 10

LEMMA TenTo ==
    ASSUME PowerLaws, NEW k \in Nat
    PROVE  10^k \in Nat \ {0} /\ 10^(k + 1) = 10^k * 10 /\ 10^0 = 1
<1>1. 10 \in 2..16
  OBVIOUS
<1> QED BY Zenon, <1>1, PowerPositive, NextPower

LEMMA TenToSum ==
    ASSUME PowerLaws, NEW j \in Nat, NEW k \in Nat
    PROVE  10^(j + k) = 10^j * 10^k
<1>1. 10 \in 2..16
  OBVIOUS
<1> QED BY Zenon, <1>1, PowerLaw

LEMMA TenToOrdered ==
    ASSUME PowerLaws, NEW j \in Nat, NEW k \in Nat, j <= k
    PROVE  10^j <= 10^k
<1>1. 10 \in 2..16
  OBVIOUS
<1> QED BY Zenon, <1>1, PowersOrdered

LEMMA DigitOfQuotient ==
    ASSUME PowerLaws, NEW x \in Nat, NEW j \in Nat, NEW k \in Nat
    PROVE  DigitAt(x \div 10^k, j) = DigitAt(x, j + k)
<1> DEFINE m == 10^k
           n == 10^j
<1>1. m \in Nat \ {0} /\ n \in Nat \ {0}
  BY TenTo
<1>2. 10^(j + k) = n * m
  BY TenToSum
<1> HIDE DEF m, n
<1>3. (x \div m) \div n = x \div (m * n)
  BY <1>1, QuotientOfQuotient
<1>4. m * n = n * m
  BY <1>1, SMT
<1>5. (x \div m) \div n = x \div 10^(j + k)
  BY ONLY <1>2, <1>3, <1>4
<1> QED BY ONLY <1>5 DEF DigitAt, m, n

LEMMA DigitRange ==
    ASSUME PowerLaws, NEW x \in Nat, NEW j \in Nat
    PROVE  DigitAt(x, j) \in 0..9 /\ x \div 10^j \in Nat
<1> DEFINE m == 10^j
           q == x \div m
<1>1. m \in Nat \ {0}
  BY TenTo
<1> HIDE DEF m
<1>2. q \in Nat
  BY <1>1, WithRemainder
<1> HIDE DEF q
<1>3. q % 10 \in 0..9
  BY <1>2
<1> QED BY ONLY <1>2, <1>3 DEF DigitAt, m, q

LEMMA QuotientBelow ==
    ASSUME PowerLaws, NEW x \in Nat, NEW j \in Nat, NEW k \in Nat, x < 10^(j + k)
    PROVE  x \div 10^k < 10^j
<1> DEFINE m == 10^k
           n == 10^j
           q == x \div m
           r == x % m
<1>1. m \in Nat \ {0} /\ n \in Nat \ {0}
  BY TenTo
<1>2. x < n * m
  BY TenToSum
<1> HIDE DEF m, n
<1>3. x = m * q + r /\ r \in 0 .. m - 1 /\ q \in Nat
  BY <1>1, WithRemainder
<1> HIDE DEF q, r
<1>4. SUFFICES ASSUME q >= n PROVE FALSE
  BY <1>1, <1>3 DEF q, m, n
<1>5. m * q >= n * m
  BY <1>1, <1>3, <1>4, SMT
<1> DEFINE y == m * q
           z == n * m
<1>6. y \in Nat /\ z \in Nat /\ y >= z /\ x = y + r /\ x < z
  BY <1>1, <1>2, <1>3, <1>5, SMT
<1> HIDE DEF y, z
<1> QED BY <1>3, <1>6

LEMMA DigitAbove ==
    ASSUME PowerLaws, NEW x \in Nat, NEW j \in Nat, x < 10^j
    PROVE  DigitAt(x, j) = 0
<1>1. x \div 10^j < 10^0 /\ 10^0 = 1
  <2>1. 0 + j = j
    OBVIOUS
  <2>2. x < 10^(0 + j)
    BY <2>1
  <2> QED BY <2>2, QuotientBelow, TenTo
<1>2. x \div 10^j \in Nat
  BY DigitRange
<1> DEFINE q == x \div 10^j
<1>3. q \in Nat /\ q < 1
  BY <1>1, <1>2
<1> HIDE DEF q
<1>4. q % 10 = 0
  BY <1>3
<1> QED BY ONLY <1>4 DEF DigitAt, q

\* Zeros at the end are the factor they stand for.
LEMMA TrailingZeros ==
    ASSUME PowerLaws, NEW x \in Nat, NEW k \in Nat,
           \A j \in 0 .. k - 1 : DigitAt(x, j) = 0
    PROVE  x = 10^k * (x \div 10^k)
<1> DEFINE Whole(j) == x = 10^j * (x \div 10^j)
           Bad == {j \in 0 .. k : ~Whole(j)}
<1> SUFFICES Whole(k)
  OBVIOUS
<1>1. SUFFICES ASSUME Bad # {} PROVE FALSE
  <2> HIDE DEF Whole
  <2> QED OBVIOUS
<1>2. PICK j \in Bad : \A i \in Bad : j <= i
  <2>1. Bad \in SUBSET Nat
    OBVIOUS
  <2> HIDE DEF Bad
  <2> QED BY <1>1, <2>1, Least
<1>3. j \in 0 .. k /\ ~Whole(j)
  OBVIOUS
<1>4. j # 0
  <2>1. 10^0 = 1
    BY TenTo
  <2>2. x = 1 * (x \div 1)
    BY SMT
  <2>3. Whole(0)
    BY ONLY <2>1, <2>2
  <2> HIDE DEF Whole
  <2> QED BY <2>3, <1>3
<1>5. j - 1 \in 0 .. k - 1 /\ j - 1 \in 0 .. k /\ j - 1 \in Nat /\ ~(j <= j - 1)
  BY <1>3, <1>4
<1>6. Whole(j - 1)
  <2> HIDE DEF Whole
  <2> QED BY <1>2, <1>5
<1>7. DigitAt(x, j - 1) = 0
  BY <1>5
<1> DEFINE m == 10^(j - 1)
           q == x \div m
<1>8. m \in Nat \ {0} /\ 10^j = m * 10
  <2>1. (j - 1) + 1 = j
    BY <1>3
  <2> QED BY <2>1, <1>5, TenTo
<1>9. x = m * q /\ q % 10 = 0
  BY <1>6, <1>7 DEF DigitAt
<1> HIDE DEF m, Whole
<1>10. q \in Nat
  BY <1>8, WithRemainder
<1>11. q \div 10 = x \div (m * 10)
  BY <1>8, QuotientOfQuotient
<1> HIDE DEF q
<1>12. q = 10 * (q \div 10) /\ q \div 10 \in Nat
  BY <1>9, <1>10
<1> DEFINE p == q \div 10
<1>13. x = m * (10 * p) /\ p \in Nat
  BY <1>9, <1>12
<1> HIDE DEF p
<1>14. x = (m * 10) * p
  BY <1>8, <1>13, SMT
<1>15. x = (m * 10) * (x \div (m * 10))
  BY ONLY <1>11, <1>14 DEF p
<1> QED BY ONLY <1>3, <1>8, <1>15 DEF Whole

\* The lower digits are those of the remainder.
LEMMA LowerDigits ==
    ASSUME PowerLaws, NEW x \in Nat, NEW k \in Nat, NEW j \in 0 .. k - 1
    PROVE  DigitAt(x % 10^k, j) = DigitAt(x, j)
<1> DEFINE i == k - (j + 1)
           m == 10^k
           n == 10^j
           e == 10^i
           q == x \div m
           z == x % m
           y == z \div n
           r == z % n
<1>1. j \in Nat /\ i \in Nat /\ k = i + (j + 1) /\ j + 1 \in Nat
  OBVIOUS
<1>2. m \in Nat \ {0} /\ n \in Nat \ {0} /\ e \in Nat \ {0}
  BY <1>1, TenTo
<1>3. m = e * (n * 10)
  <2>1. 10^(i + (j + 1)) = 10^i * 10^(j + 1)
    BY <1>1, TenToSum
  <2>2. 10^(j + 1) = 10^j * 10
    BY <1>1, TenTo
  <2> QED BY ONLY <2>1, <2>2, <1>1
<1> HIDE DEF m, n, e, i
<1>4. x = m * q + z /\ z \in 0 .. m - 1 /\ q \in Nat
  BY <1>2, WithRemainder
<1>5. z \in Nat
  BY <1>2, <1>4
<1> HIDE DEF q, z
<1>6. z = n * y + r /\ r \in 0 .. n - 1 /\ y \in Nat
  BY <1>2, <1>5, WithRemainder
<1> HIDE DEF y, r
<1> DEFINE f == e * q
           u == 10 * f + y
<1>7. f \in Nat /\ u \in Nat
  <2>1. f \in Nat
    BY <1>2, <1>4, SMT
  <2> HIDE DEF f
  <2> QED BY <2>1, <1>6
<1>8. x = u * n + r
  <2>1. m * q = (10 * f) * n
    BY <1>2, <1>3, <1>4, SMT
  <2> HIDE DEF f
  <2>2. u * n = (10 * f) * n + n * y
    BY <1>2, <1>6, <1>7, SMT
  <2> DEFINE a == (10 * f) * n
             b == n * y
  <2>3. a \in Nat /\ b \in Nat
    BY <1>2, <1>6, <1>7, SMT
  <2>4. x = a + z /\ z = b + r /\ u * n = a + b
    BY <1>4, <1>6, <2>1, <2>2
  <2> HIDE DEF a, b, u
  <2> QED BY <2>3, <2>4, <1>6
<1>9. x \div n = u
  <2> HIDE DEF u
  <2> QED BY <1>2, <1>6, <1>7, <1>8, Quotient
<1>10. u % 10 = y % 10
  <2> HIDE DEF f
  <2> QED BY <1>6, <1>7
<1>11. (x \div n) % 10 = y % 10
  BY ONLY <1>9, <1>10
<1> QED BY ONLY <1>11 DEF DigitAt, y, z, n, m

\* Characters that are the digits of a number from place k on are read as its
\* part above that place.
LEMMA ReadFromPlace ==
    ASSUME PowerLaws, NEW x \in Nat, NEW k \in Nat, NEW digits \in Seq(Nat),
           x < 10^(Len(digits) + k),
           \A i \in 1 .. Len(digits) : digits[i] = DigitAt(x, (Len(digits) - i) + k)
    PROVE  ValueIn(digits, 10) = x \div 10^k
<1> DEFINE size == Len(digits)
           q == x \div 10^k
<1>1. size \in Nat /\ 10 \in 2..16
  OBVIOUS
<1>2. q \in Nat
  BY DigitRange
<1>3. q < 10^size
  BY <1>1, QuotientBelow
<1>4. ASSUME NEW i \in 1 .. size
      PROVE  digits[i] = (q \div 10^(size - i)) % 10
  <2>1. size - i \in Nat
    BY <1>1
  <2>2. DigitAt(q, size - i) = DigitAt(x, (size - i) + k)
    BY <2>1, DigitOfQuotient
  <2>3. digits[i] = DigitAt(q, size - i)
    BY <2>2
  <2> QED BY ONLY <2>3 DEF DigitAt
<1>5. InPlace(digits, 10, q)
  BY ONLY <1>3, <1>4 DEF InPlace
<1> HIDE DEF q
<1>6. ValueIn(digits, 10) = q
  BY <1>1, <1>2, <1>5, ReadInPlace
<1> QED BY <1>6 DEF q

-----------------------------------------------------------------------------
(* What a text shows of a number.                                          *)

LEMMA Part ==
    ASSUME NEW S, NEW s \in Seq(S), NEW m \in Nat \ {0}, NEW n \in Int, n <= Len(s)
    PROVE  /\ SubSeq(s, m, n) \in Seq(S)
           /\ Len(SubSeq(s, m, n)) = IF m <= n THEN n - m + 1 ELSE 0
           /\ \A i \in 1 .. n - m + 1 : SubSeq(s, m, n)[i] = s[m + i - 1]
<1>1. \A i \in m .. n : s[i] \in S
  BY ElementOfSeq
<1> QED BY <1>1, SubSeqProperties

\* The text s shows x with w digits before the point and p behind it, of which
\* there are d: the others are zeros.
Shown(s, x, d, w, p) ==
    /\ w \in Nat \ {0} /\ p \in 0 .. d
    /\ s \in Seq(0..10)
    /\ Len(s) = IF p = 0 THEN w ELSE w + 1 + p
    /\ \A i \in 1 .. w : s[i] = DigitAt(x, (w - i) + d)
    /\ p > 0 => s[w + 1] = Dot
    /\ \A i \in 1 .. p : s[w + 1 + i] = DigitAt(x, d - i)
    /\ x < 10^(w + d)
    /\ \A j \in 0 .. d - p - 1 : DigitAt(x, j) = 0

LEMMA PointFound ==
    ASSUME PowerLaws, NEW x \in Nat, NEW d \in Nat, NEW w, NEW p, NEW s,
           Shown(s, x, d, w, p)
    PROVE  PointAt(s) = w + 1
<1>1. w \in Nat \ {0} /\ p \in 0 .. d /\ Len(s) = IF p = 0 THEN w ELSE w + 1 + p
  BY DEF Shown
<1>2. \A i \in 1 .. w : s[i] \in 0..9
  <2>1. ASSUME NEW i \in 1 .. w PROVE s[i] \in 0..9
    <3>1. (w - i) + d \in Nat /\ s[i] = DigitAt(x, (w - i) + d)
      BY <1>1 DEF Shown
    <3> QED BY <3>1, DigitRange
  <2> QED BY <2>1
<1>3. \A i \in 1 .. p : s[w + 1 + i] \in 0..9
  <2>1. ASSUME NEW i \in 1 .. p PROVE s[w + 1 + i] \in 0..9
    <3>1. d - i \in Nat /\ s[w + 1 + i] = DigitAt(x, d - i)
      BY <1>1 DEF Shown
    <3> QED BY <3>1, DigitRange
  <2> QED BY <2>1
<1>4. \A i \in 1 .. Len(s) : s[i] = Dot => i = w + 1
  <2>1. SUFFICES ASSUME NEW i \in 1 .. Len(s), s[i] = Dot, i # w + 1 PROVE FALSE
    OBVIOUS
  <2>2. i \notin 1 .. w
    BY <1>2, <2>1 DEF Dot
  <2>3. p > 0 /\ i - (w + 1) \in 1 .. p /\ w + 1 + (i - (w + 1)) = i
    BY <1>1, <2>1, <2>2
  <2>4. s[w + 1 + (i - (w + 1))] \in 0..9
    BY <1>3, <2>3
  <2> QED BY <2>1, <2>3, <2>4 DEF Dot
<1>5. CASE p = 0
  BY <1>1, <1>4, <1>5 DEF PointAt
<1>6. CASE p > 0
  <2>1. w + 1 \in 1 .. Len(s) /\ s[w + 1] = Dot
    BY <1>1, <1>6 DEF Shown
  <2> QED BY <1>4, <2>1 DEF PointAt
<1> QED BY <1>1, <1>5, <1>6

\* The parts before and behind the point make up the number.
LEMMA PartsMakeNumber ==
    ASSUME PowerLaws, NEW x \in Nat, NEW d \in Nat, NEW p \in 0 .. d,
           \A j \in 0 .. d - p - 1 : DigitAt(x, j) = 0
    PROVE  (x \div 10^d) * 10^d + ((x \div 10^(d - p)) % 10^p) * 10^(d - p) = x
<1> DEFINE m == 10^(d - p)
           n == 10^p
           u == x \div m
           q == u \div n
           z == u % n
<1>1. d - p \in Nat /\ p \in Nat /\ d = p + (d - p)
  OBVIOUS
<1>2. m \in Nat \ {0} /\ n \in Nat \ {0}
  BY <1>1, TenTo
<1>3. 10^d = n * m
  <2>1. 10^(p + (d - p)) = n * m
    BY <1>1, TenToSum
  <2> QED BY <1>1, <2>1
<1>4. x = m * u
  BY <1>1, TrailingZeros
<1> HIDE DEF m, n
<1>5. u \in Nat
  BY <1>2, WithRemainder
<1>6. q = x \div (n * m)
  <2>1. q = x \div (m * n) /\ m * n = n * m
    <3>1. m * n = n * m
      BY <1>2, SMT
    <3> QED BY <1>2, <3>1, QuotientOfQuotient
  <2> QED BY <2>1
<1> HIDE DEF u
<1>7. u = n * q + z /\ z \in Nat /\ q \in Nat
  <2>1. u = n * q + z /\ z \in 0 .. n - 1 /\ q \in Nat
    BY <1>2, <1>5, WithRemainder
  <2> QED BY <1>2, <2>1
<1>8. q * (n * m) + z * m = x
  <2> HIDE DEF q, z
  <2>1. m * (n * q + z) = q * (n * m) + z * m
    BY <1>2, <1>7, SMT
  <2> QED BY <1>4, <1>7, <2>1
<1>9. (x \div (n * m)) * (n * m) + z * m = x
  BY ONLY <1>6, <1>8
<1> QED BY ONLY <1>3, <1>9 DEF z, u, m, n

LEMMA ReadWhole ==
    ASSUME PowerLaws, NEW x \in Nat, NEW d \in Nat, NEW w, NEW p, NEW s,
           Shown(s, x, d, w, p)
    PROVE  LET whole == SubSeq(s, 1, w)
           IN  /\ whole \in Seq(0..9) /\ whole # <<>>
               /\ ReadDigits(whole) = x \div 10^d
<1> DEFINE whole == SubSeq(s, 1, w)
<1>1. w \in Nat \ {0} /\ p \in 0 .. d /\ w <= Len(s) /\ s \in Seq(0..10)
  BY DEF Shown
<1>2. \A i \in 1 .. w : s[i] = DigitAt(x, (w - i) + d) /\ s[i] \in 0..9
  <2>1. ASSUME NEW i \in 1 .. w
        PROVE  s[i] = DigitAt(x, (w - i) + d) /\ s[i] \in 0..9
    <3>1. (w - i) + d \in Nat /\ s[i] = DigitAt(x, (w - i) + d)
      BY <1>1 DEF Shown
    <3> QED BY <3>1, DigitRange
  <2> QED BY <2>1
<1>3. whole \in Seq(0..9) /\ Len(whole) = w /\ \A i \in 1 .. w : whole[i] = s[i]
  <2>1. 1 \in Int /\ w \in Int /\ 1 <= w /\ \A i \in 1 .. w : s[i] \in 0..9
    BY <1>1, <1>2
  <2>2. /\ SubSeq(s, 1, w) \in Seq(0..9)
        /\ Len(SubSeq(s, 1, w)) = IF 1 <= w THEN w - 1 + 1 ELSE 0
        /\ \A i \in 1 .. w - 1 + 1 : SubSeq(s, 1, w)[i] = s[1 + i - 1]
    BY ONLY <2>1, SubSeqProperties
  <2> HIDE DEF whole
  <2>3. w - 1 + 1 = w /\ \A i \in 1 .. w : 1 + i - 1 = i
    BY <1>1
  <2>4. whole = SubSeq(s, 1, w)
    BY DEF whole
  <2> QED BY <2>1, <2>2, <2>3, <2>4
<1> HIDE DEF whole
<1>4. whole # <<>>
  BY <1>1, <1>3
<1>5. x < 10^(Len(whole) + d)
  BY <1>3 DEF Shown
<1>6. whole \in Seq(Nat)
  <2>1. 0..9 \subseteq Nat
    OBVIOUS
  <2> QED BY <1>3, <2>1, SeqMonotonic
<1>7. \A i \in 1 .. Len(whole) : whole[i] = DigitAt(x, (Len(whole) - i) + d)
  BY <1>2, <1>3
<1>8. ValueIn(whole, 10) = x \div 10^d
  BY <1>5, <1>6, <1>7, ReadFromPlace
<1> QED BY <1>3, <1>4, <1>8 DEF whole, ReadDigits

LEMMA ReadFraction ==
    ASSUME PowerLaws, NEW x \in Nat, NEW d \in Nat, NEW w, NEW p, NEW s,
           Shown(s, x, d, w, p)
    PROVE  LET fraction == SubSeq(s, w + 2, Len(s))
           IN  /\ fraction \in Seq(0..9) /\ Len(fraction) = p
               /\ ReadDigits(fraction) = (x \div 10^(d - p)) % 10^p
<1> DEFINE fraction == SubSeq(s, w + 2, Len(s))
           u == x \div 10^(d - p)
           y == u % 10^p
<1>1. w \in Nat \ {0} /\ p \in 0 .. d /\ d - p \in Nat
      /\ Len(s) = IF p = 0 THEN w ELSE w + 1 + p
  BY DEF Shown
<1>2. u \in Nat
  BY <1>1, DigitRange
<1>3. y \in Nat /\ y < 10^(p + 0)
  <2> DEFINE m == 10^p
  <2>1. m \in Nat \ {0} /\ p + 0 = p
    BY <1>1, TenTo
  <2> HIDE DEF m, u
  <2>2. u % m \in Nat /\ u % m < m
    <3>1. u % m \in 0 .. m - 1
      BY <1>2, <2>1, WithRemainder
    <3> QED BY <2>1, <3>1
  <2> QED BY ONLY <2>1, <2>2 DEF m
<1>4. \A i \in 1 .. p : s[w + 1 + i] = DigitAt(y, (p - i) + 0) /\ s[w + 1 + i] \in 0..9
  <2>1. ASSUME NEW i \in 1 .. p
        PROVE  s[w + 1 + i] = DigitAt(y, (p - i) + 0) /\ s[w + 1 + i] \in 0..9
    <3>1. s[w + 1 + i] = DigitAt(x, d - i)
      BY DEF Shown
    <3>2. p - i \in 0 .. p - 1 /\ p - i \in Nat /\ (p - i) + 0 = p - i
          /\ (p - i) + (d - p) = d - i /\ p \in Nat /\ d - i \in Nat
      BY <1>1
    <3>3. DigitAt(u, p - i) = DigitAt(x, (p - i) + (d - p))
      BY <1>1, <3>2, DigitOfQuotient
    <3>4. DigitAt(y, p - i) = DigitAt(u, p - i)
      <4> HIDE DEF u
      <4> QED BY <1>2, <3>2, LowerDigits
    <3>5. DigitAt(x, d - i) \in 0..9
      BY <3>2, DigitRange
    <3> HIDE DEF y, u
    <3> QED BY ONLY <3>1, <3>2, <3>3, <3>4, <3>5
  <2> QED BY <2>1
<1>5. /\ fraction \in Seq(0..9) /\ Len(fraction) = p
      /\ \A i \in 1 .. p : fraction[i] = s[w + 1 + i]
  <2> DEFINE n == Len(s)
  <2>1. w + 2 \in Int /\ n \in Int /\ n - (w + 2) + 1 \in {p, p - 1}
        /\ (w + 2 <= n <=> p > 0) /\ (p > 0 => n - (w + 2) + 1 = p)
        /\ \A i \in 1 .. p : (w + 2) + i - 1 = w + 1 + i
    BY <1>1
  <2>2. \A i \in (w + 2) .. n : s[i] \in 0..9
    <3>1. ASSUME NEW i \in (w + 2) .. n PROVE s[i] \in 0..9
      <4>1. i - (w + 1) \in 1 .. p /\ w + 1 + (i - (w + 1)) = i
        BY <1>1, <3>1
      <4>2. s[w + 1 + (i - (w + 1))] \in 0..9
        BY <1>4, <4>1
      <4> QED BY <4>1, <4>2
    <3> QED BY <3>1
  <2> HIDE DEF n
  <2>3. /\ SubSeq(s, w + 2, n) \in Seq(0..9)
        /\ Len(SubSeq(s, w + 2, n)) = IF w + 2 <= n THEN n - (w + 2) + 1 ELSE 0
        /\ \A i \in 1 .. n - (w + 2) + 1 : SubSeq(s, w + 2, n)[i] = s[(w + 2) + i - 1]
    BY ONLY <2>1, <2>2, SubSeqProperties
  <2> DEFINE f == SubSeq(s, w + 2, n)
  <2>4. f \in Seq(0..9) /\ Len(f) = p /\ \A i \in 1 .. p : f[i] = s[w + 1 + i]
    <3>1. CASE p = 0
      <4>1. f \in Seq(0..9) /\ Len(f) = 0
        BY <2>1, <2>3, <3>1
      <4> HIDE DEF f
      <4> QED BY <3>1, <4>1
    <3>2. CASE p # 0
      <4>1. w + 2 <= n /\ n - (w + 2) + 1 = p
        BY <1>1, <2>1, <3>2
      <4>2. f \in Seq(0..9) /\ Len(f) = p /\ \A i \in 1 .. p : f[i] = s[(w + 2) + i - 1]
        BY ONLY <2>3, <4>1
      <4> HIDE DEF f
      <4> QED BY <2>1, <4>2
    <3> QED BY <3>1, <3>2
  <2> QED BY <2>4 DEF n
<1> HIDE DEF fraction, y
<1>6. fraction \in Seq(Nat)
  <2>1. 0..9 \subseteq Nat
    OBVIOUS
  <2> QED BY <1>5, <2>1, SeqMonotonic
<1>7. \A i \in 1 .. Len(fraction) : fraction[i] = DigitAt(y, (Len(fraction) - i) + 0)
  BY <1>4, <1>5
<1>8. ValueIn(fraction, 10) = y \div 10^0
  <2>1. 0 \in Nat /\ y < 10^(Len(fraction) + 0)
    BY <1>3, <1>5
  <2> QED BY <1>3, <1>6, <1>7, <2>1, ReadFromPlace
<1>9. y \div 10^0 = y
  <2>1. 10^0 = 1
    BY TenTo
  <2>2. y \div 1 = y
    BY <1>3
  <2> QED BY <2>1, <2>2
<1> QED BY <1>5, <1>8, <1>9 DEF fraction, y, u, ReadDigits

\* What shows a number is read as that number, behind any ticker.
LEMMA ShownRead ==
    ASSUME PowerLaws, NEW x \in Nat, NEW d \in Nat, NEW w, NEW p, NEW s,
           Shown(s, x, d, w, p), NEW ticker \in Seq(Nat)
    PROVE  ReadsAs(ticker \o s, ticker, d, x)
<1> DEFINE text == ticker \o s
           whole == SubSeq(s, 1, w)
           fraction == SubSeq(s, w + 2, Len(s))
<1>1. w \in Nat \ {0} /\ p \in 0 .. d /\ s \in Seq(Nat) /\ w + 1 \in Nat
      /\ Len(s) = IF p = 0 THEN w ELSE w + 1 + p
  <2>1. 0..10 \subseteq Nat
    OBVIOUS
  <2>2. s \in Seq(Nat)
    BY <2>1, SeqMonotonic DEF Shown
  <2> QED BY <2>2 DEF Shown
<1>2. /\ text \in Seq(Nat) /\ Len(text) = Len(ticker) + Len(s)
      /\ \A i \in 1 .. Len(ticker) + Len(s) :
            text[i] = IF i <= Len(ticker) THEN ticker[i] ELSE s[i - Len(ticker)]
  BY <1>1, ConcatProperties
<1>3. SubSeq(text, Len(ticker) + 1, Len(text)) = s
  <2> HIDE DEF text
  <2> QED BY <1>1, <1>2
<1>4. IsPrefix(ticker, text)
  <2> HIDE DEF text
  <2> DEFINE n == Len(ticker)
  <2>1. n \in Nat /\ n <= Len(text) /\ \A i \in 1 .. n : text[i] = ticker[i]
    <3>1. n \in Nat /\ Len(s) \in Nat
      BY <1>1
    <3> HIDE DEF n
    <3>2. Len(text) = n + Len(s) /\ \A i \in 1 .. n + Len(s) :
            text[i] = IF i <= n THEN ticker[i] ELSE s[i - n]
      BY ONLY <1>2 DEF n
    <3>3. \A i \in 1 .. n : i \in 1 .. n + Len(s) /\ i <= n
      BY <3>1
    <3> QED BY ONLY <3>1, <3>2, <3>3
  <2>2. SubSeq(ticker, 1, n) = ticker
    OBVIOUS
  <2>3. SubSeq(text, 1, n) = ticker
    <3> DEFINE t == SubSeq(text, 1, n)
    <3>1. t \in Seq(Nat) /\ Len(t) = n /\ \A i \in 1 .. n : t[i] = ticker[i]
      BY <1>2, <2>1
    <3> HIDE DEF t
    <3>2. t = ticker
      BY <3>1, SeqEqual
    <3> QED BY <3>2 DEF t
  <2>4. Len(ticker) <= Len(text) /\ SubSeq(ticker, 1, n) = SubSeq(text, 1, n)
    BY <2>1, <2>2, <2>3
  <2> QED BY ONLY <2>4 DEF IsPrefix
<1>5. PointAt(s) = w + 1
  BY PointFound
<1>6. whole \in Seq(0..9) /\ whole # <<>> /\ ReadDigits(whole) = x \div 10^d
  BY ReadWhole
<1>7. /\ fraction \in Seq(0..9) /\ Len(fraction) = p
      /\ ReadDigits(fraction) = (x \div 10^(d - p)) % 10^p
  BY ReadFraction
<1>8. SubSeq(s, 1, (w + 1) - 1) = whole /\ SubSeq(s, (w + 1) + 1, Len(s)) = fraction
  <2>1. (w + 1) - 1 = w /\ (w + 1) + 1 = w + 2
    BY <1>1
  <2> QED BY <2>1
<1> HIDE DEF text, whole, fraction
<1>9. whole \o fraction \in Seq(0..9)
  BY <1>6, <1>7, ConcatProperties
<1>10. w + 1 <= Len(s) => Len(fraction) \in 1 .. d
  BY <1>1, <1>7
<1>11. ReadDigits(whole) * 10^d + ReadDigits(fraction) * 10^(d - Len(fraction)) = x
  <2>1. (x \div 10^d) * 10^d + ((x \div 10^(d - p)) % 10^p) * 10^(d - p) = x
    BY PartsMakeNumber DEF Shown
  <2> QED BY ONLY <1>6, <1>7, <2>1
<1>12. ReadsAs(text, ticker, d, x)
  BY ONLY <1>3, <1>4, <1>5, <1>6, <1>8, <1>9, <1>10, <1>11 DEF ReadsAs
<1> QED BY ONLY <1>12 DEF text

-----------------------------------------------------------------------------
(* The digits that Decimal and AdjustDecimals leave.                       *)

LEMMA Places ==
    ASSUME PowerLaws, NEW x \in Numbers
    PROVE  \E k \in 1..MaxPlaces : x < 10^k /\ (k > 1 => x >= 10^(k - 1))
<1> DEFINE S == {k \in 1..MaxPlaces : x < 10^k}
<1>1. MaxPlaces \in Nat \ {0}
  BY TextsAssumption DEF TextAssumption
<1>2. \A k \in Nat : 10^k \in Nat \ {0}
  BY TenTo
<1>3. x \in Nat /\ x < 10^MaxPlaces
  <2> DEFINE m == 10^MaxPlaces
  <2>1. m \in Nat \ {0} /\ x \in 0 .. m - 1
    BY <1>1, <1>2 DEF Numbers
  <2> HIDE DEF m
  <2>2. x \in Nat /\ x < m
    BY <2>1
  <2> QED BY <2>2 DEF m
<1>4. MaxPlaces \in S
  BY <1>1, <1>3
<1>5. PICK k \in S : \A j \in S : k <= j
  <2>1. S \in SUBSET Nat /\ S # {}
    BY <1>4
  <2> HIDE DEF S
  <2> QED BY <2>1, Least
<1>6. k \in 1..MaxPlaces /\ x < 10^k
  OBVIOUS
<1>7. ASSUME k > 1 PROVE x >= 10^(k - 1)
  <2>1. k - 1 \in 1..MaxPlaces /\ ~(k <= k - 1) /\ k - 1 \in Nat
    BY <1>1, <1>6, <1>7
  <2>2. ~(x < 10^(k - 1))
    BY <1>5, <2>1
  <2> DEFINE m == 10^(k - 1)
  <2>3. m \in Nat
    BY <1>2, <2>1
  <2> HIDE DEF m
  <2>4. x >= m
    <3>1. ~(x < m)
      BY <2>2 DEF m
    <3> QED BY <3>1, <2>3, <1>3
  <2> QED BY <2>4 DEF m
<1> QED BY <1>6, <1>7

LEMMA DecimalDigits ==
    ASSUME PowerLaws, NEW x \in Numbers
    PROVE  LET src == Decimal(x)
           IN  /\ x \in Nat /\ src \in Seq(0..9) /\ Len(src) \in 1..MaxPlaces
               /\ x < 10^Len(src)
               /\ Len(src) > 1 => x >= 10^(Len(src) - 1)
               /\ \A i \in 1 .. Len(src) : src[i] = DigitAt(x, Len(src) - i)
               /\ src = <<0>> <=> x = 0
<1> DEFINE src == Decimal(x)
           Right(k) == x < 10^k /\ (k > 1 => x >= 10^(k - 1))
           n == CHOOSE k \in 1..MaxPlaces : Right(k)
<1>1. MaxPlaces \in Nat \ {0}
  BY TextsAssumption DEF TextAssumption
<1>2. x \in Nat
  <2> DEFINE m == 10^MaxPlaces
  <2>1. m \in Nat \ {0} /\ x \in 0 .. m - 1
    BY <1>1, TenTo DEF Numbers
  <2> HIDE DEF m
  <2> QED BY <2>1
<1>3. n \in 1..MaxPlaces /\ Right(n)
  <2>1. \E k \in 1..MaxPlaces : Right(k)
    BY Places
  <2> HIDE DEF Right
  <2> QED BY <2>1
<1>4. src = [i \in 1..n |-> (x \div 10^(n - i)) % 10]
  BY DEF Decimal
<1> HIDE DEF src, n
<1>5. \A i \in 1..n : n - i \in Nat /\ DigitAt(x, n - i) \in 0..9
                   /\ src[i] = DigitAt(x, n - i)
  <2>1. ASSUME NEW i \in 1..n
        PROVE  n - i \in Nat /\ DigitAt(x, n - i) \in 0..9
               /\ src[i] = DigitAt(x, n - i)
    <3>1. n - i \in Nat
      BY <1>3
    <3> QED BY <1>2, <1>4, <3>1, DigitRange DEF DigitAt
  <2> QED BY <2>1
<1>6. src \in [1..n -> 0..9]
  BY <1>4, <1>5
<1>7. src \in Seq(0..9) /\ Len(src) = n
  BY <1>3, <1>6
<1>8. CASE x = 0
  <2>1. n = 1
    <3>1. SUFFICES ASSUME n > 1 PROVE FALSE
      BY <1>3
    <3> DEFINE m == 10^(n - 1)
    <3>2. m \in Nat \ {0} /\ x >= m
      BY <1>3, <3>1, TenTo
    <3> HIDE DEF m
    <3> QED BY <3>2, <1>8
  <2>2. src[1] = 0
    <3>1. DigitAt(0, 0) = 0
      <4>1. 0 \in Nat /\ 10^0 = 1
        BY TenTo
      <4>2. 0 < 10^0
        BY <4>1
      <4> QED BY ONLY PowerLaws, <4>1, <4>2, DigitAbove
    <3> QED BY <1>5, <1>8, <2>1, <3>1
  <2>3. src = <<0>>
    BY <1>7, <2>1, <2>2
  <2> QED BY <1>2, <1>3, <1>5, <1>7, <1>8, <2>3 DEF src
<1>9. CASE x # 0
  <2>1. ASSUME n = 1, src[1] = 0 PROVE FALSE
    <3>1. 10^1 = 10 /\ 10^0 = 1
      <4>1. 0 \in Nat /\ 1 = 0 + 1
        OBVIOUS
      <4>2. 10^(0 + 1) = 10^0 * 10 /\ 10^0 = 1
        BY <4>1, TenTo
      <4> QED BY <4>1, <4>2
    <3>2. x < 10 /\ (x \div 1) % 10 = 0
      BY <1>3, <1>5, <2>1, <3>1 DEF DigitAt
    <3> QED BY <1>2, <1>9, <3>2
  <2>2. src # <<0>>
    BY <1>7, <2>1
  <2> QED BY <1>2, <1>3, <1>5, <1>7, <1>9, <2>2 DEF src
<1> QED BY <1>8, <1>9

LEMMA LastZeros ==
    ASSUME NEW s \in Seq(0..9)
    PROVE  \E m \in 0 .. Len(s) :
              /\ WithoutLastZeros(s) = SubSeq(s, 1, m)
              /\ m > 0 => s[m] # 0
              /\ \A i \in m + 1 .. Len(s) : s[i] = 0
<1> DEFINE n == Len(s)
           kept == {i \in 1 .. n : s[i] # 0}
           m == IF kept = {} THEN 0 ELSE Max(kept)
<1>1. n \in Nat
  OBVIOUS
<1>2. WithoutLastZeros(s) = SubSeq(s, 1, m)
  BY DEF WithoutLastZeros
<1>3. CASE kept = {}
  <2>1. m = 0 /\ \A i \in 1 .. n : s[i] = 0
    BY <1>3
  <2> QED BY <1>1, <1>2, <2>1
<1>4. CASE kept # {}
  <2> DEFINE S == {k \in Nat : n - k \in kept}
  <2>1. S \in SUBSET Nat /\ S # {}
    <3>1. PICK i \in kept : TRUE
      BY <1>4
    <3>2. n - i \in Nat /\ n - (n - i) = i
      BY <1>1
    <3>3. n - i \in S
      <4> HIDE DEF kept
      <4> QED BY <3>1, <3>2
    <3> QED BY <3>3
  <2>2. PICK k \in S : \A j \in S : k <= j
    <3> HIDE DEF S
    <3> QED BY <2>1, Least
  <2> DEFINE l == n - k
  <2>3. l \in kept /\ \A i \in kept : l >= i
    <3>1. l \in kept /\ k \in Nat
      OBVIOUS
    <3>2. ASSUME NEW i \in kept PROVE l >= i
      <4>1. n - i \in Nat /\ n - (n - i) = i
        BY <1>1
      <4>2. n - i \in S
        <5> HIDE DEF kept
        <5> QED BY <4>1
      <4>3. k <= n - i
        BY <2>2, <4>2
      <4> QED BY <1>1, <3>1, <4>1, <4>3
    <3> QED BY <3>1, <3>2
  <2>4. Max(kept) \in kept /\ \A i \in kept : Max(kept) >= i
    <3> HIDE DEF kept, l, S
    <3> QED BY <2>3 DEF Max
  <2>5. m \in kept /\ \A i \in kept : m >= i
    <3> HIDE DEF kept
    <3> QED BY <1>4, <2>4
  <2> HIDE DEF m
  <2>6. m \in 1 .. n /\ s[m] # 0 /\ \A i \in m + 1 .. n : s[i] = 0
    <3>1. m \in 1 .. n /\ s[m] # 0
      BY <2>5
    <3>2. ASSUME NEW i \in m + 1 .. n, s[i] # 0 PROVE FALSE
      <4>1. i \in kept /\ ~(m >= i)
        BY <3>1, <3>2, <1>1
      <4> QED BY <4>1, <2>5
    <3> QED BY <3>1, <3>2
  <2> QED BY <1>1, <1>2, <2>6
<1> QED BY <1>3, <1>4

LEMMA ZeroShown ==
    ASSUME PowerLaws, NEW d \in Nat
    PROVE  Shown(<<0>>, 0, d, 1, 0)
<1>1. \A j \in Nat : 0 < 10^j /\ DigitAt(0, j) = 0
  <2>1. ASSUME NEW j \in Nat PROVE 0 < 10^j /\ DigitAt(0, j) = 0
    <3> DEFINE m == 10^j
    <3>1. m \in Nat \ {0}
      BY TenTo
    <3> HIDE DEF m
    <3>2. 0 < m /\ 0 \in Nat
      BY <3>1
    <3>3. 0 < 10^j
      BY <3>2 DEF m
    <3> QED BY <3>2, <3>3, DigitAbove
  <2> QED BY <2>1
<1>2. 1 + d \in Nat /\ \A i \in 1 .. 1 : (1 - i) + d \in Nat
  OBVIOUS
<1>3. \A j \in 0 .. d - 0 - 1 : j \in Nat
  OBVIOUS
<1> QED BY <1>1, <1>2, <1>3 DEF Shown

\* No digit of the number is before the point.
LEMMA FractionShown ==
    ASSUME PowerLaws, NEW x \in Numbers, x # 0, NEW d \in Nat,
           Len(Decimal(x)) <= d
    PROVE  LET s == <<0, Dot>> \o Fraction(Decimal(x), d)
           IN  Len(s) <= d + 2 /\ \E p : Shown(s, x, d, 1, p)
<1> DEFINE src == Decimal(x)
           n == Len(src)
           z == d - n
           zeros == [i \in 1 .. z |-> 0]
<1>1. /\ x \in Nat /\ src \in Seq(0..9) /\ n \in Nat /\ n > 0 /\ x < 10^n
      /\ \A i \in 1 .. n : src[i] = DigitAt(x, n - i)
  BY DecimalDigits
<1>2. n <= d
  OBVIOUS
<1> HIDE DEF src
<1>3. PICK m \in 0 .. n : /\ WithoutLastZeros(src) = SubSeq(src, 1, m)
                         /\ \A i \in m + 1 .. n : src[i] = 0
  BY <1>1, LastZeros
<1> HIDE DEF n
<1> DEFINE p == z + m
           kept == SubSeq(src, 1, m)
           f == zeros \o kept
           s == <<0, Dot>> \o f
<1>4. z \in Nat /\ p \in 0 .. d /\ m \in 0 .. n
  BY <1>1, <1>2, <1>3
<1>5. m > 0
  <2>1. SUFFICES ASSUME m = 0 PROVE FALSE
    BY <1>1, <1>3
  <2>2. \A j \in 0 .. n - 1 : DigitAt(x, j) = 0
    <3>1. ASSUME NEW j \in 0 .. n - 1 PROVE DigitAt(x, j) = 0
      <4>1. n - j \in 1 .. n /\ n - j \in m + 1 .. n /\ n - (n - j) = j
        BY <1>1, <2>1
      <4> QED BY <1>1, <1>3, <4>1
    <3> QED BY <3>1
  <2>3. x = 10^n * (x \div 10^n)
    BY <1>1, <2>2, TrailingZeros
  <2> DEFINE e == 10^n
             q == x \div e
  <2>4. e \in Nat \ {0} /\ q \in Nat
    BY <1>1, TenTo, DigitRange
  <2>5. x = e * q /\ x < e
    BY <1>1, <2>3
  <2> HIDE DEF e, q
  <2>6. q = 0
    <3>1. SUFFICES ASSUME q >= 1 PROVE FALSE
      BY <2>4
    <3>2. e * q >= e
      BY <2>4, <3>1, SMT
    <3> QED BY <1>1, <2>4, <2>5, <3>2
  <2> QED BY <1>1, <2>4, <2>5, <2>6
<1>6. kept \in Seq(0..10) /\ Len(kept) = m /\ \A i \in 1 .. m : kept[i] = src[i]
  <2>1. src \in Seq(0..10)
    <3>1. 0..9 \subseteq 0..10
      OBVIOUS
    <3> QED BY <1>1, <3>1, SeqMonotonic
  <2>2. 1 \in Nat \ {0} /\ m \in Int /\ m <= Len(src)
    BY <1>1, <1>3 DEF n
  <2>3. /\ SubSeq(src, 1, m) \in Seq(0..10)
        /\ Len(SubSeq(src, 1, m)) = IF 1 <= m THEN m - 1 + 1 ELSE 0
        /\ \A i \in 1 .. m - 1 + 1 : SubSeq(src, 1, m)[i] = src[1 + i - 1]
    BY ONLY <2>1, <2>2, Part
  <2>4. m - 1 + 1 = m /\ 1 <= m /\ \A i \in 1 .. m : 1 + i - 1 = i
    BY <1>4, <1>5
  <2> QED BY <2>3, <2>4
<1>7. zeros \in Seq(0..10) /\ Len(zeros) = z /\ \A i \in 1 .. z : zeros[i] = 0
  BY <1>4
<1> HIDE DEF kept, zeros
<1>8. /\ f \in Seq(0..10) /\ Len(f) = p
      /\ \A i \in 1 .. p : f[i] = IF i <= z THEN zeros[i] ELSE kept[i - z]
  <2>1. /\ zeros \o kept \in Seq(0..10)
        /\ Len(zeros \o kept) = Len(zeros) + Len(kept)
        /\ \A i \in 1 .. Len(zeros) + Len(kept) :
              (zeros \o kept)[i] = IF i <= Len(zeros) THEN zeros[i]
                                  ELSE kept[i - Len(zeros)]
    BY ONLY <1>6, <1>7, ConcatProperties
  <2> QED BY ONLY <2>1, <1>6, <1>7
<1> HIDE DEF f, z
<1>9. \A i \in 1 .. p : f[i] = DigitAt(x, d - i)
  <2>1. ASSUME NEW i \in 1 .. p, i <= z PROVE f[i] = DigitAt(x, d - i)
    <3>1. d - i \in Nat /\ n <= d - i
      BY <1>1, <1>2, <1>4, <2>1 DEF z
    <3>2. x < 10^(d - i)
      <4> DEFINE a == 10^n
                 b == 10^(d - i)
      <4>1. a \in Nat /\ b \in Nat /\ a <= b
        BY <1>1, <3>1, TenTo, TenToOrdered
      <4>2. x < a
        BY <1>1
      <4> HIDE DEF a, b
      <4>3. x < b
        BY <1>1, <4>1, <4>2
      <4> QED BY <4>3 DEF b
    <3>3. DigitAt(x, d - i) = 0
      BY <1>1, <3>1, <3>2, DigitAbove
    <3>4. f[i] = 0
      BY <1>4, <1>7, <1>8, <2>1
    <3> QED BY <3>3, <3>4
  <2>2. ASSUME NEW i \in 1 .. p, ~(i <= z) PROVE f[i] = DigitAt(x, d - i)
    <3>1. i - z \in 1 .. m /\ i - z \in 1 .. n /\ n - (i - z) = d - i
      BY <1>1, <1>2, <1>4, <2>2 DEF z
    <3>2. f[i] = kept[i - z]
      BY <1>8, <2>2
    <3>3. kept[i - z] = src[i - z] /\ src[i - z] = DigitAt(x, n - (i - z))
      BY <1>1, <1>6, <3>1
    <3> QED BY ONLY <3>1, <3>2, <3>3
  <2> QED BY <2>1, <2>2
<1>10. /\ s \in Seq(0..10) /\ Len(s) = 1 + 1 + p /\ s[1] = 0 /\ s[2] = Dot
       /\ \A i \in 1 .. p : s[1 + 1 + i] = f[i]
  <2>1. <<0, Dot>> \in Seq(0..10) /\ Len(<<0, Dot>>) = 2
    BY DEF Dot
  <2>2. /\ s \in Seq(0..10) /\ Len(s) = 2 + p
        /\ \A i \in 1 .. 2 + p : s[i] = IF i <= 2 THEN <<0, Dot>>[i] ELSE f[i - 2]
    BY <1>8, <2>1, ConcatProperties
  <2> HIDE DEF s
  <2>3. p \in Nat
    BY <1>4
  <2> HIDE DEF p
  <2>4. 1 \in 1 .. 2 + p /\ 2 \in 1 .. 2 + p /\ <<0, Dot>>[1] = 0 /\ <<0, Dot>>[2] = Dot
    BY <2>3
  <2>5. \A i \in 1 .. p : 1 + 1 + i \in 1 .. 2 + p /\ ~(1 + 1 + i <= 2)
                        /\ (1 + 1 + i) - 2 = i
    BY <2>3
  <2>6. s[1] = 0 /\ s[2] = Dot
    BY <2>2, <2>4
  <2>7. \A i \in 1 .. p : s[1 + 1 + i] = f[i]
    BY <2>2, <2>5
  <2> QED BY <2>2, <2>3, <2>6, <2>7
<1> HIDE DEF s
<1>11. DigitAt(x, (1 - 1) + d) = 0 /\ x < 10^(1 + d)
  <2> DEFINE a == 10^n
             b == 10^d
             c == 10^(1 + d)
  <2>1. a \in Nat /\ b \in Nat /\ c \in Nat /\ a <= b /\ b <= c
    BY <1>1, <1>2, TenTo, TenToOrdered
  <2>2. x < a
    BY <1>1
  <2> HIDE DEF a, b, c
  <2>3. x < b /\ x < c
    BY <1>1, <2>1, <2>2
  <2>4. x < 10^d /\ x < 10^(1 + d)
    BY <2>3 DEF b, c
  <2>5. DigitAt(x, d) = 0 /\ (1 - 1) + d = d
    BY <1>1, <2>4, DigitAbove
  <2> QED BY <2>4, <2>5
<1>12. \A j \in 0 .. d - p - 1 : DigitAt(x, j) = 0
  <2>1. ASSUME NEW j \in 0 .. d - p - 1 PROVE DigitAt(x, j) = 0
    <3>1. n - j \in m + 1 .. n /\ n - j \in 1 .. n /\ n - (n - j) = j
      BY <1>1, <1>2, <1>4, <2>1 DEF z
    <3> QED BY <1>1, <1>3, <3>1
  <2> QED BY <2>1
<1>13. p > 0 /\ p \in 0 .. d
  BY <1>4, <1>5
<1> HIDE DEF p
<1>14. /\ \A i \in 1 .. 1 : s[i] = DigitAt(x, (1 - i) + d)
       /\ \A i \in 1 .. p : s[1 + 1 + i] = DigitAt(x, d - i)
       /\ 1 \in Nat \ {0} /\ s[1 + 1] = Dot /\ p # 0
  BY <1>9, <1>10, <1>11, <1>13
<1>15. Shown(s, x, d, 1, p)
  BY ONLY <1>10, <1>11, <1>12, <1>13, <1>14 DEF Shown
<1>16. Len(s) <= d + 2
  BY <1>10, <1>13
<1>17. s = <<0, Dot>> \o Fraction(Decimal(x), d)
  BY <1>3 DEF s, f, zeros, kept, z, n, src, Fraction
<1> QED BY <1>15, <1>16, <1>17

\* Some digits are before the point; without any behind it there is none.
LEMMA WholeShown ==
    ASSUME PowerLaws, NEW x \in Numbers, NEW d \in Nat, Len(Decimal(x)) > d
    PROVE  LET src == Decimal(x)
               n == Len(src)
               whole == SubSeq(src, 1, n - d)
               fraction == WithoutLastZeros(SubSeq(src, Len(whole) + 1, n))
               s == IF fraction = <<>> THEN whole ELSE whole \o <<Dot>> \o fraction
           IN  Len(s) <= n + 1 /\ \E p : Shown(s, x, d, n - d, p)
<1> DEFINE src == Decimal(x)
           n == Len(src)
           w == n - d
           whole == SubSeq(src, 1, w)
           behind == SubSeq(src, Len(whole) + 1, n)
           fraction == WithoutLastZeros(behind)
           s == IF fraction = <<>> THEN whole ELSE whole \o <<Dot>> \o fraction
<1>1. /\ x \in Nat /\ src \in Seq(0..9) /\ n \in Nat /\ n > d /\ x < 10^n
      /\ \A i \in 1 .. n : src[i] = DigitAt(x, n - i)
  BY DecimalDigits
<1> HIDE DEF src
<1>2. w \in Nat \ {0} /\ w <= n /\ n = w + d /\ n = Len(src)
  BY <1>1
<1> HIDE DEF n, w
<1>3. \A i \in 1 .. w : src[i] = DigitAt(x, (w - i) + d)
  <2>1. ASSUME NEW i \in 1 .. w PROVE src[i] = DigitAt(x, (w - i) + d)
    <3>1. i \in 1 .. n /\ n - i = (w - i) + d
      BY <1>1, <1>2
    <3> QED BY <1>1, <3>1
  <2> QED BY <2>1
<1>4. \A i \in 1 .. d : src[w + i] = DigitAt(x, d - i)
  <2>1. ASSUME NEW i \in 1 .. d PROVE src[w + i] = DigitAt(x, d - i)
    <3>1. w + i \in 1 .. n /\ n - (w + i) = d - i
      BY <1>1, <1>2
    <3> QED BY <1>1, <3>1
  <2> QED BY <2>1
<1>5. whole \in Seq(0..9) /\ Len(whole) = w /\ \A i \in 1 .. w : whole[i] = src[i]
  <2>1. 1 \in Nat \ {0} /\ w \in Int /\ w <= Len(src) /\ w - 1 + 1 = w /\ 1 <= w
        /\ \A i \in 1 .. w : 1 + i - 1 = i
    BY <1>2
  <2>2. /\ SubSeq(src, 1, w) \in Seq(0..9)
        /\ Len(SubSeq(src, 1, w)) = IF 1 <= w THEN w - 1 + 1 ELSE 0
        /\ \A i \in 1 .. w - 1 + 1 : SubSeq(src, 1, w)[i] = src[1 + i - 1]
    BY <2>1, <1>1, Part
  <2> QED BY <2>1, <2>2
<1> HIDE DEF whole
<1>6. behind \in Seq(0..9) /\ Len(behind) = d /\ \A i \in 1 .. d : behind[i] = src[w + i]
  <2>1. w + 1 \in Nat \ {0} /\ n \in Int /\ n <= Len(src) /\ n - (w + 1) + 1 = d
        /\ (w + 1 <= n <=> d > 0)
        /\ \A i \in 1 .. d : (w + 1) + i - 1 = w + i
    BY <1>2
  <2>2. /\ SubSeq(src, w + 1, n) \in Seq(0..9)
        /\ Len(SubSeq(src, w + 1, n)) = IF w + 1 <= n THEN n - (w + 1) + 1 ELSE 0
        /\ \A i \in 1 .. n - (w + 1) + 1 : SubSeq(src, w + 1, n)[i] = src[(w + 1) + i - 1]
    <3>1. w + 1 \in Nat \ {0} /\ n \in Int /\ n <= Len(src) /\ src \in Seq(0..9)
      BY <2>1, <1>1
    <3> DEFINE v == w + 1
    <3>2. v \in Nat \ {0} /\ n \in Int /\ n <= Len(src) /\ src \in Seq(0..9)
      BY <3>1
    <3> HIDE DEF v
    <3>3. /\ SubSeq(src, v, n) \in Seq(0..9)
          /\ Len(SubSeq(src, v, n)) = IF v <= n THEN n - v + 1 ELSE 0
          /\ \A i \in 1 .. n - v + 1 : SubSeq(src, v, n)[i] = src[v + i - 1]
      BY ONLY <3>2, Part
    <3> QED BY ONLY <3>3 DEF v
  <2>3. behind = SubSeq(src, w + 1, n)
    BY <1>5
  <2> HIDE DEF behind
  <2>4. Len(behind) = d
    BY <2>1, <2>2, <2>3
  <2> QED BY <2>1, <2>2, <2>3, <2>4
<1> HIDE DEF behind
<1>7. PICK p \in 0 .. d : /\ fraction = SubSeq(behind, 1, p)
                         /\ \A i \in p + 1 .. d : behind[i] = 0
  BY <1>6, LastZeros
<1>8. p \in Nat /\ p <= d
  OBVIOUS
<1>9. fraction \in Seq(0..9) /\ Len(fraction) = p
      /\ \A i \in 1 .. p : fraction[i] = src[w + i]
  <2>1. 1 \in Nat \ {0} /\ p \in Int /\ p <= Len(behind) /\ p - 1 + 1 = p
        /\ (1 <= p <=> p # 0) /\ \A i \in 1 .. p : 1 + i - 1 = i /\ i \in 1 .. d
    BY <1>6, <1>8
  <2>2. /\ SubSeq(behind, 1, p) \in Seq(0..9)
        /\ Len(SubSeq(behind, 1, p)) = IF 1 <= p THEN p - 1 + 1 ELSE 0
        /\ \A i \in 1 .. p - 1 + 1 : SubSeq(behind, 1, p)[i] = behind[1 + i - 1]
    BY <2>1, <1>6, Part
  <2> HIDE DEF fraction
  <2>3. Len(fraction) = p
    BY <1>7, <2>1, <2>2
  <2> QED BY <1>6, <1>7, <2>1, <2>2, <2>3
<1> HIDE DEF fraction
<1>10. \A j \in 0 .. d - p - 1 : DigitAt(x, j) = 0
  <2>1. ASSUME NEW j \in 0 .. d - p - 1 PROVE DigitAt(x, j) = 0
    <3>1. d - j \in p + 1 .. d /\ d - j \in 1 .. d /\ d - (d - j) = j
      BY <1>8
    <3> QED BY <1>4, <1>6, <1>7, <3>1
  <2> QED BY <2>1
<1>11. x < 10^(w + d)
  BY <1>1, <1>2
<1>12. whole \in Seq(0..10) /\ fraction \in Seq(0..10) /\ <<Dot>> \in Seq(0..10)
  <2>1. 0..9 \subseteq 0..10
    OBVIOUS
  <2> QED BY <1>5, <1>9, <2>1, SeqMonotonic DEF Dot
<1>13. CASE p = 0
  <2>1. s = whole
    BY <1>9, <1>13
  <2> HIDE DEF s
  <2>2. /\ s \in Seq(0..10) /\ Len(s) = w
        /\ \A i \in 1 .. w : s[i] = DigitAt(x, (w - i) + d)
    BY <1>3, <1>5, <1>12, <2>1
  <2>3. 0 \in 0 .. d /\ ~(0 > 0) /\ 1 .. 0 = {} /\ \A i \in 1 .. 0 : FALSE
    OBVIOUS
  <2>4. \A j \in 0 .. d - 0 - 1 : DigitAt(x, j) = 0
    BY <1>10, <1>13
  <2>5. Shown(s, x, d, w, 0)
    BY <1>2, <1>11, <2>2, <2>3, <2>4 DEF Shown
  <2>6. Len(s) <= n + 1
    BY <1>2, <2>2
  <2> QED BY ONLY <2>5, <2>6 DEF s, fraction, behind, whole, w, n, src
<1>14. CASE p # 0
  <2> DEFINE t == whole \o <<Dot>>
             u == t \o fraction
  <2>1. s = u
    <3>1. fraction # <<>>
      BY <1>9, <1>14
    <3> QED BY <3>1
  <2>2. /\ t \in Seq(0..10) /\ Len(t) = w + 1
        /\ \A i \in 1 .. w + 1 : t[i] = IF i <= w THEN whole[i] ELSE <<Dot>>[i - w]
    <3>1. Len(<<Dot>>) = 1
      OBVIOUS
    <3>2. /\ whole \o <<Dot>> \in Seq(0..10)
          /\ Len(whole \o <<Dot>>) = Len(whole) + Len(<<Dot>>)
          /\ \A i \in 1 .. Len(whole) + Len(<<Dot>>) :
                (whole \o <<Dot>>)[i] = IF i <= Len(whole) THEN whole[i]
                                        ELSE <<Dot>>[i - Len(whole)]
      BY ONLY <1>12, ConcatProperties
    <3> QED BY ONLY <1>5, <3>1, <3>2
  <2> HIDE DEF t
  <2>3. /\ u \in Seq(0..10) /\ Len(u) = w + 1 + p
        /\ \A i \in 1 .. w + 1 + p :
              u[i] = IF i <= w + 1 THEN t[i] ELSE fraction[i - (w + 1)]
    <3>1. /\ t \o fraction \in Seq(0..10)
          /\ Len(t \o fraction) = Len(t) + Len(fraction)
          /\ \A i \in 1 .. Len(t) + Len(fraction) :
                (t \o fraction)[i] = IF i <= Len(t) THEN t[i]
                                     ELSE fraction[i - Len(t)]
      BY ONLY <1>12, <2>2, ConcatProperties
    <3> QED BY ONLY <1>9, <2>2, <3>1
  <2> HIDE DEF s, u
  <2>4. \A i \in 1 .. w : s[i] = DigitAt(x, (w - i) + d)
    <3>1. ASSUME NEW i \in 1 .. w PROVE s[i] = DigitAt(x, (w - i) + d)
      <4>1. i \in 1 .. w + 1 + p /\ i <= w + 1 /\ i \in 1 .. w + 1 /\ i <= w
        BY <1>2, <1>8
      <4>2. s[i] = t[i] /\ t[i] = whole[i]
        BY <2>1, <2>2, <2>3, <4>1
      <4> QED BY <1>3, <1>5, <4>2
    <3> QED BY <3>1
  <2>5. s[w + 1] = Dot
    <3>1. w + 1 \in 1 .. w + 1 + p /\ w + 1 \in 1 .. w + 1 /\ ~(w + 1 <= w)
          /\ (w + 1) - w = 1 /\ w + 1 <= w + 1 /\ <<Dot>>[1] = Dot
      BY <1>2, <1>8
    <3> QED BY <2>1, <2>2, <2>3, <3>1
  <2>6. \A i \in 1 .. p : s[w + 1 + i] = DigitAt(x, d - i)
    <3>1. ASSUME NEW i \in 1 .. p PROVE s[w + 1 + i] = DigitAt(x, d - i)
      <4>1. w + 1 + i \in 1 .. w + 1 + p /\ ~(w + 1 + i <= w + 1)
            /\ (w + 1 + i) - (w + 1) = i /\ i \in 1 .. d
        BY <1>2, <1>8
      <4>2. s[w + 1 + i] = fraction[i]
        BY <2>1, <2>3, <4>1
      <4> QED BY <1>4, <1>9, <4>1, <4>2
    <3> QED BY <3>1
  <2>7. s \in Seq(0..10) /\ Len(s) = w + 1 + p /\ p > 0
    BY <1>8, <1>14, <2>1, <2>3
  <2>8. Shown(s, x, d, w, p)
    BY ONLY <1>2, <1>7, <1>10, <1>11, <1>14, <2>4, <2>5, <2>6, <2>7 DEF Shown
  <2>9. Len(s) <= n + 1
    BY <1>2, <1>8, <2>7
  <2> QED BY ONLY <2>8, <2>9 DEF s, fraction, behind, whole, w, n, src
<1> QED BY <1>13, <1>14

\* What adjustDecimals does not refuse shows the number, within the target.
LEMMA AdjustedShown ==
    ASSUME PowerLaws, NEW x \in Numbers, NEW d \in Nat, NEW T \in Int,
           AdjustDecimals(Decimal(x), T, d) # Refused
    PROVE  LET s == AdjustDecimals(Decimal(x), T, d)
           IN  /\ Len(s) < T /\ \E w, p : Shown(s, x, d, w, p)
               /\ T >= 2 /\ s \in Seq(0..10)
<1> DEFINE s == AdjustDecimals(Decimal(x), T, d)
<1>1. Len(Decimal(x)) \in Nat /\ (Decimal(x) = <<0>> <=> x = 0) /\ x \in Nat
  BY DecimalDigits
<1>2. SUFFICES Len(s) < T /\ T >= 2 /\ \E w, p : Shown(s, x, d, w, p)
  BY DEF Shown
<1>3. CASE x = 0
  <2>1. s = <<0>> /\ T >= 2 /\ Len(<<0>>) = 1
    BY <1>1, <1>3 DEF AdjustDecimals
  <2> HIDE DEF s
  <2>2. Shown(s, x, d, 1, 0)
    BY <1>3, <2>1, ZeroShown
  <2>3. Len(s) < T
    BY <2>1
  <2> QED BY <2>1, <2>2, <2>3
<1>4. CASE x # 0 /\ Len(Decimal(x)) <= d
  <2>1. s = <<0, Dot>> \o Fraction(Decimal(x), d) /\ T >= d + 3
    BY <1>1, <1>4 DEF AdjustDecimals
  <2> HIDE DEF s
  <2>2. Len(s) <= d + 2 /\ \E p : Shown(s, x, d, 1, p)
    BY <1>4, <2>1, FractionShown
  <2>3. Len(s) \in Nat
    BY <2>2 DEF Shown
  <2>4. Len(s) < T /\ T >= 2
    BY <2>1, <2>2, <2>3
  <2> QED BY <2>2, <2>4
<1>5. CASE x # 0 /\ Len(Decimal(x)) > d
  <2> DEFINE src == Decimal(x)
             n == Len(src)
             whole == SubSeq(src, 1, n - d)
             fraction == WithoutLastZeros(SubSeq(src, Len(whole) + 1, n))
             t == IF fraction = <<>> THEN whole ELSE whole \o <<Dot>> \o fraction
  <2>1. s = t /\ T >= n + 2
    <3>1. src # <<0>> /\ Len(src) > d /\ ~(Len(src) <= d)
      BY <1>1, <1>5
    <3> HIDE DEF src
    <3>2. AdjustDecimals(src, T, d) = IF T < n + 2 THEN Refused ELSE t
      BY ONLY <3>1 DEF AdjustDecimals
    <3>3. AdjustDecimals(src, T, d) # Refused
      BY DEF src
    <3> HIDE DEF t, s, n
    <3>4. AdjustDecimals(src, T, d) = t /\ ~(T < n + 2) /\ n \in Nat
      BY <1>1, <3>2, <3>3 DEF n, src
    <3>5. s = AdjustDecimals(src, T, d)
      BY DEF s, src
    <3> QED BY <3>4, <3>5
  <2>2. Len(t) <= n + 1 /\ \E p : Shown(t, x, d, n - d, p)
    BY <1>5, WholeShown
  <2> HIDE DEF s, t, n
  <2>3. Len(t) \in Nat /\ n \in Nat
    BY <1>1, <2>2 DEF Shown, n
  <2>4. Len(s) < T /\ T >= 2
    BY <2>1, <2>2, <2>3
  <2> QED BY <2>1, <2>2, <2>4
<1> QED BY <1>1, <1>3, <1>4, <1>5

\* The room that adjustDecimals wants.
LEMMA Room ==
    ASSUME PowerLaws, NEW x \in Numbers, NEW d \in Nat, NEW T \in Int
    PROVE  LET n == Len(Decimal(x))
           IN  AdjustDecimals(Decimal(x), T, d) # Refused
                 <=> \/ x = 0 /\ T >= 2
                     \/ x # 0 /\ n <= d /\ T >= d + 3
                     \/ x # 0 /\ n > d /\ T >= n + 2
<1> DEFINE src == Decimal(x)
           n == Len(src)
           whole == SubSeq(src, 1, n - d)
           fraction == WithoutLastZeros(SubSeq(src, Len(whole) + 1, n))
           small == <<0, Dot>> \o Fraction(src, d)
           large == IF fraction = <<>> THEN whole ELSE whole \o <<Dot>> \o fraction
           s == AdjustDecimals(src, T, d)
<1>1. n \in Nat /\ (src = <<0>> <=> x = 0) /\ x \in Nat
  BY DecimalDigits
<1>2. \A t, w, p : Shown(t, x, d, w, p) => t # <<>>
  BY DEF Shown
<1>3. CASE x = 0
  <2>1. src = <<0>>
    BY <1>1, <1>3
  <2> HIDE DEF src
  <2>2. s = IF T < 2 THEN Refused ELSE <<0>>
    BY ONLY <2>1 DEF AdjustDecimals
  <2> HIDE DEF s
  <2>3. s # Refused <=> T >= 2
    BY <2>2 DEF Refused
  <2> QED BY <2>3, <1>3 DEF s, src
<1>4. CASE x # 0 /\ n <= d
  <2>1. small # <<>>
    <3>1. \E p : Shown(small, x, d, 1, p)
      BY <1>4, FractionShown
    <3> HIDE DEF small
    <3> QED BY <1>2, <3>1
  <2>2. src # <<0>> /\ Len(src) <= d
    BY <1>1, <1>4
  <2> HIDE DEF src
  <2>3. s = IF T < d + 3 THEN Refused ELSE small
    BY ONLY <2>2 DEF AdjustDecimals
  <2> HIDE DEF s, small, n
  <2>4. s # Refused <=> T >= d + 3
    BY <2>1, <2>3 DEF Refused
  <2> QED BY <2>4, <1>1, <1>4 DEF s, src, n
<1>5. CASE x # 0 /\ n > d
  <2>1. large # <<>>
    <3>1. \E p : Shown(large, x, d, n - d, p)
      BY <1>5, WholeShown
    <3> HIDE DEF large, n
    <3> QED BY <1>2, <3>1
  <2>2. src # <<0>> /\ Len(src) > d /\ ~(Len(src) <= d)
    BY <1>1, <1>5
  <2> HIDE DEF src
  <2>3. s = IF T < n + 2 THEN Refused ELSE large
    BY ONLY <2>2 DEF AdjustDecimals
  <2> HIDE DEF s, large, n
  <2>4. s # Refused <=> T >= n + 2
    BY <1>1, <2>1, <2>3 DEF Refused
  <2> QED BY <2>4, <1>1, <1>5 DEF s, src, n
<1> QED BY <1>1, <1>3, <1>4, <1>5

LEMMA MinOfTwo ==
    ASSUME NEW a \in Int, NEW b \in Int
    PROVE  Min({a, b}) = IF a <= b THEN a ELSE b
<1> DEFINE m == IF a <= b THEN a ELSE b
<1>1. m \in {a, b} /\ \A y \in {a, b} : m <= y
  OBVIOUS
<1>2. \A z \in {a, b} : (\A y \in {a, b} : z <= y) => z = m
  OBVIOUS
<1> HIDE DEF m
<1>3. Min({a, b}) = m
  BY <1>1, <1>2 DEF Min
<1> QED BY <1>3 DEF m

-----------------------------------------------------------------------------
(* What amountToString and computeFees leave.                              *)

\* The text ends within its buffer, whatever was in it.
LEMMA AmountInBuffer ==
    ASSUME PowerLaws, NEW x \in Numbers, NEW d \in Nat, NEW size \in Nat \ {0},
           NEW ticker \in Seq(Nat), NEW former \in Seq(Nat)
    PROVE  LET text == AmountToString(x, d, ticker, former, size)
           IN  text \in Seq(Nat) /\ Len(text) < size
<1> DEFINE adjusted == AdjustDecimals(Decimal(x), size - Len(ticker) - 1, d)
           text == TickerFirst(ticker, adjusted, former)
           m == Min({Len(text), size - 1})
<1>1. text \in Seq(Nat)
  <2> DEFINE rest == IF adjusted = Refused THEN SubSeq(former, Len(ticker) + 1, Len(former))
                     ELSE adjusted
  <2>1. rest \in Seq(Nat)
    <3>1. CASE adjusted = Refused
      <4>1. Len(ticker) + 1 \in Nat \ {0} /\ Len(former) \in Int
            /\ Len(former) <= Len(former)
        OBVIOUS
      <4>2. SubSeq(former, Len(ticker) + 1, Len(former)) \in Seq(Nat)
        BY <4>1, Part
      <4> HIDE DEF adjusted
      <4> QED BY <3>1, <4>2
    <3>2. CASE adjusted # Refused
      <4>1. size - Len(ticker) - 1 \in Int
        OBVIOUS
      <4>2. adjusted \in Seq(0..10)
        BY <3>2, <4>1, AdjustedShown
      <4> HIDE DEF adjusted
      <4>3. 0..10 \subseteq Nat
        OBVIOUS
      <4>4. adjusted \in Seq(Nat)
        BY <4>2, <4>3, SeqMonotonic
      <4> QED BY <3>2, <4>4
    <3> QED BY <3>1, <3>2
  <2> HIDE DEF rest
  <2>2. ticker \o rest \in Seq(Nat)
    BY <2>1, ConcatProperties
  <2>3. text = ticker \o rest
    BY DEF TickerFirst, rest
  <2> QED BY <2>2, <2>3
<1>2. AmountToString(x, d, ticker, former, size) = SubSeq(text, 1, m)
  BY DEF AmountToString
<1> HIDE DEF text
<1>3. m <= Len(text) /\ m <= size - 1 /\ m \in Nat
  <2> DEFINE a == Len(text)
             b == size - 1
  <2>1. a \in Nat /\ b \in Nat /\ a \in Int /\ b \in Int
    BY <1>1
  <2> HIDE DEF a, b
  <2>2. Min({a, b}) = IF a <= b THEN a ELSE b
    BY <2>1, MinOfTwo
  <2> HIDE DEF m
  <2>3. m = Min({a, b})
    BY DEF m, a, b
  <2>4. m <= a /\ m <= b /\ m \in Nat
    BY <2>1, <2>2, <2>3
  <2> QED BY ONLY <2>4 DEF a, b
<1> HIDE DEF m
<1>4. SubSeq(text, 1, m) \in Seq(Nat) /\ Len(SubSeq(text, 1, m)) = m
  BY <1>1, <1>3
<1>5. m < size
  BY <1>3
<1> QED BY ONLY <1>2, <1>4, <1>5

\* An amount that fits is read back, whatever was in the buffer.
LEMMA AmountRead ==
    ASSUME PowerLaws, NEW x \in Numbers, NEW d \in Nat, NEW size \in Nat \ {0},
           NEW ticker \in Seq(Nat), NEW former, Fits(x, d, ticker, size)
    PROVE  LET text == AmountToString(x, d, ticker, former, size)
           IN  /\ ReadsAs(text, ticker, d, x)
               /\ text = ticker \o AdjustDecimals(Decimal(x), size - Len(ticker) - 1, d)
<1> DEFINE T == size - Len(ticker) - 1
           s == AdjustDecimals(Decimal(x), T, d)
           text == ticker \o s
<1>1. T \in Int /\ s # Refused
  BY DEF Fits
<1>2. Len(s) < T /\ (\E w, p : Shown(s, x, d, w, p)) /\ s \in Seq(0..10)
  <2> HIDE DEF T
  <2> QED BY <1>1, AdjustedShown
<1>3. AmountToString(x, d, ticker, former, size)
        = SubSeq(text, 1, Min({Len(text), size - 1}))
  BY <1>1 DEF AmountToString, TickerFirst
<1> HIDE DEF s
<1>4. text \in Seq(Nat) /\ Len(text) = Len(ticker) + Len(s)
  <2>1. 0..10 \subseteq Nat
    OBVIOUS
  <2>2. s \in Seq(Nat)
    BY <1>2, <2>1, SeqMonotonic
  <2> QED BY <2>2, ConcatProperties
<1>5. Min({Len(text), size - 1}) = Len(text)
  <2>1. Len(text) \in Int /\ size - 1 \in Int /\ Len(text) <= size - 1
    <3>1. Len(s) \in Nat /\ Len(ticker) \in Nat
      BY <1>2
    <3> QED BY <1>2, <1>4, <3>1
  <2> HIDE DEF text
  <2>2. Min({Len(text), size - 1})
          = IF Len(text) <= size - 1 THEN Len(text) ELSE size - 1
    BY <2>1, MinOfTwo
  <2> QED BY <2>1, <2>2
<1>6. AmountToString(x, d, ticker, former, size) = text
  <2> HIDE DEF text
  <2>1. SubSeq(text, 1, Len(text)) = text
    BY <1>4
  <2> QED BY <1>3, <1>5, <2>1
<1>7. ReadsAs(text, ticker, d, x)
  <2>1. PICK w, p : Shown(s, x, d, w, p)
    BY <1>2
  <2>2. x \in Nat
    BY DecimalDigits
  <2> QED BY <2>1, <2>2, ShownRead
<1> QED BY <1>6, <1>7 DEF s

\* There is always room for the fees.
LEMMA FeesRead ==
    ASSUME PowerLaws, NEW gasPrice \in Nat, NEW startGas \in Nat,
           NEW ticker \in Seq(Nat)
    PROVE  LET text == ComputeFees(gasPrice, startGas, ticker)
           IN  /\ ReadsAs(text, ticker, CoinDecimals, (gasPrice * startGas) % Modulus)
               /\ text \in Seq(Nat)
<1> DEFINE x == (gasPrice * startGas) % Modulus
           s == AdjustDecimals(Decimal(x), FeeRoom, CoinDecimals)
<1>1. /\ CoinDecimals \in Nat \ {0} /\ MaxPlaces \in Nat \ {0} /\ FeeRoom \in Int
      /\ MaxPlaces + 2 <= FeeRoom /\ CoinDecimals + 3 <= FeeRoom
  BY TextsAssumption DEF TextAssumption, FeeRoom
<1>2. x \in Numbers
  <2> DEFINE m == 10^MaxPlaces
             y == gasPrice * startGas
  <2>1. m \in Nat \ {0} /\ y \in Nat
    <3>1. m \in Nat \ {0}
      BY <1>1, TenTo
    <3>2. y \in Nat
      BY SMT
    <3> QED BY <3>1, <3>2
  <2>2. Modulus \in Nat \ {0} /\ Modulus - 1 \in 0 .. m - 1
    BY TextsAssumption DEF TextAssumption, Numbers
  <2> HIDE DEF m, y
  <2>3. y % Modulus \in 0 .. Modulus - 1
    BY <2>1, <2>2, WithRemainder
  <2>4. y % Modulus \in 0 .. m - 1
    BY <2>1, <2>2, <2>3
  <2> QED BY <2>4 DEF Numbers, m, y
<1> HIDE DEF x
<1>3. x \in Nat /\ Len(Decimal(x)) \in 1..MaxPlaces
  BY <1>2, DecimalDigits
<1>4. s # Refused
  <2> DEFINE n == Len(Decimal(x))
  <2>1. n \in Nat /\ n + 2 <= FeeRoom
    BY <1>1, <1>3
  <2>2. FeeRoom >= 2 /\ CoinDecimals \in Nat
    BY <1>1
  <2>3. s # Refused
          <=> \/ x = 0 /\ FeeRoom >= 2
              \/ x # 0 /\ n <= CoinDecimals /\ FeeRoom >= CoinDecimals + 3
              \/ x # 0 /\ n > CoinDecimals /\ FeeRoom >= n + 2
    BY <1>1, <1>2, <2>2, Room
  <2> HIDE DEF n, s
  <2> QED BY <1>1, <2>1, <2>2, <2>3
<1>5. (\E w, p : Shown(s, x, CoinDecimals, w, p)) /\ s \in Seq(0..10)
  BY <1>1, <1>2, <1>4, AdjustedShown
<1> HIDE DEF s
<1>6. ReadsAs(ticker \o s, ticker, CoinDecimals, x)
  <2>1. PICK w, p : Shown(s, x, CoinDecimals, w, p)
    BY <1>5
  <2>2. CoinDecimals \in Nat
    BY <1>1
  <2> QED BY <1>3, <2>1, <2>2, ShownRead
<1>7. ticker \o s \in Seq(Nat)
  <2>1. 0..10 \subseteq Nat
    OBVIOUS
  <2>2. s \in Seq(Nat)
    BY <1>5, <2>1, SeqMonotonic
  <2> QED BY <2>2, ConcatProperties
<1>8. ComputeFees(gasPrice, startGas, ticker) = ticker \o s
  BY DEF ComputeFees, s, x
<1> QED BY ONLY <1>6, <1>7, <1>8 DEF x

-----------------------------------------------------------------------------
(* The texts of a transaction.                                             *)

LEMMA TxOperators ==
    /\ \A x, d, ticker, former, size :
          TxTexts!AmountToString(x, d, ticker, former, size)
            = AmountToString(x, d, ticker, former, size)
    /\ \A x, d, ticker, size : TxTexts!Fits(x, d, ticker, size) = Fits(x, d, ticker, size)
    /\ \A text, ticker, d, x :
          TxTexts!ReadsAs(text, ticker, d, x) = ReadsAs(text, ticker, d, x)
    /\ \A price, gas, ticker :
          TxTexts!ComputeFees(price, gas, ticker) = ComputeFees(price, gas, ticker)
    /\ \A x : TxTexts!Decimal(x) = Decimal(x)
    /\ \A known : TxTexts!NetworkTicker(known) = NetworkTicker(known)
    /\ TxTexts!Numbers = Numbers
<1>1. \A x : TxTexts!Decimal(x) = Decimal(x)
  BY DEF Decimal, TxTexts!Decimal
<1>2. \A s : TxTexts!WithoutLastZeros(s) = WithoutLastZeros(s)
  BY DEF WithoutLastZeros, TxTexts!WithoutLastZeros, Max, TxTexts!Max
<1>3. \A s, d : TxTexts!Fraction(s, d) = Fraction(s, d)
  BY <1>2 DEF Fraction, TxTexts!Fraction
<1>4. TxTexts!Dot = Dot /\ TxTexts!Refused = Refused /\ TxTexts!FeeRoom = FeeRoom
  BY DEF TxTexts!Dot, Dot, TxTexts!Refused, Refused, TxTexts!FeeRoom, FeeRoom
<1>5. \A s, T, d : TxTexts!AdjustDecimals(s, T, d) = AdjustDecimals(s, T, d)
  BY <1>2, <1>3, <1>4 DEF AdjustDecimals, TxTexts!AdjustDecimals
<1>6. \A t, s, f : TxTexts!TickerFirst(t, s, f) = TickerFirst(t, s, f)
  BY <1>4 DEF TickerFirst, TxTexts!TickerFirst
<1>7. \A x, d, ticker, former, size :
          TxTexts!AmountToString(x, d, ticker, former, size)
            = AmountToString(x, d, ticker, former, size)
  <2>1. \A S : TxTexts!Min(S) = Min(S)
    BY DEF Min, TxTexts!Min
  <2> SUFFICES ASSUME NEW x, NEW d, NEW ticker, NEW former, NEW size
               PROVE  TxTexts!AmountToString(x, d, ticker, former, size)
                        = AmountToString(x, d, ticker, former, size)
    OBVIOUS
  <2> DEFINE adjusted == AdjustDecimals(Decimal(x), size - Len(ticker) - 1, d)
             text == TickerFirst(ticker, adjusted, former)
  <2>2. TxTexts!AdjustDecimals(TxTexts!Decimal(x), size - Len(ticker) - 1, d) = adjusted
    BY ONLY <1>1, <1>5
  <2>3. TxTexts!TickerFirst(ticker, adjusted, former) = text
    BY ONLY <1>6
  <2>4. AmountToString(x, d, ticker, former, size)
          = SubSeq(text, 1, Min({Len(text), size - 1}))
    BY ONLY DEF AmountToString
  <2> HIDE DEF adjusted, text
  <2>5. TxTexts!AmountToString(x, d, ticker, former, size)
          = SubSeq(text, 1, Min({Len(text), size - 1}))
    BY ONLY <2>1, <2>2, <2>3 DEF TxTexts!AmountToString
  <2> QED BY ONLY <2>4, <2>5
<1>8. \A x, d, ticker, size : TxTexts!Fits(x, d, ticker, size) = Fits(x, d, ticker, size)
  BY <1>1, <1>4, <1>5 DEF Fits, TxTexts!Fits
<1>9. \A price, gas, ticker :
          TxTexts!ComputeFees(price, gas, ticker) = ComputeFees(price, gas, ticker)
  BY <1>1, <1>4, <1>5 DEF ComputeFees, TxTexts!ComputeFees
<1>10. \A s : TxTexts!PointAt(s) = PointAt(s) /\ TxTexts!ReadDigits(s) = ReadDigits(s)
  BY <1>4 DEF PointAt, TxTexts!PointAt, ReadDigits, TxTexts!ReadDigits, ValueIn, TxTexts!ValueIn
<1>11. \A text, ticker, d, x :
          TxTexts!ReadsAs(text, ticker, d, x) = ReadsAs(text, ticker, d, x)
  <2>1. \A t, u : TxTexts!IsPrefix(t, u) = IsPrefix(t, u)
    BY DEF IsPrefix, TxTexts!IsPrefix
  <2> SUFFICES ASSUME NEW text, NEW ticker, NEW d, NEW x
               PROVE  TxTexts!ReadsAs(text, ticker, d, x) = ReadsAs(text, ticker, d, x)
    OBVIOUS
  <2> DEFINE digits == SubSeq(text, Len(ticker) + 1, Len(text))
             point == PointAt(digits)
             whole == SubSeq(digits, 1, point - 1)
             fraction == SubSeq(digits, point + 1, Len(digits))
             Reads ==
                /\ IsPrefix(ticker, text)
                /\ whole # <<>>
                /\ whole \o fraction \in Seq(0..9)
                /\ point <= Len(digits) => Len(fraction) \in 1..d
                /\ ReadDigits(whole) * 10^d
                     + ReadDigits(fraction) * 10^(d - Len(fraction)) = x
  <2>2. ReadsAs(text, ticker, d, x) = Reads
    BY ONLY DEF ReadsAs
  <2> HIDE DEF whole, fraction, digits
  <2>3. TxTexts!IsPrefix(ticker, text) = IsPrefix(ticker, text) /\ TxTexts!PointAt(digits) = point
        /\ TxTexts!ReadDigits(whole) = ReadDigits(whole)
        /\ TxTexts!ReadDigits(fraction) = ReadDigits(fraction)
    BY ONLY <1>10, <2>1
  <2> HIDE DEF point
  <2>4. TxTexts!ReadsAs(text, ticker, d, x) = Reads
    BY ONLY <2>3 DEF TxTexts!ReadsAs, digits, whole, fraction
  <2> QED BY ONLY <2>2, <2>4
<1>12. (\A known : TxTexts!NetworkTicker(known) = NetworkTicker(known)) /\ TxTexts!Numbers = Numbers
  BY DEF NetworkTicker, TxTexts!NetworkTicker, Coin, TxTexts!Coin, Space, TxTexts!Space, Numbers,
         TxTexts!Numbers
<1> QED BY <1>1, <1>7, <1>8, <1>9, <1>11, <1>12

LEMMA SwapOperators ==
    /\ \A x, d, ticker, former, size :
          SwapCalls!AmountToString(x, d, ticker, former, size)
            = AmountToString(x, d, ticker, former, size)
    /\ \A x, d, ticker, size : SwapCalls!Fits(x, d, ticker, size) = Fits(x, d, ticker, size)
    /\ \A text, ticker, d, x :
          SwapCalls!ReadsAs(text, ticker, d, x) = ReadsAs(text, ticker, d, x)
    /\ \A price, gas, ticker :
          SwapCalls!ComputeFees(price, gas, ticker) = ComputeFees(price, gas, ticker)
    /\ \A x : SwapCalls!Decimal(x) = Decimal(x)
    /\ \A known : SwapCalls!NetworkTicker(known) = NetworkTicker(known)
    /\ SwapCalls!Numbers = Numbers
<1>1. \A x : SwapCalls!Decimal(x) = Decimal(x)
  BY DEF Decimal, SwapCalls!Decimal
<1>2. \A s : SwapCalls!WithoutLastZeros(s) = WithoutLastZeros(s)
  BY DEF WithoutLastZeros, SwapCalls!WithoutLastZeros, Max, SwapCalls!Max
<1>3. \A s, d : SwapCalls!Fraction(s, d) = Fraction(s, d)
  BY <1>2 DEF Fraction, SwapCalls!Fraction
<1>4. SwapCalls!Dot = Dot /\ SwapCalls!Refused = Refused /\ SwapCalls!FeeRoom = FeeRoom
  BY DEF SwapCalls!Dot, Dot, SwapCalls!Refused, Refused, SwapCalls!FeeRoom, FeeRoom
<1>5. \A s, T, d : SwapCalls!AdjustDecimals(s, T, d) = AdjustDecimals(s, T, d)
  BY <1>2, <1>3, <1>4 DEF AdjustDecimals, SwapCalls!AdjustDecimals
<1>6. \A t, s, f : SwapCalls!TickerFirst(t, s, f) = TickerFirst(t, s, f)
  BY <1>4 DEF TickerFirst, SwapCalls!TickerFirst
<1>7. \A x, d, ticker, former, size :
          SwapCalls!AmountToString(x, d, ticker, former, size)
            = AmountToString(x, d, ticker, former, size)
  <2>1. \A S : SwapCalls!Min(S) = Min(S)
    BY DEF Min, SwapCalls!Min
  <2> SUFFICES ASSUME NEW x, NEW d, NEW ticker, NEW former, NEW size
               PROVE  SwapCalls!AmountToString(x, d, ticker, former, size)
                        = AmountToString(x, d, ticker, former, size)
    OBVIOUS
  <2> DEFINE adjusted == AdjustDecimals(Decimal(x), size - Len(ticker) - 1, d)
             text == TickerFirst(ticker, adjusted, former)
  <2>2. SwapCalls!AdjustDecimals(SwapCalls!Decimal(x), size - Len(ticker) - 1, d) = adjusted
    BY ONLY <1>1, <1>5
  <2>3. SwapCalls!TickerFirst(ticker, adjusted, former) = text
    BY ONLY <1>6
  <2>4. AmountToString(x, d, ticker, former, size)
          = SubSeq(text, 1, Min({Len(text), size - 1}))
    BY ONLY DEF AmountToString
  <2> HIDE DEF adjusted, text
  <2>5. SwapCalls!AmountToString(x, d, ticker, former, size)
          = SubSeq(text, 1, Min({Len(text), size - 1}))
    BY ONLY <2>1, <2>2, <2>3 DEF SwapCalls!AmountToString
  <2> QED BY ONLY <2>4, <2>5
<1>8. \A x, d, ticker, size : SwapCalls!Fits(x, d, ticker, size) = Fits(x, d, ticker, size)
  BY <1>1, <1>4, <1>5 DEF Fits, SwapCalls!Fits
<1>9. \A price, gas, ticker :
          SwapCalls!ComputeFees(price, gas, ticker) = ComputeFees(price, gas, ticker)
  BY <1>1, <1>4, <1>5 DEF ComputeFees, SwapCalls!ComputeFees
<1>10. \A s : SwapCalls!PointAt(s) = PointAt(s) /\ SwapCalls!ReadDigits(s) = ReadDigits(s)
  BY <1>4 DEF PointAt, SwapCalls!PointAt, ReadDigits, SwapCalls!ReadDigits, ValueIn, SwapCalls!ValueIn
<1>11. \A text, ticker, d, x :
          SwapCalls!ReadsAs(text, ticker, d, x) = ReadsAs(text, ticker, d, x)
  <2>1. \A t, u : SwapCalls!IsPrefix(t, u) = IsPrefix(t, u)
    BY DEF IsPrefix, SwapCalls!IsPrefix
  <2> SUFFICES ASSUME NEW text, NEW ticker, NEW d, NEW x
               PROVE  SwapCalls!ReadsAs(text, ticker, d, x) = ReadsAs(text, ticker, d, x)
    OBVIOUS
  <2> DEFINE digits == SubSeq(text, Len(ticker) + 1, Len(text))
             point == PointAt(digits)
             whole == SubSeq(digits, 1, point - 1)
             fraction == SubSeq(digits, point + 1, Len(digits))
             Reads ==
                /\ IsPrefix(ticker, text)
                /\ whole # <<>>
                /\ whole \o fraction \in Seq(0..9)
                /\ point <= Len(digits) => Len(fraction) \in 1..d
                /\ ReadDigits(whole) * 10^d
                     + ReadDigits(fraction) * 10^(d - Len(fraction)) = x
  <2>2. ReadsAs(text, ticker, d, x) = Reads
    BY ONLY DEF ReadsAs
  <2> HIDE DEF whole, fraction, digits
  <2>3. SwapCalls!IsPrefix(ticker, text) = IsPrefix(ticker, text) /\ SwapCalls!PointAt(digits) = point
        /\ SwapCalls!ReadDigits(whole) = ReadDigits(whole)
        /\ SwapCalls!ReadDigits(fraction) = ReadDigits(fraction)
    BY ONLY <1>10, <2>1
  <2> HIDE DEF point
  <2>4. SwapCalls!ReadsAs(text, ticker, d, x) = Reads
    BY ONLY <2>3 DEF SwapCalls!ReadsAs, digits, whole, fraction
  <2> QED BY ONLY <2>2, <2>4
<1>12. (\A known : SwapCalls!NetworkTicker(known) = NetworkTicker(known)) /\ SwapCalls!Numbers = Numbers
  BY DEF NetworkTicker, SwapCalls!NetworkTicker, Coin, SwapCalls!Coin, Space, SwapCalls!Space, Numbers,
         SwapCalls!Numbers
<1> QED BY <1>1, <1>7, <1>8, <1>9, <1>11, <1>12

LEMMA ScreenOperators ==
    /\ \A x, d, ticker, former, size :
          Screens!AmountToString(x, d, ticker, former, size)
            = AmountToString(x, d, ticker, former, size)
    /\ \A x, d, ticker, size : Screens!Fits(x, d, ticker, size) = Fits(x, d, ticker, size)
    /\ \A text, ticker, d, x :
          Screens!ReadsAs(text, ticker, d, x) = ReadsAs(text, ticker, d, x)
    /\ \A price, gas, ticker :
          Screens!ComputeFees(price, gas, ticker) = ComputeFees(price, gas, ticker)
    /\ \A x : Screens!Decimal(x) = Decimal(x)
    /\ \A known : Screens!NetworkTicker(known) = NetworkTicker(known)
    /\ Screens!Numbers = Numbers
<1>1. \A x : Screens!Decimal(x) = Decimal(x)
  BY DEF Decimal, Screens!Decimal
<1>2. \A s : Screens!WithoutLastZeros(s) = WithoutLastZeros(s)
  BY DEF WithoutLastZeros, Screens!WithoutLastZeros, Max, Screens!Max
<1>3. \A s, d : Screens!Fraction(s, d) = Fraction(s, d)
  BY <1>2 DEF Fraction, Screens!Fraction
<1>4. Screens!Dot = Dot /\ Screens!Refused = Refused /\ Screens!FeeRoom = FeeRoom
  BY DEF Screens!Dot, Dot, Screens!Refused, Refused, Screens!FeeRoom, FeeRoom
<1>5. \A s, T, d : Screens!AdjustDecimals(s, T, d) = AdjustDecimals(s, T, d)
  BY <1>2, <1>3, <1>4 DEF AdjustDecimals, Screens!AdjustDecimals
<1>6. \A t, s, f : Screens!TickerFirst(t, s, f) = TickerFirst(t, s, f)
  BY <1>4 DEF TickerFirst, Screens!TickerFirst
<1>7. \A x, d, ticker, former, size :
          Screens!AmountToString(x, d, ticker, former, size)
            = AmountToString(x, d, ticker, former, size)
  <2>1. \A S : Screens!Min(S) = Min(S)
    BY DEF Min, Screens!Min
  <2> SUFFICES ASSUME NEW x, NEW d, NEW ticker, NEW former, NEW size
               PROVE  Screens!AmountToString(x, d, ticker, former, size)
                        = AmountToString(x, d, ticker, former, size)
    OBVIOUS
  <2> DEFINE adjusted == AdjustDecimals(Decimal(x), size - Len(ticker) - 1, d)
             text == TickerFirst(ticker, adjusted, former)
  <2>2. Screens!AdjustDecimals(Screens!Decimal(x), size - Len(ticker) - 1, d) = adjusted
    BY ONLY <1>1, <1>5
  <2>3. Screens!TickerFirst(ticker, adjusted, former) = text
    BY ONLY <1>6
  <2>4. AmountToString(x, d, ticker, former, size)
          = SubSeq(text, 1, Min({Len(text), size - 1}))
    BY ONLY DEF AmountToString
  <2> HIDE DEF adjusted, text
  <2>5. Screens!AmountToString(x, d, ticker, former, size)
          = SubSeq(text, 1, Min({Len(text), size - 1}))
    BY ONLY <2>1, <2>2, <2>3 DEF Screens!AmountToString
  <2> QED BY ONLY <2>4, <2>5
<1>8. \A x, d, ticker, size : Screens!Fits(x, d, ticker, size) = Fits(x, d, ticker, size)
  BY <1>1, <1>4, <1>5 DEF Fits, Screens!Fits
<1>9. \A price, gas, ticker :
          Screens!ComputeFees(price, gas, ticker) = ComputeFees(price, gas, ticker)
  BY <1>1, <1>4, <1>5 DEF ComputeFees, Screens!ComputeFees
<1>10. \A s : Screens!PointAt(s) = PointAt(s) /\ Screens!ReadDigits(s) = ReadDigits(s)
  BY <1>4 DEF PointAt, Screens!PointAt, ReadDigits, Screens!ReadDigits, ValueIn, Screens!ValueIn
<1>11. \A text, ticker, d, x :
          Screens!ReadsAs(text, ticker, d, x) = ReadsAs(text, ticker, d, x)
  <2>1. \A t, u : Screens!IsPrefix(t, u) = IsPrefix(t, u)
    BY DEF IsPrefix, Screens!IsPrefix
  <2> SUFFICES ASSUME NEW text, NEW ticker, NEW d, NEW x
               PROVE  Screens!ReadsAs(text, ticker, d, x) = ReadsAs(text, ticker, d, x)
    OBVIOUS
  <2> DEFINE digits == SubSeq(text, Len(ticker) + 1, Len(text))
             point == PointAt(digits)
             whole == SubSeq(digits, 1, point - 1)
             fraction == SubSeq(digits, point + 1, Len(digits))
             Reads ==
                /\ IsPrefix(ticker, text)
                /\ whole # <<>>
                /\ whole \o fraction \in Seq(0..9)
                /\ point <= Len(digits) => Len(fraction) \in 1..d
                /\ ReadDigits(whole) * 10^d
                     + ReadDigits(fraction) * 10^(d - Len(fraction)) = x
  <2>2. ReadsAs(text, ticker, d, x) = Reads
    BY ONLY DEF ReadsAs
  <2> HIDE DEF whole, fraction, digits
  <2>3. Screens!IsPrefix(ticker, text) = IsPrefix(ticker, text) /\ Screens!PointAt(digits) = point
        /\ Screens!ReadDigits(whole) = ReadDigits(whole)
        /\ Screens!ReadDigits(fraction) = ReadDigits(fraction)
    BY ONLY <1>10, <2>1
  <2> HIDE DEF point
  <2>4. Screens!ReadsAs(text, ticker, d, x) = Reads
    BY ONLY <2>3 DEF Screens!ReadsAs, digits, whole, fraction
  <2> QED BY ONLY <2>2, <2>4
<1>12. (\A known : Screens!NetworkTicker(known) = NetworkTicker(known)) /\ Screens!Numbers = Numbers
  BY DEF NetworkTicker, Screens!NetworkTicker, Coin, Screens!Coin, Space, Screens!Space, Numbers,
         Screens!Numbers
<1> QED BY <1>1, <1>7, <1>8, <1>9, <1>11, <1>12

TxConstants ==
    /\ {AmountSize, NonceSize} \subseteq Nat \ {0}
    /\ NonceSize - 1 \in Nat \ {0} /\ NonceSize <= AmountSize
    /\ Values \cup Nonces \subseteq Numbers
    /\ TokenDecimals \cup {CoinDecimals} \subseteq Nat
    /\ GasPrices \cup StartGases \subseteq Nat
    /\ Modulus \in Nat \ {0}
    /\ ChainIds \subseteq Int /\ 2^ChainBits \in Int

LEMMA TxConstantsTyped == ASSUME PowerLaws PROVE TxConstants
<1>1. 2 \in 2..16 /\ ChainBits \in Nat
  BY TextsAssumption DEF TxTexts!TxTextsAssumption
<1>2. 2^ChainBits \in Nat
  BY <1>1, PowerPositive
<1>3. TokenDecimals \cup GasPrices \cup StartGases \subseteq Nat
  BY TextsAssumption DEF TxTexts!TxTextsAssumption
<1>4. AmountSize \in Nat /\ NonceSize \in 2 .. AmountSize /\ ChainIds \subseteq Nat
  BY TextsAssumption DEF TxTexts!TxTextsAssumption
<1>5. Values \cup Nonces \subseteq Numbers
  BY TextsAssumption, TxOperators DEF TxTexts!TxTextsAssumption
<1>6. CoinDecimals \in Nat /\ Modulus \in Nat \ {0}
  BY TextsAssumption DEF TextAssumption
<1> QED BY <1>2, <1>3, <1>4, <1>5, <1>6 DEF TxConstants

TxTyped ==
    /\ tx \in [destination : {"ADDRESS", "NONE"}, value : Values,
               decimals : TokenDecimals \cup {CoinDecimals}, nonce : Nonces,
               gasPrice : GasPrices, startGas : StartGases, chain : ChainIds]
    /\ displayBuffer \in Seq(Nat)
    /\ strings \in [fullAddress : Seq(Nat), fullAmount : Seq(Nat), nonce : Seq(Nat),
                    maxFee : Seq(Nat), network_name : Seq(Int)]
    /\ stage \in {"ADDRESS", "AMOUNT", "NONCE", "FEE", "NETWORK", "PREPARED",
                  "THROWN", "OVERRUN"}

\* The texts that have been prepared so far.
AmountPrepared ==
    stage \in {"NONCE", "FEE", "NETWORK", "PREPARED"}
    /\ Fits(tx.value, tx.decimals, TxTexts!Ticker, AmountSize)
        => ReadsAs(strings.fullAmount, TxTexts!Ticker, tx.decimals, tx.value)

NoncePrepared ==
    stage \in {"FEE", "NETWORK", "PREPARED"} /\ tx.nonce < 10^(NonceSize - 1)
        => strings.nonce = Decimal(tx.nonce) /\ Len(strings.nonce) < NonceSize

FeePrepared ==
    stage \in {"NETWORK", "PREPARED"} /\ tx.gasPrice * tx.startGas < Modulus
        => ReadsAs(strings.maxFee, TxTexts!Ticker, CoinDecimals,
                   tx.gasPrice * tx.startGas)

\* displayBuffer has its null byte, but for a nonce that was too long for it.
BufferEnds ==
    \/ Len(displayBuffer) < AmountSize
    \/ stage \in {"FEE", "OVERRUN"} /\ Len(displayBuffer) = AmountSize
       /\ TxTexts!NonceTooLong

TxInv ==
    /\ TxTyped
    /\ BufferEnds
    /\ Len(strings.nonce) <= NonceSize
    /\ Len(strings.fullAmount) < AmountSize
    /\ Len(strings.maxFee) < AmountSize
    /\ AmountPrepared /\ NoncePrepared /\ FeePrepared

LEMMA TxTickerTyped == TxTexts!Ticker \in Seq(Nat)
<1>1. TxTexts!Ticker = NetworkTicker(tx.chain = KnownChain)
  BY TxOperators DEF TxTexts!Ticker
<1>2. <<Coin, Space>> \in Seq(Nat) /\ <<Coin>> \in Seq(Nat)
  BY DEF Coin, Space
<1> QED BY <1>1, <1>2 DEF NetworkTicker

LEMMA TxInit == ASSUME PowerLaws, TxTexts!Init PROVE TxInv
<1>1. AmountSize \in Nat \ {0} /\ NonceSize \in Nat \ {0}
  BY TxConstantsTyped DEF TxConstants
<1>2. TxTexts!StackText \in Seq(Nat) /\ Len(TxTexts!StackText) = AmountSize - 1
  BY <1>1 DEF TxTexts!StackText
<1>3. displayBuffer \in Seq(Nat) /\ Len(displayBuffer) < AmountSize
  <2>1. displayBuffer \in {<<>>, TxTexts!StackText}
    BY DEF TxTexts!Init
  <2>2. <<>> \in Seq(Nat) /\ Len(<<>>) = 0
    OBVIOUS
  <2>3. CASE displayBuffer = <<>>
    BY <1>1, <2>2, <2>3
  <2>4. CASE displayBuffer = TxTexts!StackText
    BY <1>1, <1>2, <2>4
  <2> QED BY <2>1, <2>3, <2>4
<1>4. TxTyped /\ stage = "ADDRESS"
  BY <1>3 DEF TxTexts!Init, TxTyped
<1>5. strings.nonce = <<>> /\ strings.fullAmount = <<>> /\ strings.maxFee = <<>>
  BY DEF TxTexts!Init
<1>6. Len(strings.nonce) = 0 /\ Len(strings.fullAmount) = 0 /\ Len(strings.maxFee) = 0
  BY <1>5
<1> QED BY <1>1, <1>3, <1>4, <1>6
       DEF TxInv, BufferEnds, AmountPrepared, NoncePrepared, FeePrepared

LEMMA TxFieldsTyped ==
    ASSUME PowerLaws, TxTyped
    PROVE  /\ tx.value \in Numbers /\ tx.nonce \in Numbers /\ tx.decimals \in Nat
           /\ tx.gasPrice \in Nat /\ tx.startGas \in Nat /\ tx.chain \in Int
<1>1. /\ tx.value \in Values /\ tx.nonce \in Nonces
      /\ tx.decimals \in TokenDecimals \cup {CoinDecimals}
      /\ tx.gasPrice \in GasPrices /\ tx.startGas \in StartGases /\ tx.chain \in ChainIds
  BY DEF TxTyped
<1> HIDE DEF TxTyped
<1> QED BY <1>1, TxConstantsTyped DEF TxConstants

LEMMA AddressStep ==
    ASSUME PowerLaws, TxInv, TxTexts!PrepareAddress
    PROVE  TxInv'
<1> DEFINE address == TxTexts!AddressText
<1>1. AmountSize \in Nat \ {0}
  BY TxConstantsTyped DEF TxConstants
<1>2. address \in Seq(Nat) /\ Len(address) < AmountSize
  <2>1. address \in Seq(Nat) /\ Len(address) = AmountSize - 1
    BY <1>1 DEF TxTexts!AddressText
  <2> HIDE DEF address
  <2> QED BY <1>1, <2>1
<1>3. TxTexts!CreationText \in Seq(Nat)
  BY DEF TxTexts!CreationText
<1>4. /\ tx' = tx /\ stage = "ADDRESS" /\ stage' = "AMOUNT"
      /\ \/ displayBuffer' = address /\ strings' = [strings EXCEPT !.fullAddress = address]
         \/ /\ displayBuffer' = displayBuffer
            /\ strings' = [strings EXCEPT !.fullAddress = TxTexts!CreationText]
  BY DEF TxTexts!PrepareAddress
<1> HIDE DEF address
<1>5. /\ displayBuffer' \in Seq(Nat) /\ Len(displayBuffer') < AmountSize
      /\ strings' \in [fullAddress : Seq(Nat), fullAmount : Seq(Nat), nonce : Seq(Nat),
                       maxFee : Seq(Nat), network_name : Seq(Int)]
      /\ strings'.nonce = strings.nonce /\ strings'.fullAmount = strings.fullAmount
      /\ strings'.maxFee = strings.maxFee
  BY <1>2, <1>3, <1>4 DEF TxInv, BufferEnds, TxTyped
<1>6. TxTyped'
  BY <1>4, <1>5 DEF TxInv, TxTyped
<1> QED BY <1>4, <1>5, <1>6 DEF TxInv, BufferEnds, AmountPrepared, NoncePrepared, FeePrepared

LEMMA AmountStep ==
    ASSUME PowerLaws, TxInv, TxTexts!PrepareAmount
    PROVE  TxInv'
<1> DEFINE ticker == TxTexts!Ticker
           text == AmountToString(tx.value, tx.decimals, ticker, displayBuffer, AmountSize)
<1>1. AmountSize \in Nat \ {0}
  BY TxConstantsTyped DEF TxConstants
<1>2. /\ tx' = tx /\ stage' = "NONCE" /\ displayBuffer' = text
      /\ strings' = [strings EXCEPT !.fullAmount = text]
  BY TxOperators DEF TxTexts!PrepareAmount
<1>3. ticker' = ticker /\ ticker \in Seq(Nat)
  <2>1. ticker' = ticker
    BY <1>2 DEF TxTexts!Ticker
  <2> QED BY <2>1, TxTickerTyped
<1>4. tx.value \in Numbers /\ tx.decimals \in Nat /\ displayBuffer \in Seq(Nat)
  BY TxFieldsTyped DEF TxInv, TxTyped
<1> HIDE DEF ticker
<1>5. text \in Seq(Nat) /\ Len(text) < AmountSize
  BY <1>1, <1>3, <1>4, AmountInBuffer
<1>6. Fits(tx.value, tx.decimals, ticker, AmountSize)
        => ReadsAs(text, ticker, tx.decimals, tx.value)
  BY <1>1, <1>3, <1>4, AmountRead
<1> HIDE DEF text
<1>7. TxTyped'
  BY <1>2, <1>5 DEF TxInv, TxTyped
<1>8. /\ strings'.fullAmount = text /\ strings'.nonce = strings.nonce
      /\ strings'.maxFee = strings.maxFee
  BY <1>2 DEF TxInv, TxTyped
<1>9. AmountPrepared'
  BY <1>2, <1>3, <1>6, <1>8 DEF AmountPrepared, ticker
<1>10. Len(displayBuffer') < AmountSize /\ Len(strings'.fullAmount) < AmountSize
  BY <1>1, <1>2, <1>5, <1>8
<1> QED BY <1>2, <1>7, <1>8, <1>9, <1>10 DEF TxInv, BufferEnds, NoncePrepared, FeePrepared

\* A number below 10^(size - 1) has less than size digits.
LEMMA FewDigits ==
    ASSUME PowerLaws, NEW x \in Numbers, NEW size \in Nat, size >= 2,
           x < 10^(size - 1)
    PROVE  Len(Decimal(x)) < size
<1> DEFINE n == Len(Decimal(x))
<1>1. n \in Nat /\ x \in Nat /\ (n > 1 => x >= 10^(n - 1))
  BY DecimalDigits
<1> HIDE DEF n
<1>2. SUFFICES ASSUME n >= size PROVE FALSE
  BY <1>1 DEF n
<1> DEFINE a == 10^(size - 1)
           b == 10^(n - 1)
<1>3. a \in Nat /\ b \in Nat /\ a <= b
  <2>1. size - 1 \in Nat /\ n - 1 \in Nat /\ size - 1 <= n - 1
    BY <1>1, <1>2
  <2> QED BY <2>1, TenTo, TenToOrdered
<1>4. x >= b /\ x < a
  BY <1>1, <1>2
<1> HIDE DEF a, b
<1> QED BY <1>1, <1>3, <1>4

LEMMA NonceTexts ==
    ASSUME PowerLaws, NEW x \in Numbers, ~TxTexts!FillsBuffer(x)
    PROVE  LET text == TxTexts!NonceText(x)
               copy == TxTexts!NonceCopy(text)
           IN  /\ text \in Seq(Nat)
               /\ \/ Len(text) < AmountSize
                  \/ Len(text) = AmountSize /\ x >= 10^AmountSize
               /\ copy \in Seq(Nat) /\ Len(copy) <= NonceSize
               /\ x < 10^(NonceSize - 1) => copy = Decimal(x) /\ Len(copy) < NonceSize
<1> DEFINE src == Decimal(x)
           text == TxTexts!NonceText(x)
           copy == TxTexts!NonceCopy(text)
<1>1. AmountSize \in Nat /\ NonceSize \in Nat /\ NonceSize >= 2 /\ NonceSize <= AmountSize
  <2>1. /\ AmountSize \in Nat \ {0} /\ NonceSize \in Nat \ {0} /\ NonceSize - 1 \in Nat \ {0}
        /\ NonceSize <= AmountSize
    BY TxConstantsTyped DEF TxConstants
  <2> QED BY <2>1
<1>2. src \in Seq(Nat) /\ Len(src) \in Nat
  <2>1. src \in Seq(0..9)
    BY DecimalDigits
  <2>2. 0..9 \subseteq Nat
    OBVIOUS
  <2> HIDE DEF src
  <2>3. src \in Seq(Nat)
    BY <2>1, <2>2, SeqMonotonic
  <2> QED BY <2>3
<1>3. x < 10^(NonceSize - 1) => Len(src) < NonceSize
  BY <1>1, FewDigits
<1>4. Len(src) # AmountSize /\ (Len(src) > AmountSize => x >= 10^AmountSize)
  <2>1. Len(src) # AmountSize
    BY TxOperators DEF TxTexts!FillsBuffer
  <2>2. x \in Nat /\ (Len(src) > 1 => x >= 10^(Len(src) - 1))
    BY DecimalDigits
  <2> DEFINE n == Len(src)
             m == 10^AmountSize
             l == 10^(n - 1)
  <2>3. ASSUME n > AmountSize PROVE x >= m
    <3>1. n - 1 \in Nat /\ AmountSize \in Nat /\ AmountSize <= n - 1 /\ n > 1
      <4>1. n \in Nat
        BY <1>2
      <4> HIDE DEF n
      <4> QED BY <1>1, <2>3, <4>1
    <3>2. m \in Nat /\ l \in Nat /\ m <= l
      <4> HIDE DEF n
      <4> QED BY <3>1, TenTo, TenToOrdered
    <3>3. x >= l
      BY <2>2, <3>1
    <3> HIDE DEF m, l
    <3> QED BY <2>2, <3>2, <3>3
  <2> QED BY <2>1, <2>3
<1> HIDE DEF src
<1>5. /\ text \in Seq(Nat)
      /\ \/ Len(text) < AmountSize
         \/ Len(text) = AmountSize /\ x >= 10^AmountSize
      /\ Len(src) < AmountSize => text = src
  <2>1. CASE Len(src) < AmountSize
    <3>1. text = src
      BY <2>1, TxOperators DEF TxTexts!NonceText, src
    <3> QED BY <1>2, <2>1, <3>1
  <2>2. CASE ~(Len(src) < AmountSize)
    <3> DEFINE back == TxTexts!Reverse(src)
    <3>1. text = SubSeq(back, 1, AmountSize)
      BY <2>2, TxOperators DEF TxTexts!NonceText, src
    <3>2. back \in Seq(Nat) /\ Len(back) = Len(src)
      <4>1. back = [i \in 1 .. Len(src) |-> src[(Len(src) - i) + 1]]
        BY DEF TxTexts!Reverse
      <4>2. \A i \in 1 .. Len(src) : src[(Len(src) - i) + 1] \in Nat
        <5>1. ASSUME NEW i \in 1 .. Len(src) PROVE src[(Len(src) - i) + 1] \in Nat
          <6>1. (Len(src) - i) + 1 \in 1 .. Len(src)
            BY <1>2
          <6> QED BY <1>2, <6>1, ElementOfSeq
        <5> QED BY <5>1
      <4> HIDE DEF back
      <4> QED BY <1>2, <4>1, <4>2
    <3> HIDE DEF back
    <3>3. SubSeq(back, 1, AmountSize) \in Seq(Nat)
          /\ Len(SubSeq(back, 1, AmountSize)) = AmountSize
      <4>1. 1 \in Nat \ {0} /\ AmountSize \in Int /\ AmountSize <= Len(back)
            /\ 1 <= AmountSize /\ AmountSize - 1 + 1 = AmountSize
        BY <1>1, <1>2, <2>2, <3>2
      <4>2. /\ SubSeq(back, 1, AmountSize) \in Seq(Nat)
            /\ Len(SubSeq(back, 1, AmountSize))
                 = IF 1 <= AmountSize THEN AmountSize - 1 + 1 ELSE 0
        BY ONLY <3>2, <4>1, Part
      <4> QED BY <4>1, <4>2
    <3> QED BY <1>1, <1>2, <1>4, <2>2, <3>1, <3>3
  <2> QED BY <2>1, <2>2
<1> HIDE DEF text
<1> DEFINE a == Len(text)
           m == IF a <= NonceSize THEN a ELSE NonceSize
<1>6. copy = SubSeq(text, 1, m)
  <2>1. a \in Int /\ NonceSize \in Int
    BY <1>1, <1>5
  <2> HIDE DEF a
  <2>2. Min({a, NonceSize}) = m
    BY <2>1, MinOfTwo
  <2>3. TxTexts!Min({a, NonceSize}) = Min({a, NonceSize})
    BY DEF Min, TxTexts!Min
  <2> HIDE DEF m
  <2>4. TxTexts!Min({a, NonceSize}) = m
    BY <2>2, <2>3
  <2> QED BY <2>4 DEF TxTexts!NonceCopy, a
<1> HIDE DEF copy
<1>7. copy \in Seq(Nat) /\ Len(copy) <= NonceSize
  <2>1. m \in Nat /\ m <= a /\ m <= NonceSize
    BY <1>1, <1>5
  <2> HIDE DEF m
  <2> QED BY <1>1, <1>5, <1>6, <2>1
<1>8. ASSUME x < 10^(NonceSize - 1)
      PROVE  copy = src /\ Len(copy) < NonceSize
  <2>1. Len(src) < NonceSize /\ Len(src) < AmountSize
    BY <1>1, <1>2, <1>3, <1>8
  <2>2. text = src /\ m = Len(src)
    BY <1>1, <1>2, <1>5, <2>1
  <2> HIDE DEF m
  <2>3. SubSeq(src, 1, Len(src)) = src
    BY <1>2
  <2> QED BY <1>6, <2>1, <2>2, <2>3
<1> QED BY <1>5, <1>7, <1>8 DEF text, copy, src

LEMMA NonceStep ==
    ASSUME PowerLaws, TxInv, TxTexts!PrepareNonce
    PROVE  TxInv'
<1> DEFINE text == TxTexts!NonceText(tx.nonce)
           copy == TxTexts!NonceCopy(text)
<1>1. /\ tx' = tx /\ stage = "NONCE" /\ stage' = "FEE" /\ displayBuffer' = text
      /\ ~TxTexts!FillsBuffer(tx.nonce)
      /\ strings' = [strings EXCEPT !.nonce = copy]
  BY DEF TxTexts!PrepareNonce
<1>2. tx.nonce \in Numbers
  BY TxFieldsTyped DEF TxInv
<1>3. /\ text \in Seq(Nat)
      /\ \/ Len(text) < AmountSize
         \/ Len(text) = AmountSize /\ tx.nonce >= 10^AmountSize
      /\ copy \in Seq(Nat) /\ Len(copy) <= NonceSize
      /\ tx.nonce < 10^(NonceSize - 1) => copy = Decimal(tx.nonce) /\ Len(copy) < NonceSize
  BY <1>1, <1>2, NonceTexts
<1> HIDE DEF copy, text
<1>4. TxTyped'
  BY <1>1, <1>3 DEF TxInv, TxTyped
<1>5. /\ strings'.nonce = copy /\ strings'.fullAmount = strings.fullAmount
      /\ strings'.maxFee = strings.maxFee
  BY <1>1 DEF TxInv, TxTyped
<1>6. TxTexts!Ticker' = TxTexts!Ticker
  BY <1>1 DEF TxTexts!Ticker
<1>7. NoncePrepared'
  BY <1>1, <1>3, <1>5 DEF NoncePrepared
<1>8. AmountPrepared' /\ FeePrepared'
  BY <1>1, <1>5, <1>6 DEF TxInv, AmountPrepared, FeePrepared
<1>9. /\ BufferEnds' /\ Len(strings'.nonce) <= NonceSize
      /\ Len(strings'.fullAmount) < AmountSize /\ Len(strings'.maxFee) < AmountSize
  BY <1>1, <1>3, <1>5 DEF TxInv, BufferEnds, TxTexts!NonceTooLong
<1> QED BY <1>4, <1>7, <1>8, <1>9 DEF TxInv

LEMMA FeeStep ==
    ASSUME PowerLaws, TxInv, TxTexts!PrepareFee
    PROVE  TxInv'
<1> DEFINE ticker == TxTexts!Ticker
           text == ComputeFees(tx.gasPrice, tx.startGas, ticker)
<1>1. /\ tx' = tx /\ stage = "FEE" /\ stage' = "NETWORK" /\ displayBuffer' = text
      /\ strings' = [strings EXCEPT !.maxFee = text] /\ Len(text) < AmountSize
  BY TxOperators DEF TxTexts!PrepareFee, TxTexts!FeeText
<1>2. tx.gasPrice \in Nat /\ tx.startGas \in Nat
  BY TxFieldsTyped DEF TxInv
<1>3. ticker \in Seq(Nat)
  BY TxTickerTyped
<1>4. ticker' = ticker
  BY <1>1 DEF TxTexts!Ticker
<1> HIDE DEF ticker
<1>5. /\ ReadsAs(text, ticker, CoinDecimals, (tx.gasPrice * tx.startGas) % Modulus)
      /\ text \in Seq(Nat)
  BY <1>2, <1>3, FeesRead
<1>6. tx.gasPrice * tx.startGas < Modulus
        => ReadsAs(text, ticker, CoinDecimals, tx.gasPrice * tx.startGas)
  <2> DEFINE x == tx.gasPrice * tx.startGas
  <2>1. x \in Nat
    <3> DEFINE a == tx.gasPrice
               b == tx.startGas
    <3>1. a \in Nat /\ b \in Nat
      BY <1>2
    <3> HIDE DEF a, b
    <3>2. a * b \in Nat
      BY <3>1, SMT
    <3> QED BY <3>2 DEF a, b
  <2>2. Modulus \in Nat \ {0}
    BY TxConstantsTyped DEF TxConstants
  <2>3. ReadsAs(text, ticker, CoinDecimals, x % Modulus)
    BY <1>5
  <2> HIDE DEF x
  <2>4. x < Modulus => x % Modulus = x
    BY <2>1, <2>2
  <2>5. x < Modulus => ReadsAs(text, ticker, CoinDecimals, x)
    BY <2>3, <2>4
  <2> QED BY ONLY <2>5 DEF x
<1> HIDE DEF text
<1>7. TxTyped'
  BY <1>1, <1>5 DEF TxInv, TxTyped
<1>8. /\ strings'.maxFee = text /\ strings'.fullAmount = strings.fullAmount
      /\ strings'.nonce = strings.nonce
  BY <1>1 DEF TxInv, TxTyped
<1>9. FeePrepared'
  BY <1>1, <1>4, <1>6, <1>8 DEF FeePrepared, ticker
<1>10. AmountPrepared' /\ NoncePrepared'
  BY <1>1, <1>4, <1>8 DEF TxInv, AmountPrepared, NoncePrepared, ticker
<1>11. Len(displayBuffer') < AmountSize
  <2>1. Len(text) \in Nat /\ AmountSize \in Nat
    BY <1>5, TxConstantsTyped DEF TxConstants
  <2> QED BY <1>1, <2>1
<1>12. /\ Len(strings'.nonce) <= NonceSize
       /\ Len(strings'.fullAmount) < AmountSize /\ Len(strings'.maxFee) < AmountSize
  BY <1>1, <1>8 DEF TxInv
<1> QED BY <1>7, <1>9, <1>10, <1>11, <1>12 DEF TxInv, BufferEnds

LEMMA NetworkStep ==
    ASSUME PowerLaws, TxInv, TxTexts!PrepareNetwork
    PROVE  TxInv'
<1>1. /\ tx' = tx /\ displayBuffer' = displayBuffer
      /\ stage = "NETWORK" /\ stage' = "PREPARED"
      /\ strings' = [strings EXCEPT !.network_name =
                        IF tx.chain = KnownChain THEN TxTexts!NetworkText
                        ELSE <<TxTexts!PrintedAsInt(tx.chain)>>]
  BY DEF TxTexts!PrepareNetwork
<1>2. TxTexts!NetworkText \in Seq(Int)
  BY DEF TxTexts!NetworkText
<1>3. <<TxTexts!PrintedAsInt(tx.chain)>> \in Seq(Int)
  <2> DEFINE m == 2^ChainBits
  <2>1. m \in Int
    BY TxConstantsTyped DEF TxConstants
  <2>2. tx.chain \in Int
    BY TxFieldsTyped DEF TxInv
  <2>3. TxTexts!PrintedAsInt(tx.chain) \in {tx.chain, tx.chain - m}
    BY DEF TxTexts!PrintedAsInt
  <2> HIDE DEF m
  <2>4. TxTexts!PrintedAsInt(tx.chain) \in Int
    BY <2>1, <2>2, <2>3
  <2> QED BY <2>4
<1>4. TxTyped'
  BY <1>1, <1>2, <1>3 DEF TxInv, TxTyped
<1>5. /\ strings'.nonce = strings.nonce /\ strings'.fullAmount = strings.fullAmount
      /\ strings'.maxFee = strings.maxFee
  BY <1>1 DEF TxInv, TxTyped
<1>6. TxTexts!Ticker' = TxTexts!Ticker
  BY <1>1 DEF TxTexts!Ticker
<1> QED BY <1>1, <1>4, <1>5, <1>6 DEF TxInv, BufferEnds, AmountPrepared, NoncePrepared, FeePrepared

LEMMA TxStep == ASSUME PowerLaws, TxInv, TxTexts!Next PROVE TxInv'
<1>1. CASE TxTexts!ChainIdThrown \/ TxTexts!NonceOverrun \/ TxTexts!FeeOverrun
  <2>1. tx' = tx /\ displayBuffer' = displayBuffer /\ strings' = strings
        /\ \/ stage = "ADDRESS" /\ stage' = "THROWN"
           \/ stage \in {"NONCE", "FEE"} /\ stage' = "OVERRUN"
    BY <1>1 DEF TxTexts!ChainIdThrown, TxTexts!NonceOverrun, TxTexts!FeeOverrun
  <2> QED BY <2>1 DEF TxInv, BufferEnds, TxTexts!NonceTooLong, TxTyped,
                      AmountPrepared, NoncePrepared, FeePrepared
<1> QED BY <1>1, AddressStep, AmountStep, NonceStep, FeeStep, NetworkStep DEF TxTexts!Next

\* finalizeParsing, for any transaction and whatever its stack held, up to where a
\* text of nonce or fees is written behind displayBuffer: every text ends in its
\* buffer, but for a nonce that is cut, and amount, fee and nonce are read back as
\* what is signed wherever they fit.
THEOREM TextsRead == ASSUME PowerLaws PROVE Spec => []TextsExact
<1> DEFINE Inv == job = "TX" => TxInv
<1>1. Init => Inv
  BY TxInit DEF Init
<1>2. Inv /\ [Next]_vars => Inv'
  <2> SUFFICES ASSUME Inv, [Next]_vars, job' = "TX" PROVE TxInv'
    OBVIOUS
  <2>1. job = "TX"
    BY DEF Next, PrepareTexts, LibraryCall, PluginScreen, vars
  <2>2. CASE TxTexts!Next
    BY <2>1, <2>2, TxStep
  <2>3. CASE UNCHANGED vars
    <3>1. tx' = tx /\ displayBuffer' = displayBuffer /\ strings' = strings /\ stage' = stage
      BY <2>3 DEF vars, txTextsVars
    <3>2. TxInv
      BY <2>1
    <3>3. TxTexts!Ticker' = TxTexts!Ticker
      BY <3>1 DEF TxTexts!Ticker
    <3> QED BY <3>1, <3>2, <3>3
           DEF TxInv, BufferEnds, TxTexts!NonceTooLong, TxTyped, AmountPrepared, NoncePrepared, FeePrepared
  <2> QED BY <2>1, <2>2, <2>3 DEF Next, PrepareTexts, LibraryCall, PluginScreen
<1>3. Inv => TextsExact
  <2> SUFFICES ASSUME TxInv
               PROVE  TxTexts!TextsInBuffers /\ TxTexts!AmountExact
                      /\ TxTexts!FeeExact /\ TxTexts!NonceExact
    BY DEF TextsExact
  <2>1. TxTexts!TextsInBuffers
    BY DEF TxInv, BufferEnds, TxTyped, TxTexts!TextsInBuffers
  <2>2. TxTexts!AmountExact
    BY TxOperators DEF TxInv, AmountPrepared, TxTexts!AmountExact, TxTexts!Prepared
  <2>3. TxTexts!FeeExact
    BY TxOperators DEF TxInv, FeePrepared, TxTexts!FeeExact, TxTexts!Prepared
  <2>4. TxTexts!NonceExact
    BY TxOperators DEF TxInv, NoncePrepared, TxTexts!NonceExact, TxTexts!Prepared
  <2> QED BY <2>1, <2>2, <2>3, <2>4
<1> QED BY <1>1, <1>2, <1>3, PTL DEF Spec

-----------------------------------------------------------------------------
(* The screens of an approval.                                             *)

LEMMA ScreenConstantsTyped ==
    ASSUME PowerLaws
    PROVE  /\ Allowances \cup {0} \subseteq Numbers
           /\ \A token \in DOMAIN Tokens :
                 /\ token # "NONE"
                 /\ Tokens[token].ticker \in Seq(Nat) /\ Tokens[token].decimals \in Nat
           /\ \A place \in DOMAIN Destinations : Destinations[place] \in Seq(Nat)
           /\ 1 \in DOMAIN Destinations
           /\ MsgRoom \in Nat \ {0}
<1>1. Allowances \subseteq 0..MaxInt /\ MaxInt \in Numbers
  BY TextsAssumption, ScreenOperators DEF Screens!ScreenAssumption
<1>2. Allowances \cup {0} \subseteq Numbers
  <2> DEFINE m == 10^MaxPlaces
  <2>1. m \in Nat \ {0}
    BY TenTo, TextsAssumption DEF TextAssumption
  <2>2. Allowances \subseteq 0..MaxInt /\ MaxInt \in 0 .. m - 1
    BY <1>1 DEF Numbers
  <2> HIDE DEF m
  <2>3. Allowances \cup {0} \subseteq 0 .. m - 1
    BY <2>1, <2>2
  <2> QED BY <2>3 DEF m, Numbers
<1>3. Destinations \in Seq(Seq(Nat)) /\ Destinations # <<>>
  BY TextsAssumption DEF Screens!ScreenAssumption
<1> QED BY <1>2, <1>3, TextsAssumption DEF Screens!ScreenAssumption

ScreenTyped ==
    /\ tx \in [selector : {"TRANSFER", "APPROVE"}, amount : Numbers,
               destination : DOMAIN Destinations, token : DOMAIN Tokens \cup {"NONE"}]
    /\ context \in [amount : Numbers, destination : DOMAIN Destinations,
                    ticker : Seq(Nat), decimals : Nat, target : {"ADDRESS", "CONTRACT"}]
    /\ msg \in Seq(Nat)
    /\ screen \in {"NONE", "REVIEW", "AMOUNT", "DESTINATION"}

\* While anything is on display, the context is that of this transaction, and its
\* token is known.
ContextOfTx ==
    screen # "NONE" =>
        /\ tx.token \in DOMAIN Tokens
        /\ context.amount = tx.amount /\ context.destination = tx.destination
        /\ context.ticker = Screens!Ticker /\ context.decimals = Screens!Decimals
        /\ context.target = IF tx.destination \in Screens!Contracts
                            THEN "CONTRACT" ELSE "ADDRESS"

ScreenInv ==
    /\ ScreenTyped
    /\ ContextOfTx
    /\ Screens!ApprovedAmountExact
    /\ Screens!SpenderShown

LEMMA ScreenInit == ASSUME PowerLaws, Screens!Init PROVE ScreenInv
<1>1. 0 \in Numbers /\ 1 \in DOMAIN Destinations /\ <<>> \in Seq(Nat) /\ MsgRoom \in Nat \ {0}
  BY ScreenConstantsTyped
<1>2. Screens!LeftOver \in Seq(Nat)
  BY <1>1 DEF Screens!LeftOver
<1>3. msg \in Seq(Nat)
  BY <1>1, <1>2 DEF Screens!Init
<1>4. ScreenTyped /\ screen = "NONE"
  BY <1>1, <1>3 DEF Screens!Init, ScreenTyped
<1> QED BY <1>4
       DEF ScreenInv, ContextOfTx, Screens!ApprovedAmountExact, Screens!SpenderShown

LEMMA ProvideTokenStep ==
    ASSUME PowerLaws, ScreenInv,
           NEW selector \in {"TRANSFER", "APPROVE"}, NEW amount \in Allowances,
           NEW destination \in DOMAIN Destinations,
           NEW token \in DOMAIN Tokens \cup {"NONE"},
           Screens!ProvideToken(selector, amount, destination, token)
    PROVE  ScreenInv'
<1>1. /\ tx' = [selector |-> selector, amount |-> amount, destination |-> destination,
                token |-> token]
      /\ context' = IF token = "NONE"
                    THEN [context EXCEPT !.amount = amount, !.destination = destination]
                    ELSE [amount |-> amount, destination |-> destination,
                          ticker |-> Tokens[token].ticker,
                          decimals |-> Tokens[token].decimals, target |-> Screens!Target]
      /\ screen' = IF selector = "APPROVE" /\ token # "NONE" THEN "REVIEW" ELSE "NONE"
      /\ msg' = msg
  BY DEF Screens!ProvideToken
<1>2. amount \in Numbers
  BY ScreenConstantsTyped
<1>3. Screens!Target = IF selector = "APPROVE" /\ destination \in Screens!Contracts
                       THEN "CONTRACT" ELSE "ADDRESS"
  BY <1>1 DEF Screens!Target, Screens!CheckContract
<1>4. token # "NONE" => /\ token \in DOMAIN Tokens
                        /\ Tokens[token].ticker \in Seq(Nat)
                        /\ Tokens[token].decimals \in Nat
  BY ScreenConstantsTyped
<1>5. ScreenTyped'
  <2>1. context' \in [amount : Numbers, destination : DOMAIN Destinations,
                      ticker : Seq(Nat), decimals : Nat, target : {"ADDRESS", "CONTRACT"}]
    <3>1. CASE token = "NONE"
      BY <1>1, <1>2, <3>1 DEF ScreenInv, ScreenTyped
    <3>2. CASE token # "NONE"
      <4>1. Screens!Target \in {"ADDRESS", "CONTRACT"}
        BY <1>3
      <4> QED BY <1>1, <1>2, <1>4, <3>2, <4>1
    <3> QED BY <3>1, <3>2
  <2> QED BY <1>1, <1>2, <2>1 DEF ScreenInv, ScreenTyped
<1>6. ContextOfTx'
  <2> SUFFICES ASSUME screen' # "NONE"
               PROVE  /\ tx'.token \in DOMAIN Tokens
                      /\ context'.amount = tx'.amount
                      /\ context'.destination = tx'.destination
                      /\ context'.ticker = Screens!Ticker'
                      /\ context'.decimals = Screens!Decimals'
                      /\ context'.target = IF tx'.destination \in Screens!Contracts
                                           THEN "CONTRACT" ELSE "ADDRESS"
    BY DEF ContextOfTx, Screens!Contracts
  <2>1. selector = "APPROVE" /\ token # "NONE"
    BY <1>1
  <2>2. Screens!Ticker' = Tokens[token].ticker /\ Screens!Decimals' = Tokens[token].decimals
    BY <1>1 DEF Screens!Ticker, Screens!Decimals
  <2>3. /\ tx'.token = token /\ tx'.amount = amount /\ tx'.destination = destination
        /\ context' = [amount |-> amount, destination |-> destination,
                       ticker |-> Tokens[token].ticker,
                       decimals |-> Tokens[token].decimals, target |-> Screens!Target]
    BY <1>1, <2>1
  <2> QED BY <1>3, <1>4, <2>1, <2>2, <2>3
<1>7. screen' \in {"NONE", "REVIEW"}
  BY <1>1
<1> QED BY <1>5, <1>6, <1>7
       DEF ScreenInv, Screens!ApprovedAmountExact, Screens!SpenderShown

LEMMA QueryAmountStep ==
    ASSUME PowerLaws, ScreenInv, Screens!QueryAmount
    PROVE  ScreenInv'
<1> DEFINE ticker == Screens!Ticker
           decimals == Screens!Decimals
           text == AmountToString(tx.amount, decimals, ticker, msg, MsgRoom)
<1>1. tx' = tx /\ context' = context /\ screen # "NONE" /\ screen' = "AMOUNT"
  BY DEF Screens!QueryAmount
<1>2. /\ context.amount = tx.amount /\ context.ticker = ticker
      /\ context.decimals = decimals /\ tx.token \in DOMAIN Tokens
  BY <1>1 DEF ScreenInv, ContextOfTx
<1>3. msg' = IF tx.amount = MaxInt THEN <<Screens!Unlimited>> \o ticker ELSE text
  BY <1>1, <1>2, ScreenOperators
     DEF Screens!QueryAmount, Screens!IsMaxInt, Screens!AmountMsg
<1>4. /\ tx.amount \in Numbers /\ ticker \in Seq(Nat) /\ decimals \in Nat
      /\ msg \in Seq(Nat) /\ MsgRoom \in Nat \ {0}
  BY <1>2, ScreenConstantsTyped
     DEF ScreenInv, ScreenTyped, Screens!Ticker, Screens!Decimals
<1>5. Screens!Ticker' = ticker /\ Screens!Decimals' = decimals
  BY <1>1 DEF Screens!Ticker, Screens!Decimals
<1> HIDE DEF ticker, decimals
<1>6. text \in Seq(Nat)
  BY <1>4, AmountInBuffer
<1>7. Fits(tx.amount, decimals, ticker, MsgRoom)
        => ReadsAs(text, ticker, decimals, tx.amount)
  BY <1>4, AmountRead
<1> HIDE DEF text
<1>8. <<Screens!Unlimited>> \o ticker \in Seq(Nat)
  <2>1. <<Screens!Unlimited>> \in Seq(Nat)
    BY DEF Screens!Unlimited
  <2> QED BY <2>1, <1>4, ConcatProperties
<1>9. msg' \in Seq(Nat)
  BY <1>3, <1>6, <1>8
<1>10. ScreenTyped'
  BY <1>1, <1>9 DEF ScreenInv, ScreenTyped
<1>11. ContextOfTx'
  BY <1>1, <1>5 DEF ScreenInv, ContextOfTx, Screens!Contracts, ticker, decimals
<1>12. Screens!ApprovedAmountExact'
  <2>1. CASE tx.amount = MaxInt
    BY <1>1, <1>3, <1>5, <2>1 DEF Screens!ApprovedAmountExact, Screens!Unlimited
  <2>2. CASE tx.amount # MaxInt
    <3>1. Fits(tx.amount, decimals, ticker, MsgRoom)
            => ReadsAs(msg', ticker, decimals, tx.amount)
      BY <1>3, <1>7, <2>2
    <3> QED BY <1>1, <1>5, <2>2, <3>1, ScreenOperators DEF Screens!ApprovedAmountExact
  <2> QED BY <2>1, <2>2
<1> QED BY <1>1, <1>10, <1>11, <1>12 DEF ScreenInv, Screens!SpenderShown

LEMMA QueryDestinationStep ==
    ASSUME PowerLaws, ScreenInv, Screens!QueryDestination
    PROVE  ScreenInv'
<1>1. /\ tx' = tx /\ context' = context /\ screen # "NONE" /\ screen' = "DESTINATION"
      /\ msg' = IF context.target = "CONTRACT" THEN <<>>
                ELSE Screens!HexMark \o Destinations[context.destination]
  BY DEF Screens!QueryDestination
<1>2. /\ context.destination = tx.destination /\ tx.destination \in DOMAIN Destinations
      /\ context.target = IF tx.destination \in Screens!Contracts
                          THEN "CONTRACT" ELSE "ADDRESS"
  BY <1>1 DEF ScreenInv, ScreenTyped, ContextOfTx
<1>3. Screens!HexMark \in Seq(Nat) /\ Destinations[tx.destination] \in Seq(Nat)
  BY <1>2, ScreenConstantsTyped DEF Screens!HexMark
<1>4. Screens!HexMark \o Destinations[tx.destination] \in Seq(Nat)
  BY <1>3, ConcatProperties
<1>5. msg' = IF tx.destination \in Screens!Contracts THEN <<>>
             ELSE Screens!HexMark \o Destinations[tx.destination]
  BY <1>1, <1>2
<1>6. msg' \in Seq(Nat)
  BY <1>4, <1>5
<1>7. ScreenTyped'
  BY <1>1, <1>6 DEF ScreenInv, ScreenTyped
<1>8. Screens!Ticker' = Screens!Ticker /\ Screens!Decimals' = Screens!Decimals
  BY <1>1 DEF Screens!Ticker, Screens!Decimals
<1>9. ContextOfTx'
  BY <1>1, <1>8 DEF ScreenInv, ContextOfTx, Screens!Contracts
<1>10. Screens!SpenderShown'
  BY <1>1, <1>5 DEF Screens!SpenderShown, Screens!Contracts, Screens!HexMark
<1> QED BY <1>1, <1>7, <1>9, <1>10 DEF ScreenInv, Screens!ApprovedAmountExact

\* The approval screens, over any sequence of transactions and queries: amount and
\* spender are those of this transaction, in the units of its token.
THEOREM ApprovalShown == ASSUME PowerLaws PROVE Spec => []ApprovalExact
<1> DEFINE Inv == job = "PRC20" => ScreenInv
<1>1. Init => Inv
  BY ScreenInit DEF Init
<1>2. Inv /\ [Next]_vars => Inv'
  <2> SUFFICES ASSUME Inv, [Next]_vars, job' = "PRC20" PROVE ScreenInv'
    OBVIOUS
  <2>1. job = "PRC20" /\ ScreenInv
    BY DEF Next, PrepareTexts, LibraryCall, PluginScreen, vars
  <2>2. CASE Screens!Next
    BY <2>1, <2>2, ProvideTokenStep, QueryAmountStep, QueryDestinationStep
       DEF Screens!Next
  <2>3. CASE UNCHANGED vars
    <3>1. tx' = tx /\ context' = context /\ msg' = msg /\ screen' = screen
      BY <2>3 DEF vars, screensVars
    <3>2. Screens!Ticker' = Screens!Ticker /\ Screens!Decimals' = Screens!Decimals
      BY <3>1 DEF Screens!Ticker, Screens!Decimals
    <3>3. ScreenTyped' /\ ContextOfTx'
      BY <2>1, <3>1, <3>2 DEF ScreenInv, ScreenTyped, ContextOfTx, Screens!Contracts
    <3>4. Screens!ApprovedAmountExact'
      BY <2>1, <3>1, <3>2, ScreenOperators
         DEF ScreenInv, Screens!ApprovedAmountExact, Screens!Unlimited
    <3>5. Screens!SpenderShown'
      BY <2>1, <3>1
         DEF ScreenInv, Screens!SpenderShown, Screens!Contracts, Screens!HexMark
    <3> QED BY <3>3, <3>4, <3>5 DEF ScreenInv
  <2> QED BY <2>1, <2>2, <2>3 DEF Next, PrepareTexts, LibraryCall, PluginScreen
<1>3. Inv => ApprovalExact
  BY DEF ScreenInv, ApprovalExact
<1> QED BY <1>1, <1>2, <1>3, PTL DEF Spec

-----------------------------------------------------------------------------
(* Texts that are compared.                                                *)

LEMMA WholeDigits ==
    ASSUME PowerLaws, NEW x \in Nat, NEW d \in Nat, NEW w, NEW p, NEW s,
           Shown(s, x, d, w, p)
    PROVE  \A i \in 1 .. w : s[i] # Dot
<1>1. ASSUME NEW i \in 1 .. w PROVE s[i] # Dot
  <2>1. (w - i) + d \in Nat /\ s[i] = DigitAt(x, (w - i) + d)
    BY DEF Shown
  <2>2. DigitAt(x, (w - i) + d) \in 0..9
    BY <2>1, DigitRange
  <2> QED BY <2>1, <2>2 DEF Dot
<1> QED BY <1>1

\* Of two numbers with as many decimals the one whose text goes on is not less.
LEMMA NotLess ==
    ASSUME PowerLaws, NEW d \in Nat, NEW a \in Nat, NEW v \in Nat,
           NEW s, NEW w, NEW p, Shown(s, a, d, w, p),
           NEW t, NEW m, NEW r, Shown(t, v, d, m, r),
           Len(s) <= Len(t), \A i \in 1 .. Len(s) : s[i] = t[i]
    PROVE  a <= v
<1> DEFINE size == w + p
           e == d - p
           k == (m + d) - (w + p)
           c == [i \in 1 .. size |-> IF i <= w THEN s[i] ELSE s[i + 1]]
<1>1. /\ w \in Nat \ {0} /\ p \in 0 .. d /\ Len(s) = IF p = 0 THEN w ELSE w + 1 + p
      /\ m \in Nat \ {0} /\ r \in 0 .. d /\ Len(t) = IF r = 0 THEN m ELSE m + 1 + r
  BY DEF Shown
<1>2. (\A i \in 1 .. w : s[i] # Dot) /\ (\A i \in 1 .. m : t[i] # Dot)
  BY WholeDigits
<1>3. m >= w
  <2>1. SUFFICES ASSUME m < w PROVE FALSE
    BY <1>1
  <2>2. m + 1 \in 1 .. w /\ m + 1 \in 1 .. Len(s) /\ r > 0
    BY <1>1, <2>1
  <2>3. t[m + 1] = Dot
    BY <2>2 DEF Shown
  <2> QED BY <1>2, <2>2, <2>3
<1>4. p > 0 => m = w /\ r >= p
  <2> SUFFICES ASSUME p > 0 PROVE m = w /\ r >= p
    OBVIOUS
  <2>1. w + 1 \in 1 .. Len(s)
    BY <1>1
  <2>2. t[w + 1] = Dot
    <3>1. s[w + 1] = Dot
      BY DEF Shown
    <3> QED BY <2>1, <3>1
  <2>3. w + 1 \notin 1 .. m
    BY <1>2, <2>2
  <2>4. m = w
    BY <1>1, <1>3, <2>3
  <2> QED BY <1>1, <2>4
<1>5. size \in Nat /\ e \in Nat /\ k \in Nat /\ e <= k /\ size + e = w + d /\ size + k = m + d
  BY <1>1, <1>3
<1>6. \A i \in 1 .. size : c[i] = DigitAt(a, (size - i) + e) /\ c[i] = DigitAt(v, (size - i) + k)
  <2>1. ASSUME NEW i \in 1 .. size, i <= w
        PROVE  c[i] = DigitAt(a, (size - i) + e) /\ c[i] = DigitAt(v, (size - i) + k)
    <3>1. i \in 1 .. w /\ i \in 1 .. m /\ i \in 1 .. Len(s)
      BY <1>1, <1>3, <2>1
    <3>2. (size - i) + e = (w - i) + d /\ (size - i) + k = (m - i) + d
      BY <1>1, <3>1
    <3>3. s[i] = DigitAt(a, (w - i) + d) /\ t[i] = DigitAt(v, (m - i) + d) /\ s[i] = t[i]
      BY <3>1 DEF Shown
    <3>4. c[i] = s[i]
      BY <2>1
    <3> QED BY ONLY <3>2, <3>3, <3>4
  <2>2. ASSUME NEW i \in 1 .. size, ~(i <= w)
        PROVE  c[i] = DigitAt(a, (size - i) + e) /\ c[i] = DigitAt(v, (size - i) + k)
    <3> DEFINE j == i - w
    <3>1. j \in 1 .. p /\ p > 0 /\ w + 1 + j = i + 1 /\ m = w /\ j \in 1 .. r
          /\ i + 1 \in 1 .. Len(s)
      BY <1>1, <1>4, <2>2
    <3>2. (size - i) + e = d - j /\ (size - i) + k = d - j
      BY <1>1, <3>1
    <3>3. s[w + 1 + j] = DigitAt(a, d - j) /\ t[m + 1 + j] = DigitAt(v, d - j)
      BY <3>1 DEF Shown
    <3>4. c[i] = s[i + 1] /\ s[i + 1] = t[i + 1]
      BY <2>2, <3>1
    <3> QED BY ONLY <3>1, <3>2, <3>3, <3>4
  <2> QED BY <2>1, <2>2
<1>7. c \in Seq(Nat) /\ Len(c) = size
  <2>1. \A i \in 1 .. size : c[i] \in Nat
    <3>1. ASSUME NEW i \in 1 .. size PROVE c[i] \in Nat
      <4>1. (size - i) + e \in Nat
        BY <1>1, <1>5
      <4>2. DigitAt(a, (size - i) + e) \in 0..9
        BY <4>1, DigitRange
      <4> QED BY <1>6, <4>2
    <3> QED BY <3>1
  <2>2. c = [i \in 1 .. size |-> c[i]]
    OBVIOUS
  <2>4. size \in Nat
    BY <1>5
  <2> HIDE DEF c, size
  <2>3. c \in [1 .. size -> Nat]
    BY <2>1, <2>2
  <2> QED BY ONLY <2>3, <2>4
<1>8. a < 10^(size + e) /\ v < 10^(size + k)
  BY <1>5 DEF Shown
<1> HIDE DEF c, size, e, k
<1>9. ValueIn(c, 10) = a \div 10^e
  <2>1. /\ a < 10^(Len(c) + e)
        /\ \A i \in 1 .. Len(c) : c[i] = DigitAt(a, (Len(c) - i) + e)
    BY ONLY <1>6, <1>7, <1>8
  <2> QED BY <1>5, <1>7, <2>1, ReadFromPlace
<1>10. ValueIn(c, 10) = v \div 10^k
  <2>1. /\ v < 10^(Len(c) + k)
        /\ \A i \in 1 .. Len(c) : c[i] = DigitAt(v, (Len(c) - i) + k)
    BY ONLY <1>6, <1>7, <1>8
  <2> QED BY <1>5, <1>7, <2>1, ReadFromPlace
<1>11. a = 10^e * (a \div 10^e)
  <2>1. \A j \in 0 .. e - 1 : DigitAt(a, j) = 0
    BY DEF Shown, e
  <2> QED BY <1>5, <2>1, TrailingZeros
<1> DEFINE x == 10^e
           y == 10^k
           q == v \div y
           z == v % y
<1>12. x \in Nat \ {0} /\ y \in Nat \ {0} /\ x <= y
  BY <1>5, TenTo, TenToOrdered
<1>13. a = x * q
  BY <1>9, <1>10, <1>11
<1> HIDE DEF x, y
<1>14. v = y * q + z /\ z \in Nat /\ q \in Nat
  <2>1. v = y * q + z /\ z \in 0 .. y - 1 /\ q \in Nat
    BY <1>12, WithRemainder
  <2> QED BY <1>12, <2>1
<1> HIDE DEF q, z
<1>15. x * q <= y * q /\ x * q \in Nat /\ y * q \in Nat
  BY <1>12, <1>14, SMT
<1> DEFINE f == x * q
           g == y * q
<1>16. f \in Nat /\ g \in Nat /\ f <= g /\ a = f /\ v = g + z
  BY <1>13, <1>14, <1>15
<1> HIDE DEF f, g
<1> QED BY <1>14, <1>16

\* What has no room is not less than what has it, in a room that is no larger.
LEMMA RefusedNotLess ==
    ASSUME PowerLaws, NEW a \in Numbers, NEW v \in Numbers, NEW d \in Nat,
           NEW T \in Int, NEW R \in Int, T <= R,
           AdjustDecimals(Decimal(a), T, d) # Refused,
           AdjustDecimals(Decimal(v), R, d) = Refused
    PROVE  a <= v
<1> DEFINE j == Len(Decimal(a))
           n == Len(Decimal(v))
<1>1. \/ a = 0 /\ T >= 2
      \/ a # 0 /\ j <= d /\ T >= d + 3
      \/ a # 0 /\ j > d /\ T >= j + 2
  BY Room
<1>2. ~(\/ v = 0 /\ R >= 2
        \/ v # 0 /\ n <= d /\ R >= d + 3
        \/ v # 0 /\ n > d /\ R >= n + 2)
  BY Room
<1>3. /\ a \in Nat /\ j \in Nat /\ j > 0 /\ a < 10^j
      /\ v \in Nat /\ n \in Nat /\ (n > 1 => v >= 10^(n - 1))
  BY DecimalDigits
<1> HIDE DEF j, n
<1>4. CASE a = 0
  BY <1>3, <1>4
<1>5. CASE a # 0
  <2>1. j < n
    BY <1>1, <1>2, <1>3, <1>5
  <2> DEFINE x == 10^j
             y == 10^(n - 1)
  <2>2. x \in Nat /\ y \in Nat /\ x <= y
    <3>1. n - 1 \in Nat /\ j <= n - 1
      BY <1>3, <2>1
    <3> QED BY <1>3, <3>1, TenTo, TenToOrdered
  <2>3. a < x /\ v >= y
    BY <1>3, <2>1
  <2> HIDE DEF x, y
  <2> QED BY <1>3, <2>2, <2>3
<1> QED BY <1>4, <1>5

LEMMA UpperTyped ==
    ASSUME NEW s \in Seq(Nat)
    PROVE  SwapCalls!ToUppercase(s) \in Seq(Nat)
<1> DEFINE n == Len(s)
<1>1. \A c \in Nat : UpperCase(c) \in Nat
  BY DEF UpperCase
<1>2. \A i \in 1 .. n : UpperCase(s[i]) \in Nat
  BY <1>1, ElementOfSeq
<1>3. SwapCalls!ToUppercase(s) = [i \in 1 .. n |-> UpperCase(s[i])] /\ n \in Nat
  BY DEF SwapCalls!ToUppercase, SwapCalls!UpperCase, UpperCase
<1> HIDE DEF n
<1>4. [i \in 1 .. n |-> UpperCase(s[i])] \in [1 .. n -> Nat]
  BY <1>2
<1> QED BY <1>3, <1>4

LEMMA UpperPrefix ==
    ASSUME NEW s \in Seq(Nat), NEW t \in Seq(Nat),
           SwapCalls!Compare(s, t)
    PROVE  /\ Len(s) <= Len(t)
           /\ \A i \in 1 .. Len(s) : UpperCase(s[i]) = UpperCase(t[i])
<1> DEFINE u == SwapCalls!ToUppercase(s)
           o == SwapCalls!ToUppercase(t)
<1>1. /\ u = [i \in 1 .. Len(s) |-> UpperCase(s[i])]
      /\ o = [i \in 1 .. Len(t) |-> UpperCase(t[i])]
  BY DEF SwapCalls!ToUppercase, SwapCalls!UpperCase, UpperCase
<1>2. SwapCalls!IsPrefix(u, o)
  BY DEF SwapCalls!Compare
<1> HIDE DEF u, o
<1>3. Len(u) <= Len(o) /\ SubSeq(u, 1, Len(u)) = SubSeq(o, 1, Len(u))
  BY <1>2 DEF SwapCalls!IsPrefix
<1>4. \A c \in Nat : UpperCase(c) \in Nat
  BY DEF UpperCase
<1>5. u \in Seq(Nat) /\ Len(u) = Len(s) /\ o \in Seq(Nat) /\ Len(o) = Len(t)
  <2> DEFINE n == Len(s)
             m == Len(t)
  <2>1. n \in Nat /\ m \in Nat
    OBVIOUS
  <2>2. u \in [1 .. n -> Nat] /\ o \in [1 .. m -> Nat]
    <3>1. \A i \in 1 .. n : UpperCase(s[i]) \in Nat
      BY <1>4, ElementOfSeq
    <3>2. \A i \in 1 .. m : UpperCase(t[i]) \in Nat
      BY <1>4, ElementOfSeq
    <3> QED BY <1>1, <3>1, <3>2
  <2> HIDE DEF n, m
  <2>3. u \in Seq(Nat) /\ Len(u) = n /\ o \in Seq(Nat) /\ Len(o) = m
    BY <2>1, <2>2
  <2> QED BY <2>3 DEF n, m
<1>6. \A i \in 1 .. Len(u) : SubSeq(u, 1, Len(u))[i] = u[i] /\ SubSeq(o, 1, Len(u))[i] = o[i]
  BY <1>3, <1>5
<1>7. \A i \in 1 .. Len(s) : u[i] = o[i]
  BY <1>3, <1>5, <1>6
<1>8. Len(s) <= Len(t)
  BY <1>3, <1>5
<1>9. \A i \in 1 .. Len(s) : u[i] = UpperCase(s[i]) /\ o[i] = UpperCase(t[i])
  BY <1>1, <1>8
<1> QED BY <1>7, <1>8, <1>9

\* The texts of amounts: one that goes on where the approved text ends is of no
\* smaller amount, whatever ticker either has.
LEMMA AmountsCompared ==
    ASSUME PowerLaws, NEW a \in Numbers, NEW v \in Numbers, NEW d \in Nat,
           NEW size \in Nat \ {0}, NEW name \in Seq(Nat), Len(name) >= 1,
           NEW former \in Seq(Nat), NEW known,
           Fits(a, d, name \o <<Space>>, size),
           SwapCalls!Compare(AmountToString(a, d, name \o <<Space>>, <<>>, size),
                             AmountToString(v, d, NetworkTicker(known), former, size))
    PROVE  a <= v
<1> DEFINE ticker == name \o <<Space>>
           network == NetworkTicker(known)
           approved == AmountToString(a, d, ticker, <<>>, size)
           parsed == AmountToString(v, d, network, former, size)
           n == Len(name)
           N == Nat \ {Space}
           s == AdjustDecimals(Decimal(a), size - Len(ticker) - 1, d)
           t == AdjustDecimals(Decimal(v), size - Len(network) - 1, d)
           rest == IF t = Refused THEN SubSeq(former, Len(network) + 1, Len(former)) ELSE t
           text == network \o rest
<1>1. n \in Nat /\ n >= 1
  OBVIOUS
<1>2. /\ ticker \in Seq(Nat) /\ Len(ticker) = n + 1 /\ ticker[n + 1] = Space
  <2>1. <<Space>> \in Seq(Nat) /\ Len(<<Space>>) = 1 /\ <<Space>>[1] = Space
    BY DEF Space
  <2>2. /\ name \o <<Space>> \in Seq(Nat)
        /\ Len(name \o <<Space>>) = Len(name) + Len(<<Space>>)
        /\ \A i \in 1 .. Len(name) + Len(<<Space>>) :
              (name \o <<Space>>)[i] = IF i <= Len(name) THEN name[i]
                                      ELSE <<Space>>[i - Len(name)]
    BY ONLY <2>1, name \in Seq(Nat), ConcatProperties
  <2>3. n + 1 \in 1 .. n + 1 /\ ~(n + 1 <= n) /\ (n + 1) - n = 1
    BY <1>1
  <2> QED BY <2>1, <2>2, <2>3
<1>3. network \in {<<Coin>>, <<Coin, Space>>} /\ network \in Seq(Nat)
      /\ Len(network) \in 1..2
  <2>1. network \in {<<Coin>>, <<Coin, Space>>}
    BY DEF NetworkTicker
  <2>2. /\ <<Coin>> \in Seq(Nat) /\ Len(<<Coin>>) = 1
        /\ <<Coin, Space>> \in Seq(Nat) /\ Len(<<Coin, Space>>) = 2
    BY DEF Coin, Space
  <2> HIDE DEF network
  <2>3. CASE network = <<Coin>>
    BY <2>2, <2>3
  <2>4. CASE network = <<Coin, Space>>
    BY <2>2, <2>4
  <2> QED BY <2>1, <2>3, <2>4
<1>4. approved = ticker \o s /\ s # Refused
  <2> HIDE DEF ticker
  <2>1. Fits(a, d, ticker, size)
    BY DEF ticker
  <2> QED BY <1>2, <2>1, AmountRead DEF Fits
<1>5. SUFFICES ASSUME t # Refused PROVE a <= v
  <2> DEFINE T == size - Len(ticker) - 1
             R == size - Len(network) - 1
  <2>1. T \in Int /\ R \in Int /\ T <= R
    <3> DEFINE l == Len(ticker)
               m == Len(network)
    <3>1. l = n + 1 /\ m \in 1..2
      BY <1>2, <1>3
    <3>2. T = size - l - 1 /\ R = size - m - 1
      OBVIOUS
    <3> HIDE DEF T, R, l, m, n
    <3> QED BY ONLY <1>1, <3>1, <3>2, size \in Nat
  <2> HIDE DEF T, R
  <2>2. s = AdjustDecimals(Decimal(a), T, d) /\ t = AdjustDecimals(Decimal(v), R, d)
    BY DEF T, R
  <2> HIDE DEF s, t
  <2>3. t = Refused => a <= v
    BY <1>4, <2>1, <2>2, RefusedNotLess
  <2> QED BY <2>3
<1>6. rest = t /\ rest \in Seq(N)
  <2>1. size - Len(network) - 1 \in Int
    BY <1>3
  <2>2. t \in Seq(0..10)
    BY <1>5, <2>1, AdjustedShown
  <2>3. 0..10 \subseteq N
    BY DEF Space
  <2>4. rest = t
    BY <1>5
  <2> HIDE DEF t, N, rest
  <2>5. t \in Seq(N)
    BY <2>2, <2>3, SeqMonotonic
  <2> QED BY <2>4, <2>5
<1>7. parsed = SubSeq(text, 1, Min({Len(text), size - 1}))
  BY DEF AmountToString, TickerFirst
<1>8. s \in Seq(Nat) /\ parsed \in Seq(Nat) /\ rest \in Seq(Nat)
  <2>1. s \in Seq(0..10)
    <3>1. size - Len(ticker) - 1 \in Int
      BY <1>2
    <3> QED BY <1>4, <3>1, AdjustedShown
  <2>2. 0..10 \subseteq Nat /\ N \subseteq Nat
    OBVIOUS
  <2>3. parsed \in Seq(Nat)
    <3> HIDE DEF network
    <3> QED BY <1>3, AmountInBuffer
  <2> HIDE DEF s, rest, N, parsed
  <2> QED BY <1>6, <2>1, <2>2, <2>3, SeqMonotonic
<1> HIDE DEF s, rest, ticker, network, approved, parsed, n
<1>9. /\ approved \in Seq(Nat) /\ Len(approved) = n + 1 + Len(s)
      /\ \A i \in 1 .. n + 1 + Len(s) :
            approved[i] = IF i <= n + 1 THEN ticker[i] ELSE s[i - (n + 1)]
  <2>1. /\ ticker \o s \in Seq(Nat) /\ Len(ticker \o s) = Len(ticker) + Len(s)
        /\ \A i \in 1 .. Len(ticker) + Len(s) :
              (ticker \o s)[i] = IF i <= Len(ticker) THEN ticker[i] ELSE s[i - Len(ticker)]
    <3>1. ticker \in Seq(Nat) /\ s \in Seq(Nat)
      BY <1>2, <1>8
    <3> QED BY ONLY <3>1, ConcatProperties
  <2> QED BY <1>2, <1>4, <2>1
<1>10. /\ text \in Seq(Nat) /\ Len(text) = Len(network) + Len(rest)
      /\ \A i \in 1 .. Len(network) + Len(rest) :
            text[i] = IF i <= Len(network) THEN network[i] ELSE rest[i - Len(network)]
  BY <1>3, <1>8, ConcatProperties
<1> HIDE DEF text
<1>11. Len(parsed) <= Len(text) /\ \A i \in 1 .. Len(parsed) : parsed[i] = text[i]
  <2> DEFINE f == Len(text)
             b == size - 1
             l == Min({f, b})
  <2>1. f \in Nat /\ b \in Nat /\ f \in Int /\ b \in Int
    BY <1>10
  <2>2. l \in Nat /\ l <= f
    <3> HIDE DEF f, b
    <3>1. l = IF f <= b THEN f ELSE b
      BY <2>1, MinOfTwo
    <3> HIDE DEF l
    <3> QED BY <2>1, <3>1
  <2>3. parsed = SubSeq(text, 1, l)
    BY <1>7
  <2> HIDE DEF l, b
  <2>4. 1 \in Nat \ {0} /\ l \in Int /\ l <= Len(text) /\ l - 1 + 1 = l
        /\ \A i \in 1 .. l : 1 + i - 1 = i
    BY <2>2
  <2>5. /\ Len(SubSeq(text, 1, l)) = IF 1 <= l THEN l - 1 + 1 ELSE 0
        /\ \A i \in 1 .. l - 1 + 1 : SubSeq(text, 1, l)[i] = text[1 + i - 1]
    BY ONLY <1>10, <2>4, Part
  <2>6. Len(parsed) = l
    BY <2>2, <2>3, <2>4, <2>5
  <2> QED BY <2>2, <2>3, <2>4, <2>5, <2>6
<1>12. /\ Len(approved) <= Len(parsed)
       /\ \A i \in 1 .. Len(approved) : UpperCase(approved[i]) = UpperCase(text[i])
  <2>1. SwapCalls!Compare(approved, parsed)
    BY DEF approved, parsed, ticker, network
  <2>2. /\ Len(approved) <= Len(parsed)
        /\ \A i \in 1 .. Len(approved) : UpperCase(approved[i]) = UpperCase(parsed[i])
    BY <1>8, <1>9, <2>1, UpperPrefix
  <2>3. Len(approved) \in Nat /\ Len(parsed) \in Nat
    BY <1>8, <1>9
  <2> QED BY <1>11, <2>2, <2>3
<1>13. \A c, u \in Nat : c <= 12 /\ UpperCase(c) = UpperCase(u) => c = u
  BY DEF UpperCase
<1>14. Len(s) \in Nat /\ Len(rest) \in Nat /\ Len(parsed) \in Nat
  BY <1>8
<1>15. \A i \in 1 .. Len(approved) : i \in 1 .. Len(text) /\ text[i] \in Nat
  <2>1. ASSUME NEW i \in 1 .. Len(approved)
        PROVE  i \in 1 .. Len(text) /\ text[i] \in Nat
    <3>1. i \in 1 .. Len(text)
      BY <1>1, <1>3, <1>9, <1>10, <1>11, <1>12, <1>14
    <3> QED BY <1>10, <3>1, ElementOfSeq
  <2> QED BY <2>1
<1>16. text[n + 1] = Space
  <2>1. n + 1 \in 1 .. Len(approved) /\ n + 1 \in 1 .. n + 1 + Len(s) /\ n + 1 <= n + 1
    BY <1>1, <1>9, <1>14
  <2>2. approved[n + 1] = Space /\ Space \in Nat /\ Space <= 12
    BY <1>2, <1>9, <2>1 DEF Space
  <2>3. UpperCase(approved[n + 1]) = UpperCase(text[n + 1]) /\ text[n + 1] \in Nat
    BY <1>12, <1>15, <2>1
  <2> QED BY <1>13, <2>2, <2>3
<1>17. n = 1 /\ Len(network) = 2
  <2>1. n + 1 \in 1 .. Len(network) + Len(rest)
    <3>1. n + 1 \in 1 .. Len(approved)
      BY <1>1, <1>9, <1>14
    <3> QED BY <1>10, <1>15, <3>1
  <2>2. n + 1 <= Len(network)
    <3>1. SUFFICES ASSUME ~(n + 1 <= Len(network)) PROVE FALSE
      OBVIOUS
    <3>2. text[n + 1] = rest[(n + 1) - Len(network)]
      BY <1>10, <2>1, <3>1
    <3>3. (n + 1) - Len(network) \in 1 .. Len(rest)
      BY <1>1, <1>3, <1>14, <2>1, <3>1
    <3>4. rest[(n + 1) - Len(network)] \in N
      <4> HIDE DEF N
      <4> QED BY <1>6, <3>3, ElementOfSeq
    <3> QED BY <1>16, <3>2, <3>4
  <2> DEFINE l == Len(network)
  <2>3. n \in Nat /\ n >= 1 /\ l \in 1..2 /\ n + 1 <= l
    BY <1>1, <1>3, <2>2
  <2>4. l = 1 \/ l = 2
    BY <2>3
  <2> HIDE DEF l
  <2>5. n = 1 /\ l = 2
    BY ONLY <2>3, <2>4
  <2> QED BY <2>5 DEF l
<1> DEFINE T == size - 3
<1>18. T \in Int /\ s = AdjustDecimals(Decimal(a), T, d) /\ t = AdjustDecimals(Decimal(v), T, d)
  <2>1. size - Len(ticker) - 1 = T /\ size - Len(network) - 1 = T /\ T \in Int
    BY <1>2, <1>17
  <2> QED BY <2>1 DEF s
<1>19. (\E w, p : Shown(s, a, d, w, p)) /\ s \in Seq(0..10)
  <2> HIDE DEF T
  <2> QED BY <1>4, <1>18, AdjustedShown
<1>20. \E m, r : Shown(t, v, d, m, r)
  <2> HIDE DEF T
  <2> QED BY <1>5, <1>18, AdjustedShown
<1> HIDE DEF t
<1>21. Len(s) <= Len(rest)
  BY <1>9, <1>10, <1>11, <1>12, <1>14, <1>17
<1>22. \A i \in 1 .. Len(s) : s[i] = rest[i]
  <2>1. ASSUME NEW i \in 1 .. Len(s) PROVE s[i] = rest[i]
    <3>1. i + 2 \in 1 .. n + 1 + Len(s) /\ ~(i + 2 <= n + 1) /\ (i + 2) - (n + 1) = i
          /\ i + 2 \in 1 .. Len(approved)
      BY <1>9, <1>14, <1>17
    <3>2. approved[i + 2] = s[i]
      BY <1>9, <3>1
    <3>3. i + 2 \in 1 .. Len(network) + Len(rest) /\ ~(i + 2 <= Len(network))
          /\ (i + 2) - Len(network) = i
      BY <1>14, <1>17, <1>21
    <3>4. text[i + 2] = rest[i]
      BY <1>10, <3>3
    <3>5. UpperCase(s[i]) = UpperCase(rest[i]) /\ rest[i] \in Nat
      BY <1>12, <1>15, <3>1, <3>2, <3>4
    <3>6. s[i] \in 0..10
      BY <1>19, ElementOfSeq
    <3> QED BY <1>13, <3>5, <3>6
  <2> QED BY <2>1
<1>23. a \in Nat /\ v \in Nat
  BY DecimalDigits
<1>24. PICK w, p : Shown(s, a, d, w, p)
  BY <1>19
<1>25. PICK m, r : Shown(rest, v, d, m, r)
  BY <1>6, <1>20
<1> QED BY <1>21, <1>22, <1>23, <1>24, <1>25, NotLess

-----------------------------------------------------------------------------
(* The library calls.                                                      *)

\* copy_transaction_parameters, whatever the parameters: refused, it has written
\* nothing to strings.
THEOREM RefusedWritesNothing == Spec => []RefusedLeavesTexts
<1> DEFINE Inv == job = "LIBRARY" /\ stage \in {"CALLED", "ANSWERED"}
                    => strings = SwapCalls!Former
<1>1. Init => Inv
  BY DEF Init, SwapCalls!Init
<1>2. Inv /\ [Next]_vars => Inv'
  <2> SUFFICES ASSUME Inv, [Next]_vars, job' = "LIBRARY", stage' \in {"CALLED", "ANSWERED"}
               PROVE  strings' = SwapCalls!Former
    BY DEF SwapCalls!Former
  <2>1. job = "LIBRARY"
    BY DEF Next, PrepareTexts, LibraryCall, PluginScreen, vars
  <2>2. CASE SwapCalls!Next
    <3>1. ~(\/ SwapCalls!CopyParameters \/ SwapCalls!SignTx
           \/ SwapCalls!CopyCreation \/ SwapCalls!CompareTexts)
      BY DEF SwapCalls!CopyParameters, SwapCalls!SignTx, SwapCalls!CopyCreation, SwapCalls!CompareTexts,
             SwapCalls!CompareText
    <3>2. stage = "CALLED" /\ strings' = strings
      BY <2>2, <3>1
         DEF SwapCalls!Next, SwapCalls!HandleCheckAddress,
             SwapCalls!HandleGetPrintableAmount, SwapCalls!CopyRefused
    <3> QED BY <2>1, <3>2
  <2>3. CASE UNCHANGED vars
    BY <2>1, <2>3 DEF vars
  <2> QED BY <2>1, <2>2, <2>3 DEF Next, PrepareTexts, LibraryCall, PluginScreen
<1>3. Inv => RefusedLeavesTexts
  BY DEF RefusedLeavesTexts, SwapCalls!RefusedLeavesTexts
<1> QED BY <1>1, <1>2, <1>3, PTL DEF Spec

LEMMA SwapConstantsTyped ==
    /\ Amounts \cup Fees \subseteq Numbers
    /\ \A config \in Configs : config.ticker \in Seq(Nat) /\ config.decimals \in Nat
    /\ {SwapSize, PrintableSize} \subseteq Nat \ {0} /\ CoinDecimals \in Nat
    /\ \A account \in DOMAIN Derived : Derived[account] \in Seq(Nat)
    /\ \A text \in UNION {Addresses, Spellings, Stacks} : text \in Seq(Nat)
BY SwapOperators, TextsAssumption DEF SwapCalls!SwapAssumption, TextAssumption

LEMMA CallParameters ==
    ASSUME call \in SwapCalls!Calls
    PROVE  /\ call.command = "CHECK_ADDRESS" =>
                /\ call.address \in Spellings \cup {SwapCalls!Missing}
                /\ call.path.account \in DOMAIN Derived
           /\ call.command = "GET_PRINTABLE_AMOUNT" =>
                call.config \in Configs /\ call.amount \in Amounts /\ call.isFee \in BOOLEAN
           /\ call.command = "SIGN_TRANSACTION" =>
                /\ call.config \in Configs /\ call.amount \in Amounts
                /\ call.fee \in Fees /\ call.address \in Spellings
BY DEF SwapCalls!Calls

LEMMA MarkedAddress ==
    ASSUME NEW given \in Seq(Nat), NEW address,
           SwapCalls!SameAddress(address, SwapCalls!Unmarked(given))
    PROVE  given \in {address, SwapCalls!HexMark \o address}
<1> DEFINE mark == SwapCalls!HexMark
           n == Len(given)
<1>1. mark \in Seq(Nat) /\ Len(mark) = 2
  BY DEF SwapCalls!HexMark
<1> HIDE DEF mark
<1>2. CASE SwapCalls!IsPrefix(mark, given)
  <2>1. address = SubSeq(given, 3, n)
    BY <1>2 DEF SwapCalls!SameAddress, SwapCalls!Unmarked, mark
  <2>2. 2 <= n /\ SubSeq(mark, 1, 2) = SubSeq(given, 1, 2)
    BY <1>1, <1>2 DEF SwapCalls!IsPrefix
  <2>3. n \in Nat
    OBVIOUS
  <2>4. SubSeq(mark, 1, 2) = mark
    BY <1>1
  <2>5. given = SubSeq(given, 1, 2) \o SubSeq(given, 3, n)
    <3> DEFINE l == SubSeq(given, 1, 2)
               h == SubSeq(given, 3, n)
    <3>1. /\ l \in Seq(Nat) /\ Len(l) = 2 /\ \A i \in 1 .. 2 : l[i] = given[i]
      <4>1. 1 \in Nat \ {0} /\ 2 \in Int /\ 2 <= Len(given) /\ 2 - 1 + 1 = 2 /\ 1 <= 2
            /\ \A i \in 1 .. 2 : 1 + i - 1 = i
        BY <2>2, <2>3
      <4>2. /\ l \in Seq(Nat) /\ Len(l) = IF 1 <= 2 THEN 2 - 1 + 1 ELSE 0
            /\ \A i \in 1 .. 2 - 1 + 1 : l[i] = given[1 + i - 1]
        BY ONLY <4>1, given \in Seq(Nat), Part
      <4> HIDE DEF l
      <4> QED BY <4>1, <4>2
    <3>2. /\ h \in Seq(Nat) /\ Len(h) = n - 2 /\ \A i \in 1 .. n - 2 : h[i] = given[i + 2]
      <4>1. 3 \in Nat \ {0} /\ n \in Int /\ n <= Len(given) /\ n - 3 + 1 = n - 2
            /\ (3 <= n \/ n - 2 = 0) /\ \A i \in 1 .. n - 2 : 3 + i - 1 = i + 2
        <5>1. n <= Len(given) /\ n \in Nat /\ 2 <= n
          BY <2>2, <2>3
        <5> HIDE DEF n
        <5> QED BY <5>1
      <4>2. /\ h \in Seq(Nat) /\ Len(h) = IF 3 <= n THEN n - 3 + 1 ELSE 0
            /\ \A i \in 1 .. n - 3 + 1 : h[i] = given[3 + i - 1]
        BY ONLY <4>1, given \in Seq(Nat), Part
      <4> HIDE DEF h, n
      <4>3. Len(h) = n - 2
        BY <2>3, <2>2, <4>1, <4>2
      <4> QED BY <4>1, <4>2, <4>3
    <3> HIDE DEF l, h
    <3>3. /\ l \o h \in Seq(Nat) /\ Len(l \o h) = Len(l) + Len(h)
          /\ \A i \in 1 .. Len(l) + Len(h) :
                (l \o h)[i] = IF i <= Len(l) THEN l[i] ELSE h[i - Len(l)]
      <4>1. l \in Seq(Nat) /\ h \in Seq(Nat)
        BY <3>1, <3>2
      <4> QED BY ONLY <4>1, ConcatProperties
    <3> DEFINE g == l \o h
    <3>4. g \in Seq(Nat) /\ Len(g) = n
      BY <2>3, <3>1, <3>2, <3>3
    <3>5. \A i \in 1 .. n : g[i] = given[i]
      <4>1. ASSUME NEW i \in 1 .. n PROVE g[i] = given[i]
        <5>1. CASE i <= 2
          BY <2>3, <3>1, <3>2, <3>3, <5>1
        <5>2. CASE ~(i <= 2)
          <6>1. i - 2 \in 1 .. n - 2 /\ (i - 2) + 2 = i
            BY <2>3, <5>2
          <6>2. g[i] = h[i - 2]
            BY <2>3, <3>1, <3>2, <3>3, <5>2
          <6> QED BY <3>2, <6>1, <6>2
        <5> QED BY <5>1, <5>2
      <4> QED BY <4>1
    <3> HIDE DEF g
    <3>6. given = g
      BY <3>4, <3>5, SeqEqual
    <3> QED BY <3>6 DEF g, l, h
  <2> HIDE DEF n
  <2>6. given = mark \o address
    BY <2>1, <2>2, <2>4, <2>5
  <2> QED BY <2>6 DEF mark
<1>3. CASE ~SwapCalls!IsPrefix(mark, given)
  BY <1>3 DEF SwapCalls!SameAddress, SwapCalls!Unmarked, mark
<1> QED BY <1>2, <1>3

AnswerInv ==
    /\ call \in SwapCalls!Calls
    /\ stage = "CALLED" => result = 0
    /\ SwapCalls!ConfirmedIsDerived
    /\ SwapCalls!PrintableExact

LEMMA PrintableStep ==
    ASSUME PowerLaws, AnswerInv, SwapCalls!HandleGetPrintableAmount
    PROVE  SwapCalls!PrintableExact'
<1> DEFINE ticker == SwapCalls!AskedTicker
           decimals == SwapCalls!AskedDecimals
           text == AmountToString(call.amount, decimals, ticker, <<>>, PrintableSize)
<1>1. /\ call.command = "GET_PRINTABLE_AMOUNT" /\ call' = call
      /\ result' = 1 => /\ SwapCalls!ConfigOk(call.config)
                        /\ printable' = AmountToString(call.amount,
                               SwapCalls!PrintableDecimals(call.config, call.isFee),
                               SwapCalls!PrintableTicker(call.config, call.isFee),
                               <<>>, PrintableSize)
  BY SwapOperators DEF SwapCalls!HandleGetPrintableAmount, SwapCalls!Answer
<1>2. call.config \in Configs /\ call.amount \in Amounts
  BY <1>1, CallParameters DEF AnswerInv
<1>3. SwapCalls!Coin = Coin /\ SwapCalls!Space = Space
  BY DEF Coin, SwapCalls!Coin, Space, SwapCalls!Space
<1>4. /\ SwapCalls!PrintableTicker(call.config, call.isFee) = ticker
      /\ SwapCalls!PrintableDecimals(call.config, call.isFee) = decimals
  <2>1. <<SwapCalls!Coin>> \o <<SwapCalls!Space>> = <<SwapCalls!Coin, SwapCalls!Space>>
    <3> DEFINE b == SwapCalls!Coin
               c == SwapCalls!Space
    <3>1. b \in Nat /\ c \in Nat
      BY DEF SwapCalls!Coin, SwapCalls!Space
    <3> HIDE DEF b, c
    <3>2. <<b>> \in Seq(Nat) /\ <<c>> \in Seq(Nat) /\ <<b, c>> \in Seq(Nat)
          /\ Len(<<b>>) = 1 /\ Len(<<c>>) = 1 /\ Len(<<b, c>>) = 2
          /\ <<b>>[1] = b /\ <<c>>[1] = c /\ <<b, c>>[1] = b /\ <<b, c>>[2] = c
      BY <3>1
    <3> DEFINE m == <<b>> \o <<c>>
    <3>3. m \in Seq(Nat) /\ Len(m) = 2
          /\ \A i \in 1 .. 2 : m[i] = IF i <= 1 THEN <<b>>[i] ELSE <<c>>[i - 1]
      <4>1. /\ m \in Seq(Nat) /\ Len(m) = Len(<<b>>) + Len(<<c>>)
            /\ \A i \in 1 .. Len(<<b>>) + Len(<<c>>) :
                  m[i] = IF i <= Len(<<b>>) THEN <<b>>[i] ELSE <<c>>[i - Len(<<b>>)]
        BY ONLY <3>2, ConcatProperties
      <4> HIDE DEF m
      <4> QED BY <3>2, <4>1
    <3> HIDE DEF m
    <3>4. \A i \in 1 .. 2 : m[i] = <<b, c>>[i]
      BY <3>2, <3>3
    <3>5. m = <<b, c>>
      BY <3>2, <3>3, <3>4, SeqEqual
    <3> QED BY <3>5 DEF m, b, c
  <2>2. CASE call.isFee
    BY <2>1, <2>2 DEF SwapCalls!PrintableTicker, SwapCalls!PrintableDecimals,
                      SwapCalls!AskedTicker, SwapCalls!AskedDecimals
  <2>3. CASE ~call.isFee
    BY <2>3 DEF SwapCalls!PrintableTicker, SwapCalls!PrintableDecimals,
                SwapCalls!ConfigTicker, SwapCalls!AskedTicker, SwapCalls!AskedDecimals
  <2> QED BY <2>2, <2>3
<1>5. /\ ticker \in Seq(Nat) /\ decimals \in Nat /\ call.amount \in Numbers
      /\ PrintableSize \in Nat \ {0}
  <2>1. /\ call.config.ticker \in Seq(Nat) /\ call.config.decimals \in Nat
        /\ CoinDecimals \in Nat /\ call.amount \in Numbers /\ PrintableSize \in Nat \ {0}
    BY <1>2, SwapConstantsTyped
  <2>2. <<SwapCalls!Coin>> \in Seq(Nat) /\ <<SwapCalls!Space>> \in Seq(Nat)
    BY DEF SwapCalls!Coin, SwapCalls!Space
  <2>3. call.config.ticker \o <<SwapCalls!Space>> \in Seq(Nat)
        /\ <<SwapCalls!Coin>> \o <<SwapCalls!Space>> \in Seq(Nat)
    BY <2>1, <2>2, ConcatProperties
  <2>4. ticker \in Seq(Nat)
    BY <2>3 DEF SwapCalls!AskedTicker
  <2> QED BY <2>1, <2>4 DEF SwapCalls!AskedDecimals
<1>6. ticker' = ticker /\ decimals' = decimals
  BY <1>1 DEF SwapCalls!AskedTicker, SwapCalls!AskedDecimals, SwapCalls!Coin,
              SwapCalls!Space
<1> HIDE DEF ticker, decimals
<1>7. Fits(call.amount, decimals, ticker, PrintableSize)
        => ReadsAs(text, ticker, decimals, call.amount)
  BY <1>5, AmountRead
<1>8. result' = 1 => printable' = text
  BY <1>1, <1>4
<1> HIDE DEF text
<1> SUFFICES ASSUME result' = 1, Fits(call.amount, decimals, ticker, PrintableSize)
             PROVE  ReadsAs(printable', ticker, decimals, call.amount)
  BY <1>1, <1>6, SwapOperators
     DEF SwapCalls!PrintableExact, SwapCalls!Asked, SwapCalls!PrintableRead,
         ticker, decimals
<1> QED BY <1>7, <1>8

LEMMA CheckAddressStep ==
    ASSUME AnswerInv, SwapCalls!HandleCheckAddress
    PROVE  SwapCalls!ConfirmedIsDerived'
<1>1. /\ call.command = "CHECK_ADDRESS" /\ call' = call
      /\ result' = 1 =>
            /\ call.address # SwapCalls!Missing
            /\ SwapCalls!SameAddress(Derived[call.path.account],
                                     SwapCalls!Unmarked(call.address))
  BY DEF SwapCalls!HandleCheckAddress, SwapCalls!Answer
<1> SUFFICES ASSUME result' = 1
             PROVE  call.address \in {Derived[call.path.account],
                                      SwapCalls!HexMark \o Derived[call.path.account]}
  BY <1>1 DEF SwapCalls!ConfirmedIsDerived, SwapCalls!HexMark
<1>2. call.address \in Spellings
  BY <1>1, CallParameters DEF AnswerInv
<1>3. call.address \in Seq(Nat)
  BY <1>2, SwapConstantsTyped
<1> QED BY <1>1, <1>3, MarkedAddress

\* The answers to the exchange application, whatever it asks for: an address is
\* confirmed only if it is that of the path, and an amount that fits is printed as
\* it is, in its coin.
THEOREM AnswersRight == ASSUME PowerLaws PROVE Spec => []AnswersExact
<1> DEFINE Inv == job = "LIBRARY" => AnswerInv
<1>1. Init => Inv
  BY DEF Init, SwapCalls!Init, AnswerInv, SwapCalls!ConfirmedIsDerived,
         SwapCalls!PrintableExact, SwapCalls!Asked
<1>2. Inv /\ [Next]_vars => Inv'
  <2> SUFFICES ASSUME Inv, [Next]_vars, job' = "LIBRARY" PROVE AnswerInv'
    OBVIOUS
  <2>1. job = "LIBRARY" /\ AnswerInv
    BY DEF Next, PrepareTexts, LibraryCall, PluginScreen, vars
  <2>2. CASE SwapCalls!HandleCheckAddress
    <3>1. call' = call /\ stage' = "ANSWERED" /\ call.command = "CHECK_ADDRESS"
      BY <2>2 DEF SwapCalls!HandleCheckAddress, SwapCalls!Answer
    <3>2. SwapCalls!ConfirmedIsDerived'
      BY <2>1, <2>2, CheckAddressStep
    <3>3. SwapCalls!PrintableExact'
      BY <3>1 DEF SwapCalls!PrintableExact, SwapCalls!Asked
    <3>4. (call \in SwapCalls!Calls)'
      BY <2>1, <3>1 DEF AnswerInv, SwapCalls!Calls, SwapCalls!Missing
    <3> QED BY <3>1, <3>2, <3>3, <3>4 DEF AnswerInv
  <2>3. CASE SwapCalls!HandleGetPrintableAmount
    <3>1. call' = call /\ stage' = "ANSWERED" /\ call.command = "GET_PRINTABLE_AMOUNT"
      BY <2>3 DEF SwapCalls!HandleGetPrintableAmount, SwapCalls!Answer
    <3>2. SwapCalls!PrintableExact'
      BY <2>1, <2>3, PrintableStep
    <3>3. SwapCalls!ConfirmedIsDerived'
      BY <3>1 DEF SwapCalls!ConfirmedIsDerived
    <3>4. (call \in SwapCalls!Calls)'
      BY <2>1, <3>1 DEF AnswerInv, SwapCalls!Calls, SwapCalls!Missing
    <3> QED BY <3>1, <3>2, <3>3, <3>4 DEF AnswerInv
  <2>4. CASE \/ SwapCalls!CopyRefused \/ SwapCalls!CopyParameters
             \/ SwapCalls!SignTx \/ SwapCalls!CopyCreation \/ SwapCalls!CompareTexts
             \/ UNCHANGED vars
    <3>1. /\ call' = call /\ printable' = printable
          /\ \/ result' = result /\ (stage' = "CALLED" => stage = "CALLED")
             \/ result' = 0 /\ stage' = "ANSWERED"
      BY <2>4 DEF SwapCalls!CopyRefused, SwapCalls!Answer, SwapCalls!CopyParameters,
                  SwapCalls!SignTx, SwapCalls!CopyCreation, SwapCalls!CompareTexts,
                  SwapCalls!CompareText,
                  vars, swapVars
    <3>2. SwapCalls!ConfirmedIsDerived'
      BY <2>1, <3>1 DEF AnswerInv, SwapCalls!ConfirmedIsDerived, SwapCalls!HexMark
    <3>3. SwapCalls!PrintableExact'
      <4>1. /\ SwapCalls!AskedTicker' = SwapCalls!AskedTicker
            /\ SwapCalls!AskedDecimals' = SwapCalls!AskedDecimals
        BY <3>1 DEF SwapCalls!AskedTicker, SwapCalls!AskedDecimals, SwapCalls!Coin,
                    SwapCalls!Space
      <4> SUFFICES ASSUME SwapCalls!Asked',
                          Fits(call.amount, SwapCalls!AskedDecimals,
                               SwapCalls!AskedTicker, PrintableSize)
                   PROVE  ReadsAs(printable, SwapCalls!AskedTicker,
                                  SwapCalls!AskedDecimals, call.amount)
        BY <3>1, <4>1, SwapOperators DEF SwapCalls!PrintableExact, SwapCalls!PrintableRead
      <4>2. SwapCalls!Asked
        BY <3>1 DEF SwapCalls!Asked
      <4> QED BY <2>1, <4>2, SwapOperators
             DEF AnswerInv, SwapCalls!PrintableExact, SwapCalls!PrintableRead
    <3>4. (call \in SwapCalls!Calls)'
      BY <2>1, <3>1 DEF AnswerInv, SwapCalls!Calls, SwapCalls!Missing
    <3>5. stage' = "CALLED" => result' = 0
      BY <2>1, <3>1 DEF AnswerInv
    <3> QED BY <3>2, <3>3, <3>4, <3>5 DEF AnswerInv
  <2> QED BY <2>1, <2>2, <2>3, <2>4
         DEF Next, PrepareTexts, LibraryCall, PluginScreen, SwapCalls!Next
<1>3. Inv => AnswersExact
  BY DEF AnswerInv, AnswersExact
<1> QED BY <1>1, <1>2, <1>3, PTL DEF Spec

-----------------------------------------------------------------------------
(* The transaction that is compared with the approved texts.               *)

LEMMA SameDestination ==
    ASSUME NEW given \in Seq(Nat), NEW destination \in Seq(Nat),
           SwapCalls!Compare(given, destination)
    PROVE  Len(given) >= Len(destination) =>
              SwapCalls!ToUppercase(given) = SwapCalls!ToUppercase(destination)
<1> SUFFICES ASSUME Len(given) >= Len(destination)
             PROVE  SwapCalls!ToUppercase(given) = SwapCalls!ToUppercase(destination)
  OBVIOUS
<1> DEFINE n == Len(given)
           l == Len(destination)
<1>1. n <= l /\ \A i \in 1 .. n : UpperCase(given[i]) = UpperCase(destination[i])
  BY UpperPrefix
<1>2. n = l
  <2>1. n \in Nat /\ l \in Nat /\ n >= l
    OBVIOUS
  <2> HIDE DEF n, l
  <2> QED BY <1>1, <2>1
<1>3. /\ SwapCalls!ToUppercase(given) = [i \in 1 .. n |-> UpperCase(given[i])]
      /\ SwapCalls!ToUppercase(destination) = [i \in 1 .. l |-> UpperCase(destination[i])]
  BY DEF SwapCalls!ToUppercase, SwapCalls!UpperCase, UpperCase
<1> HIDE DEF n, l
<1> QED BY <1>1, <1>2, <1>3

\* What is known at each comparison: the parameters were good, and the text that
\* is next is still the approved one.
CompareInv ==
    /\ call \in SwapCalls!Calls
    /\ stage \in {"RUN", "ADDRESS", "AMOUNT", "FEE", "SIGNED"} =>
            call.command = "SIGN_TRANSACTION" /\ SwapCalls!ConfigOk(call.config)
    /\ stage \in {"RUN", "ADDRESS"} => strings = SwapCalls!ApprovedTexts
    /\ stage = "AMOUNT" => strings.fullAmount = SwapCalls!ApprovedTexts.fullAmount
    /\ stage \in {"ADDRESS", "AMOUNT", "FEE", "SIGNED"} => tx \in SwapCalls!Transactions
    /\ SwapCalls!ComparedNeverLess

LEMMA SameBeginning ==
    ASSUME call' = call, tx' = tx
    PROVE  SwapCalls!BeginsAsApproved' = SwapCalls!BeginsAsApproved
BY DEF SwapCalls!BeginsAsApproved, SwapCalls!IsPrefix, SwapCalls!ToUppercase,
       SwapCalls!UpperCase

LEMMA CompareAddressStep ==
    ASSUME CompareInv, ~SwapCalls!Creation,
           SwapCalls!CompareText("ADDRESS", "AMOUNT", "fullAddress", tx.destination)
    PROVE  CompareInv'
<1>1. /\ stage = "ADDRESS" /\ call' = call /\ tx' = tx
      /\ stage' = IF SwapCalls!Compare(strings.fullAddress, tx.destination)
                  THEN "AMOUNT" ELSE "REFUSED"
      /\ strings' = [strings EXCEPT !.fullAddress =
                                        SwapCalls!ToUppercase(strings.fullAddress)]
  BY DEF SwapCalls!CompareText
<1>2. /\ call.command = "SIGN_TRANSACTION" /\ SwapCalls!ConfigOk(call.config)
      /\ strings = SwapCalls!ApprovedTexts /\ tx \in SwapCalls!Transactions
  BY <1>1 DEF CompareInv
<1>3. strings.fullAddress = call.address /\ strings'.fullAmount = strings.fullAmount
  BY <1>1, <1>2 DEF SwapCalls!ApprovedTexts
<1>4. call.address \in Spellings /\ tx.destination \in Addresses
  BY <1>2, CallParameters DEF CompareInv, SwapCalls!Transactions, SwapCalls!Creation
<1>5. SwapCalls!Compare(call.address, tx.destination) =>
          SwapCalls!BeginsAsApproved
  <2>1. call.address \in Seq(Nat) /\ tx.destination \in Seq(Nat)
    BY <1>4, SwapConstantsTyped
  <2> QED BY <2>1, SameDestination
         DEF SwapCalls!Compare, SwapCalls!BeginsAsApproved
<1>6. SwapCalls!ComparedNeverLess'
  BY <1>1, <1>3, <1>5, SameBeginning DEF SwapCalls!ComparedNeverLess
<1>7. SwapCalls!ApprovedTexts' = SwapCalls!ApprovedTexts
  BY <1>1 DEF SwapCalls!ApprovedTexts, SwapCalls!ConfigTicker, SwapCalls!Coin,
              SwapCalls!Space
<1>8. SwapCalls!ConfigOk(call.config)'
  BY <1>1, <1>2 DEF SwapCalls!ConfigOk
<1> QED BY <1>1, <1>2, <1>3, <1>6, <1>7, <1>8
       DEF CompareInv, SwapCalls!Calls, SwapCalls!Missing, SwapCalls!Transactions

\* Of a creation only the address is not compared.
LEMMA CopyCreationStep ==
    ASSUME CompareInv, SwapCalls!CopyCreation
    PROVE  CompareInv'
<1>1. /\ stage = "ADDRESS" /\ call' = call /\ tx' = tx /\ SwapCalls!Creation
      /\ stage' = "AMOUNT"
      /\ strings' = [strings EXCEPT !.fullAddress = SwapCalls!CreationText]
  BY DEF SwapCalls!CopyCreation
<1>2. /\ call.command = "SIGN_TRANSACTION" /\ SwapCalls!ConfigOk(call.config)
      /\ strings = SwapCalls!ApprovedTexts /\ tx \in SwapCalls!Transactions
  BY <1>1 DEF CompareInv
<1>3. strings'.fullAmount = strings.fullAmount
  BY <1>1, <1>2 DEF SwapCalls!ApprovedTexts
<1>4. SwapCalls!Creation' /\ SwapCalls!ComparedNeverLess'
  BY <1>1 DEF SwapCalls!ComparedNeverLess, SwapCalls!Creation, SwapCalls!Missing
<1>5. SwapCalls!ApprovedTexts' = SwapCalls!ApprovedTexts
  BY <1>1 DEF SwapCalls!ApprovedTexts, SwapCalls!ConfigTicker, SwapCalls!Coin,
              SwapCalls!Space
<1>6. SwapCalls!ConfigOk(call.config)'
  BY <1>1, <1>2 DEF SwapCalls!ConfigOk
<1> QED BY <1>1, <1>2, <1>3, <1>4, <1>5, <1>6
       DEF CompareInv, SwapCalls!Calls, SwapCalls!Missing, SwapCalls!Transactions

LEMMA CompareAmountStep ==
    ASSUME PowerLaws, CompareInv,
           SwapCalls!CompareText("AMOUNT", "FEE", "fullAmount", SwapCalls!ParsedAmount)
    PROVE  CompareInv'
<1> DEFINE name == call.config.ticker
           approved == AmountToString(call.amount, CoinDecimals, name \o <<Space>>, <<>>,
                                      SwapSize)
           former == IF SwapCalls!Creation THEN tx.stack
                     ELSE SwapCalls!ToUppercase(tx.destination)
           parsed == AmountToString(tx.value, CoinDecimals, NetworkTicker(tx.known),
                                    former, SwapSize)
<1>1. /\ stage = "AMOUNT" /\ call' = call /\ tx' = tx
      /\ stage' = IF SwapCalls!Compare(strings.fullAmount, SwapCalls!ParsedAmount)
                  THEN "FEE" ELSE "REFUSED"
  BY DEF SwapCalls!CompareText
<1>2. /\ call.command = "SIGN_TRANSACTION" /\ SwapCalls!ConfigOk(call.config)
      /\ strings.fullAmount = SwapCalls!ApprovedTexts.fullAmount
      /\ tx \in SwapCalls!Transactions
  BY <1>1 DEF CompareInv
<1>3. SwapCalls!ConfigTicker(call.config) = name \o <<Space>>
  BY DEF SwapCalls!ConfigTicker, SwapCalls!Space, Space
<1>4. SwapCalls!ParsedAmount = parsed
  BY SwapOperators DEF SwapCalls!ParsedAmount, SwapCalls!TxTicker
<1>5. call.config.decimals = CoinDecimals => SwapCalls!ApprovedTexts.fullAmount = approved
  BY <1>3, SwapOperators DEF SwapCalls!ApprovedTexts
<1>6. /\ call.amount \in Numbers /\ tx.value \in Numbers /\ CoinDecimals \in Nat
      /\ SwapSize \in Nat \ {0} /\ name \in Seq(Nat) /\ Len(name) >= 1
      /\ former \in Seq(Nat)
  <2>1. /\ call.config \in Configs /\ call.amount \in Amounts
        /\ tx.value \in Amounts
    BY <1>2, CallParameters DEF CompareInv, SwapCalls!Transactions
  <2>2. Len(name) >= 1
    BY <1>2 DEF SwapCalls!ConfigOk
  <2>3. \A text \in Seq(Nat) : SwapCalls!ToUppercase(text) \in Seq(Nat)
    BY UpperTyped
  <2>4. former \in Seq(Nat)
    <3>1. <<>> \in Seq(Nat)
      OBVIOUS
    <3>2. /\ tx.stack \in {<<>>} \cup Stacks
          /\ SwapCalls!Creation \/ tx.destination \in Addresses
      BY <1>2 DEF SwapCalls!Transactions, SwapCalls!Creation
    <3> QED BY <2>3, <3>1, <3>2, SwapConstantsTyped
  <2> HIDE DEF former
  <2> QED BY <2>1, <2>2, <2>4, SwapConstantsTyped
<1>7. SwapCalls!Compare(approved, parsed)
        /\ Fits(call.amount, CoinDecimals, name \o <<Space>>, SwapSize)
          => call.amount <= tx.value
  <2> HIDE DEF name, former
  <2> QED BY <1>6, AmountsCompared
<1>8. SwapCalls!ComparedNeverLess'
  <2>1. call.config.decimals = CoinDecimals
        /\ Fits(call.amount, CoinDecimals, name \o <<Space>>, SwapSize)
        /\ stage' = "FEE"
            => tx.value >= call.amount
    <3> SUFFICES ASSUME call.config.decimals = CoinDecimals, stage' = "FEE",
                        Fits(call.amount, CoinDecimals, name \o <<Space>>, SwapSize)
                 PROVE  tx.value >= call.amount
      OBVIOUS
    <3>1. SwapCalls!Compare(approved, parsed)
      BY <1>1, <1>2, <1>4, <1>5
    <3>2. call.amount \in Int /\ tx.value \in Int
      BY <1>6 DEF Numbers
    <3> QED BY <1>7, <3>1, <3>2
  <2>2. SwapCalls!ConfigTicker(call.config)' = name \o <<Space>>
    BY <1>1, <1>3 DEF SwapCalls!ConfigTicker, SwapCalls!Space
  <2>3. ~SwapCalls!Creation' => SwapCalls!BeginsAsApproved'
    BY <1>1, SameBeginning
       DEF CompareInv, SwapCalls!ComparedNeverLess, SwapCalls!Creation, SwapCalls!Missing
  <2> HIDE DEF name
  <2> QED BY <1>1, <2>1, <2>2, <2>3, SwapOperators DEF SwapCalls!ComparedNeverLess
<1>9. SwapCalls!ConfigOk(call.config)'
  BY <1>1, <1>2 DEF SwapCalls!ConfigOk
<1> HIDE DEF approved, parsed
<1> QED BY <1>1, <1>2, <1>8, <1>9
       DEF CompareInv, SwapCalls!Calls, SwapCalls!Missing, SwapCalls!Transactions

LEMMA CompareInvKept ==
    ASSUME CompareInv, call' = call, stage' # "RUN", stage' # "ADDRESS", stage' # "AMOUNT",
           tx' = tx,
           stage' \in {"FEE", "SIGNED"} => stage \in {"FEE", "SIGNED"}
    PROVE  CompareInv'
<1>1. SwapCalls!ComparedNeverLess'
  <2>1. SwapCalls!ConfigTicker(call.config)' = SwapCalls!ConfigTicker(call.config)
    BY DEF SwapCalls!ConfigTicker, SwapCalls!Space
  <2>2. SwapCalls!BeginsAsApproved' = SwapCalls!BeginsAsApproved
    BY SameBeginning
  <2> QED BY <2>1, <2>2, SwapOperators
         DEF CompareInv, SwapCalls!ComparedNeverLess, SwapCalls!Creation, SwapCalls!Missing
<1>2. stage \in {"FEE", "SIGNED"} => SwapCalls!ConfigOk(call.config)'
  BY DEF CompareInv, SwapCalls!ConfigOk
<1> QED BY <1>1, <1>2 DEF CompareInv, SwapCalls!Calls, SwapCalls!Missing, SwapCalls!Transactions

\* compareOrCopy in swap mode, of any amounts, tickers, texts of addresses and
\* whatever the stack held: what passes is a creation or goes to an address that
\* begins with the approved text, and carries at least the approved amount.
THEOREM ComparedIsEnough == ASSUME PowerLaws PROVE Spec => []ComparedNeverLess
<1> DEFINE Inv == job = "LIBRARY" => CompareInv
<1>1. Init => Inv
  BY DEF Init, SwapCalls!Init, CompareInv, SwapCalls!ComparedNeverLess
<1>2. Inv /\ [Next]_vars => Inv'
  <2> SUFFICES ASSUME Inv, [Next]_vars, job' = "LIBRARY" PROVE CompareInv'
    OBVIOUS
  <2>1. job = "LIBRARY" /\ CompareInv
    BY DEF Next, PrepareTexts, LibraryCall, PluginScreen, vars
  <2>2. CASE \/ SwapCalls!HandleCheckAddress \/ SwapCalls!HandleGetPrintableAmount
             \/ SwapCalls!CopyRefused
    <3>1. call' = call /\ tx' = tx /\ stage' = "ANSWERED"
      BY <2>2 DEF SwapCalls!HandleCheckAddress, SwapCalls!HandleGetPrintableAmount,
                  SwapCalls!CopyRefused, SwapCalls!Answer
    <3> QED BY <2>1, <3>1, CompareInvKept
  <2>3. CASE SwapCalls!CopyParameters
    <3>1. /\ call' = call /\ stage' = "RUN" /\ call.command = "SIGN_TRANSACTION"
          /\ SwapCalls!ConfigOk(call.config) /\ strings' = SwapCalls!ApprovedTexts
      BY <2>3 DEF SwapCalls!CopyParameters, SwapCalls!ParametersOk
    <3>2. SwapCalls!ApprovedTexts' = SwapCalls!ApprovedTexts
      BY <3>1 DEF SwapCalls!ApprovedTexts, SwapCalls!ConfigTicker, SwapCalls!Coin,
                  SwapCalls!Space
    <3>3. SwapCalls!ConfigOk(call.config)'
      BY <3>1 DEF SwapCalls!ConfigOk
    <3>4. SwapCalls!ComparedNeverLess'
      BY <3>1 DEF SwapCalls!ComparedNeverLess
    <3> QED BY <2>1, <3>1, <3>2, <3>3, <3>4
           DEF CompareInv, SwapCalls!Calls, SwapCalls!Missing
  <2>4. CASE SwapCalls!SignTx
    <3>1. /\ stage = "RUN" /\ call' = call /\ stage' = "ADDRESS" /\ strings' = strings
          /\ tx' \in SwapCalls!Transactions
      BY <2>4 DEF SwapCalls!SignTx
    <3>2. SwapCalls!ApprovedTexts' = SwapCalls!ApprovedTexts
      BY <3>1 DEF SwapCalls!ApprovedTexts, SwapCalls!ConfigTicker, SwapCalls!Coin,
                  SwapCalls!Space
    <3>3. SwapCalls!ConfigOk(call.config)'
      BY <2>1, <3>1 DEF CompareInv, SwapCalls!ConfigOk
    <3>4. SwapCalls!ComparedNeverLess'
      BY <3>1 DEF SwapCalls!ComparedNeverLess
    <3> QED BY <2>1, <3>1, <3>2, <3>3, <3>4
           DEF CompareInv, SwapCalls!Calls, SwapCalls!Missing, SwapCalls!Transactions
  <2>5. CASE SwapCalls!CompareTexts
    <3>1. CASE ~SwapCalls!Creation
               /\ SwapCalls!CompareText("ADDRESS", "AMOUNT", "fullAddress", tx.destination)
      BY <2>1, <3>1, CompareAddressStep
    <3>2. CASE SwapCalls!CompareText("AMOUNT", "FEE", "fullAmount", SwapCalls!ParsedAmount)
      BY <2>1, <3>2, CompareAmountStep
    <3>3. CASE SwapCalls!CompareText("FEE", "SIGNED", "maxFee", SwapCalls!ParsedFee)
      <4>1. /\ stage = "FEE" /\ stage' \in {"SIGNED", "REFUSED"} /\ call' = call /\ tx' = tx
        BY <3>3 DEF SwapCalls!CompareText
      <4> QED BY <2>1, <4>1, CompareInvKept
    <3> QED BY <2>5, <3>1, <3>2, <3>3 DEF SwapCalls!CompareTexts
  <2>6. CASE SwapCalls!CopyCreation
    BY <2>1, <2>6, CopyCreationStep
  <2>7. CASE UNCHANGED vars
    <3>1. call' = call /\ stage' = stage /\ tx' = tx /\ strings' = strings
      BY <2>7 DEF vars, swapVars
    <3>2. SwapCalls!ApprovedTexts' = SwapCalls!ApprovedTexts
      BY <3>1 DEF SwapCalls!ApprovedTexts, SwapCalls!ConfigTicker, SwapCalls!Coin,
                  SwapCalls!Space
    <3>3. SwapCalls!ConfigOk(call.config)' = SwapCalls!ConfigOk(call.config)
      BY <3>1 DEF SwapCalls!ConfigOk
    <3>4. SwapCalls!ConfigTicker(call.config)' = SwapCalls!ConfigTicker(call.config)
      BY <3>1 DEF SwapCalls!ConfigTicker, SwapCalls!Space
    <3>5. SwapCalls!ComparedNeverLess'
      <4>1. SwapCalls!BeginsAsApproved' = SwapCalls!BeginsAsApproved
        BY <3>1, SameBeginning
      <4> QED BY <2>1, <3>1, <3>4, <4>1, SwapOperators
             DEF CompareInv, SwapCalls!ComparedNeverLess, SwapCalls!Creation,
                 SwapCalls!Missing
    <3> QED BY <2>1, <3>1, <3>2, <3>3, <3>5
           DEF CompareInv, SwapCalls!Calls, SwapCalls!Missing, SwapCalls!Transactions
  <2> QED BY <2>1, <2>2, <2>3, <2>4, <2>5, <2>6, <2>7
         DEF Next, PrepareTexts, LibraryCall, PluginScreen, SwapCalls!Next
<1>3. Inv => ComparedNeverLess
  BY DEF CompareInv, ComparedNeverLess
<1> QED BY <1>1, <1>2, <1>3, PTL DEF Spec
=============================================================================
