---------------------------- MODULE Words_proofs ----------------------------
(***************************************************************************)
(* The functions of uint256.c on words of any width: a number of four      *)
(* words behaves as the integer that it stands for, modulo the power that  *)
(* four words hold.  Every lemma about pairs is used twice, for the words  *)
(* of a uint128_t and for the halves of a uint256_t.  On them rests the    *)
(* proof about divmod256.                                                  *)
(***************************************************************************)
EXTENDS DivMod, TLAPS, WellFoundedInduction

-----------------------------------------------------------------------------
(* Pairs of digits below m, and what wraps at m.                           *)

\* Two digits make a number below the square.
LEMMA PairInRange ==
    ASSUME NEW m \in Nat \ {0}, NEW u \in 0 .. m - 1, NEW j \in 0 .. m - 1
    PROVE  u * m + j \in 0 .. m * m - 1
OBVIOUS

\* Pairs are ordered by the upper digit, then by the lower one.
LEMMA PairOrder ==
    ASSUME NEW m \in Nat \ {0}, NEW u \in 0 .. m - 1, NEW j \in 0 .. m - 1,
           NEW v \in 0 .. m - 1, NEW k \in 0 .. m - 1
    PROVE  /\ u * m + j > v * m + k <=> IF u = v THEN j > k ELSE u > v
           /\ u * m + j = v * m + k <=> u = v /\ j = k
OBVIOUS

\* The sum of two pairs, with the carry of the lower digits.
LEMMA PairSum ==
    ASSUME NEW m \in Nat \ {0}, NEW u \in 0 .. m - 1, NEW j \in 0 .. m - 1,
           NEW v \in 0 .. m - 1, NEW k \in 0 .. m - 1, NEW c \in 0..1,
           c = IF j + k < m THEN 0 ELSE 1
    PROVE  ((u + v + c) % m) * m + ((j + k) % m)
               = ((u * m + j) + (v * m + k)) % (m * m)
<1> DEFINE s == u + v + c
           low == (j + k) % m
           sum == (u * m + j) + (v * m + k)
<1>1. low = j + k - c * m /\ low \in 0 .. m - 1
    OBVIOUS
<1>2. sum = s * m + low
    BY <1>1
<1>3. CASE s < m
    <2>1. s % m = s
        BY <1>3
    <2>2. s * m + low \in 0 .. m * m - 1
        BY <1>1, <1>3, PairInRange
    <2> QED
        BY <1>2, <2>1, <2>2
<1>4. CASE s >= m
    <2>1. s % m = s - m /\ s - m \in 0 .. m - 1
        BY <1>4
    <2>2. (s - m) * m + low \in 0 .. m * m - 1
        BY <1>1, <2>1, PairInRange
    <2>3. sum = m * m + ((s - m) * m + low)
        BY <1>2
    <2>4. sum % (m * m) = (s - m) * m + low
        <3> DEFINE rest == (s - m) * m + low
                   q == m * m
        <3>1. q \in Nat \ {0} /\ rest \in 0 .. q - 1 /\ sum = q + rest
            BY <2>2, <2>3
        <3> HIDE DEF rest, q, sum
        <3>2. sum % q = rest
            BY <3>1
        <3> QED
            BY <3>2 DEF rest, q, sum
    <2> QED
        BY <2>1, <2>4
<1> QED
    BY <1>3, <1>4

\* The difference of two pairs, with the borrow of the lower digits.
LEMMA PairDifference ==
    ASSUME NEW m \in Nat \ {0}, NEW u \in 0 .. m - 1, NEW j \in 0 .. m - 1,
           NEW v \in 0 .. m - 1, NEW k \in 0 .. m - 1, NEW c \in 0..1,
           c = IF j - k >= 0 THEN 0 ELSE 1
    PROVE  ((u - v - c) % m) * m + ((j - k) % m)
               = ((u * m + j) - (v * m + k)) % (m * m)
<1> DEFINE s == u - v - c
           low == (j - k) % m
           difference == (u * m + j) - (v * m + k)
<1>1. low = j - k + c * m /\ low \in 0 .. m - 1
    OBVIOUS
<1>2. difference = s * m + low
    BY <1>1
<1>3. CASE s >= 0
    <2>1. s % m = s /\ s \in 0 .. m - 1
        BY <1>3
    <2>2. s * m + low \in 0 .. m * m - 1
        BY <1>1, <2>1, PairInRange
    <2> QED
        BY <1>2, <2>1, <2>2
<1>4. CASE s < 0
    <2>1. s % m = s + m /\ s + m \in 0 .. m - 1
        BY <1>4
    <2>2. (s + m) * m + low \in 0 .. m * m - 1
        BY <1>1, <2>1, PairInRange
    <2>3. difference = ((s + m) * m + low) - m * m
        BY <1>2
    <2>4. difference % (m * m) = (s + m) * m + low
        <3> DEFINE rest == (s + m) * m + low
                   q == m * m
        <3>1. q \in Nat \ {0} /\ rest \in 0 .. q - 1 /\ difference = rest - q
            BY <2>2, <2>3
        <3> HIDE DEF rest, q, difference
        <3>2. difference % q = rest
            BY <3>1
        <3> QED
            BY <3>2 DEF rest, q, difference
    <2> QED
        BY <2>1, <2>4
<1> QED
    BY <1>3, <1>4

-----------------------------------------------------------------------------
(* The numbers: what they stand for, and their order.                      *)

\* The largest power of each size.
Base128 == Base * Base
Base256 == Base128 * Base128

LEMMA Bases ==
    ASSUME WordAssumption, PowerLaws
    PROVE  /\ W \in Nat \ {0}
           /\ Base \in Nat \ {0} /\ Base128 \in Nat \ {0} /\ Base256 \in Nat \ {0}
           /\ Base >= 2
           /\ 2^(2 * W) = Base128 /\ 2^(4 * W) = Base256
<1>1. W \in Nat \ {0}
    BY DEF WordAssumption
<1>2. W \in 0 .. 4 * W /\ 2 * W \in 0 .. 4 * W
    BY <1>1
<1>3. Base \in Nat \ {0}
    BY <1>2 DEF PowerLaws, Base
<1>4. 2^(W + W) = Base * Base /\ 2^(2 * W + 2 * W) = 2^(2 * W) * 2^(2 * W)
    BY <1>2 DEF PowerLaws, Base
<1>5. W + W = 2 * W /\ 2 * W + 2 * W = 4 * W
    BY <1>1
<1>6. \A m \in Nat \ {0} : m * m \in Nat \ {0}
    OBVIOUS
<1>7. 2^(1 + (W - 1)) = 2 * 2^(W - 1) /\ 2^(W - 1) \in Nat \ {0}
    <2>1. 1 \in 0 .. 4 * W /\ W - 1 \in 0 .. 4 * W /\ 2^1 = 2
        BY <1>1
    <2> QED
        BY <2>1 DEF PowerLaws
<1>8. 1 + (W - 1) = W
    BY <1>1
<1>9. Base >= 2
    BY <1>7, <1>8 DEF Base
<1> QED
    BY <1>1, <1>3, <1>4, <1>5, <1>6, <1>9 DEF Base128, Base256

\* The parts of a number of two words.
LEMMA Parts128 ==
    ASSUME Base \in Nat \ {0}, NEW n \in U128
    PROVE  /\ Upper(n) \in 0 .. Base - 1 /\ Lower(n) \in 0 .. Base - 1
           /\ n = <<Upper(n), Lower(n)>>
           /\ Value128(n) \in 0 .. Base128 - 1
<1>1. /\ Upper(n) \in 0 .. Base - 1 /\ Lower(n) \in 0 .. Base - 1
      /\ n = <<Upper(n), Lower(n)>>
    BY DEF U128, Word, Upper, Lower
<1> QED
    BY <1>1, PairInRange DEF Value128, Base128

\* The parts of a number of four words.
LEMMA Parts256 ==
    ASSUME Base \in Nat \ {0}, NEW n \in U256
    PROVE  /\ Upper(n) \in U128 /\ Lower(n) \in U128
           /\ n = <<Upper(n), Lower(n)>>
           /\ Value128(Upper(n)) \in 0 .. Base128 - 1
           /\ Value128(Lower(n)) \in 0 .. Base128 - 1
           /\ Value256(n) = Value128(Upper(n)) * Base128 + Value128(Lower(n))
           /\ Value256(n) \in 0 .. Base256 - 1
<1>1. Upper(n) \in U128 /\ Lower(n) \in U128 /\ n = <<Upper(n), Lower(n)>>
    BY DEF U256, Upper, Lower
<1>2. Value128(Upper(n)) \in 0 .. Base128 - 1 /\ Value128(Lower(n)) \in 0 .. Base128 - 1
    BY <1>1, Parts128
<1>3. Base128 \in Nat \ {0}
    BY DEF Base128
<1>4. Value256(n) = Value128(Upper(n)) * Base128 + Value128(Lower(n))
    BY DEF Value256, Base128
<1>5. Value256(n) \in 0 .. Base256 - 1
    BY <1>2, <1>3, <1>4, PairInRange DEF Base256
<1> QED
    BY <1>1, <1>2, <1>4, <1>5

\* Two numbers of two words are compared as the integers, and a number is
\* nothing but its value.
LEMMA Order128 ==
    ASSUME Base \in Nat \ {0}, NEW a \in U128, NEW b \in U128
    PROVE  /\ Gt128(a, b) <=> Value128(a) > Value128(b)
           /\ a = b <=> Value128(a) = Value128(b)
<1>1. /\ Upper(a) \in 0 .. Base - 1 /\ Lower(a) \in 0 .. Base - 1
      /\ Upper(b) \in 0 .. Base - 1 /\ Lower(b) \in 0 .. Base - 1
      /\ a = <<Upper(a), Lower(a)>> /\ b = <<Upper(b), Lower(b)>>
    BY Parts128
<1>2. /\ Value128(a) > Value128(b) <=>
             IF Upper(a) = Upper(b) THEN Lower(a) > Lower(b) ELSE Upper(a) > Upper(b)
      /\ Value128(a) = Value128(b) <=> Upper(a) = Upper(b) /\ Lower(a) = Lower(b)
    BY <1>1, PairOrder DEF Value128
<1> QED
    BY <1>1, <1>2 DEF Gt128

\* gt256 and gte256 are the order of the integers, for words of any width: the
\* halves are compared first by the upper one.
THEOREM OrderOfIntegers ==
    ASSUME WordAssumption, PowerLaws, NEW a \in U256, NEW b \in U256
    PROVE  /\ Gt256(a, b) <=> Value256(a) > Value256(b)
           /\ Gte256(a, b) <=> Value256(a) >= Value256(b)
           /\ a = b <=> Value256(a) = Value256(b)
<1>1. Base \in Nat \ {0} /\ Base128 \in Nat \ {0}
    BY Bases
<1>2. /\ Upper(a) \in U128 /\ Lower(a) \in U128 /\ Upper(b) \in U128 /\ Lower(b) \in U128
      /\ a = <<Upper(a), Lower(a)>> /\ b = <<Upper(b), Lower(b)>>
      /\ Value256(a) = Value128(Upper(a)) * Base128 + Value128(Lower(a))
      /\ Value256(b) = Value128(Upper(b)) * Base128 + Value128(Lower(b))
    BY <1>1, Parts256
<1>3. /\ Value128(Upper(a)) \in 0 .. Base128 - 1 /\ Value128(Lower(a)) \in 0 .. Base128 - 1
      /\ Value128(Upper(b)) \in 0 .. Base128 - 1 /\ Value128(Lower(b)) \in 0 .. Base128 - 1
    BY <1>1, <1>2, Parts128
<1>4. /\ Value256(a) > Value256(b) <=>
             IF Value128(Upper(a)) = Value128(Upper(b))
             THEN Value128(Lower(a)) > Value128(Lower(b))
             ELSE Value128(Upper(a)) > Value128(Upper(b))
      /\ Value256(a) = Value256(b) <=>
             Value128(Upper(a)) = Value128(Upper(b)) /\ Value128(Lower(a)) = Value128(Lower(b))
    <2>1. \A u, j, v, k \in 0 .. Base128 - 1 :
             /\ u * Base128 + j > v * Base128 + k <=> IF u = v THEN j > k ELSE u > v
             /\ u * Base128 + j = v * Base128 + k <=> u = v /\ j = k
        BY <1>1, PairOrder
    <2> QED
        BY <1>2, <1>3, <2>1
<1>5. /\ Upper(a) = Upper(b) <=> Value128(Upper(a)) = Value128(Upper(b))
      /\ Lower(a) = Lower(b) <=> Value128(Lower(a)) = Value128(Lower(b))
      /\ Gt128(Upper(a), Upper(b)) <=> Value128(Upper(a)) > Value128(Upper(b))
      /\ Gt128(Lower(a), Lower(b)) <=> Value128(Lower(a)) > Value128(Lower(b))
    BY <1>1, <1>2, Order128
<1>6. Gt256(a, b) <=> Value256(a) > Value256(b)
    BY <1>4, <1>5 DEF Gt256
<1>7. a = b <=> Value256(a) = Value256(b)
    BY <1>2, <1>4, <1>5
<1>8. Value256(a) \in Int /\ Value256(b) \in Int
    BY <1>1, <1>2, <1>3
<1> QED
    BY <1>6, <1>7, <1>8 DEF Gte256

-----------------------------------------------------------------------------
(* Sums and differences.                                                   *)

\* A carry is seen from the sum that came out smaller, a borrow from the
\* difference that came out larger.
LEMMA CarrySeen ==
    ASSUME NEW m \in Nat \ {0}, NEW j \in 0 .. m - 1, NEW k \in 0 .. m - 1
    PROVE  /\ (j + k) % m \in 0 .. m - 1 /\ (j - k) % m \in 0 .. m - 1
           /\ (j + k) % m < j <=> j + k >= m
           /\ (j - k) % m > j <=> j - k < 0
OBVIOUS

\* add128 is the sum modulo the square of the base.
LEMMA Sum128 ==
    ASSUME Base \in Nat \ {0}, NEW a \in U128, NEW b \in U128
    PROVE  /\ Add128(a, b) \in U128
           /\ Value128(Add128(a, b)) = (Value128(a) + Value128(b)) % Base128
<1> DEFINE low == (Lower(a) + Lower(b)) % Base
           c == Carry(low < Lower(a))
           up == (Upper(a) + Upper(b) + c) % Base
<1>1. /\ Upper(a) \in 0 .. Base - 1 /\ Lower(a) \in 0 .. Base - 1
      /\ Upper(b) \in 0 .. Base - 1 /\ Lower(b) \in 0 .. Base - 1
    BY Parts128
<1>2. low \in 0 .. Base - 1 /\ (low < Lower(a) <=> Lower(a) + Lower(b) >= Base)
    BY <1>1, CarrySeen
<1>3. c \in 0..1 /\ c = IF Lower(a) + Lower(b) < Base THEN 0 ELSE 1
    BY <1>1, <1>2 DEF Carry
<1>4. Add128(a, b) = <<up, low>>
    BY DEF Add128, Wrapped
<1>5. up \in 0 .. Base - 1
    BY <1>1, <1>3
<1>6. up * Base + low = (Value128(a) + Value128(b)) % Base128
    <2> DEFINE Exact(u, j, v, k, d) ==
                   ((u + v + d) % Base) * Base + ((j + k) % Base)
                       = ((u * Base + j) + (v * Base + k)) % (Base * Base)
    <2>1. \A u, j, v, k \in 0 .. Base - 1, d \in 0..1 :
             d = (IF j + k < Base THEN 0 ELSE 1) => Exact(u, j, v, k, d)
        BY PairSum
    <2> HIDE DEF c, Exact
    <2>2. Exact(Upper(a), Lower(a), Upper(b), Lower(b), c)
        BY <1>1, <1>3, <2>1
    <2> QED
        BY <2>2 DEF Exact, Value128, Base128
<1> QED
    BY <1>2, <1>4, <1>5, <1>6 DEF U128, Word, Value128, Upper, Lower

\* minus128 is the difference modulo the square of the base.
LEMMA Difference128 ==
    ASSUME Base \in Nat \ {0}, NEW a \in U128, NEW b \in U128
    PROVE  /\ Minus128(a, b) \in U128
           /\ Value128(Minus128(a, b)) = (Value128(a) - Value128(b)) % Base128
<1> DEFINE low == (Lower(a) - Lower(b)) % Base
           c == Carry(low > Lower(a))
           up == (Upper(a) - Upper(b) - c) % Base
<1>1. /\ Upper(a) \in 0 .. Base - 1 /\ Lower(a) \in 0 .. Base - 1
      /\ Upper(b) \in 0 .. Base - 1 /\ Lower(b) \in 0 .. Base - 1
    BY Parts128
<1>2. low \in 0 .. Base - 1 /\ (low > Lower(a) <=> Lower(a) - Lower(b) < 0)
    BY <1>1, CarrySeen
<1>3. c \in 0..1 /\ c = IF Lower(a) - Lower(b) >= 0 THEN 0 ELSE 1
    BY <1>1, <1>2 DEF Carry
<1>4. Minus128(a, b) = <<up, low>>
    BY DEF Minus128, Wrapped
<1>5. up \in 0 .. Base - 1
    BY <1>1, <1>3
<1>6. up * Base + low = (Value128(a) - Value128(b)) % Base128
    <2> DEFINE Exact(u, j, v, k, d) ==
                   ((u - v - d) % Base) * Base + ((j - k) % Base)
                       = ((u * Base + j) - (v * Base + k)) % (Base * Base)
    <2>1. \A u, j, v, k \in 0 .. Base - 1, d \in 0..1 :
             d = (IF j - k >= 0 THEN 0 ELSE 1) => Exact(u, j, v, k, d)
        BY PairDifference
    <2> HIDE DEF c, Exact
    <2>2. Exact(Upper(a), Lower(a), Upper(b), Lower(b), c)
        BY <1>1, <1>3, <2>1
    <2> QED
        BY <2>2 DEF Exact, Value128, Base128
<1> QED
    BY <1>2, <1>4, <1>5, <1>6 DEF U128, Word, Value128, Upper, Lower

\* A remainder may be taken early.
LEMMA RemainderTwice ==
    ASSUME NEW m \in Nat \ {0}, NEW x \in -m .. 2 * m
    PROVE  /\ ((x % m) + 1) % m = (x + 1) % m
           /\ ((x % m) - 1) % m = (x - 1) % m
OBVIOUS

\* add256 is the sum modulo 2^256, for words of any width: the carry crosses all
\* four words, although it is only seen from halves that came out smaller.
THEOREM SumExact ==
    ASSUME WordAssumption, PowerLaws, NEW a \in U256, NEW b \in U256
    PROVE  /\ Add256(a, b) \in U256
           /\ Value256(Add256(a, b)) = (Value256(a) + Value256(b)) % Base256
<1> DEFINE low == Add128(Lower(a), Lower(b))
           up == Add128(Upper(a), Upper(b))
           past == Gt128(Lower(a), low)
           ua == Value128(Upper(a))
           la == Value128(Lower(a))
           ub == Value128(Upper(b))
           lb == Value128(Lower(b))
           c == IF la + lb < Base128 THEN 0 ELSE 1
<1>1. Base \in Nat \ {0} /\ Base >= 2 /\ Base128 \in Nat \ {0}
    BY Bases
<1>2. /\ Upper(a) \in U128 /\ Lower(a) \in U128 /\ Upper(b) \in U128 /\ Lower(b) \in U128
      /\ Value256(a) = ua * Base128 + la /\ Value256(b) = ub * Base128 + lb
    BY <1>1, Parts256
<1>3. /\ ua \in 0 .. Base128 - 1 /\ la \in 0 .. Base128 - 1
      /\ ub \in 0 .. Base128 - 1 /\ lb \in 0 .. Base128 - 1
    BY <1>1, <1>2, Parts128
<1>4. /\ low \in U128 /\ Value128(low) = (la + lb) % Base128
      /\ up \in U128 /\ Value128(up) = (ua + ub) % Base128
    BY <1>1, <1>2, Sum128
<1>5. past <=> c = 1
    <2>1. past <=> la > Value128(low)
        BY <1>1, <1>2, <1>4, Order128
    <2>2. (la > (la + lb) % Base128) <=> c = 1
        <3> HIDE DEF la, lb
        <3> QED
            BY <1>1, <1>3
    <2> QED
        BY <1>4, <2>1, <2>2
<1>6. /\ One128 \in U128 /\ Value128(One128) = 1
    BY <1>1 DEF One128, U128, Word, Value128, Upper, Lower
<1> DEFINE upper == IF past THEN Add128(up, One128) ELSE up
<1>7. upper \in U128 /\ Value128(upper) = (ua + ub + c) % Base128
    <2>1. Add128(up, One128) \in U128
          /\ Value128(Add128(up, One128)) = (Value128(up) + 1) % Base128
        BY <1>1, <1>4, <1>6, Sum128
    <2>2. ((((ua + ub) % Base128) + 1) % Base128) = (ua + ub + 1) % Base128
        BY <1>1, <1>3, RemainderTwice
    <2>3. ua + ub + 0 = ua + ub
        BY <1>3
    <2>4. CASE c = 1
        BY <1>4, <1>5, <2>1, <2>2, <2>4
    <2>5. CASE c = 0
        BY <1>4, <1>5, <2>3, <2>5
    <2> QED
        BY <2>4, <2>5
<1>8. Add256(a, b) = <<upper, low>>
    BY DEF Add256
<1>9. ((ua + ub + c) % Base128) * Base128 + ((la + lb) % Base128)
          = ((ua * Base128 + la) + (ub * Base128 + lb)) % (Base128 * Base128)
    <2> DEFINE Exact(u, j, v, k, d) ==
                   ((u + v + d) % Base128) * Base128 + ((j + k) % Base128)
                       = ((u * Base128 + j) + (v * Base128 + k)) % (Base128 * Base128)
    <2>1. \A u, j, v, k \in 0 .. Base128 - 1, d \in 0..1 :
             d = (IF j + k < Base128 THEN 0 ELSE 1) => Exact(u, j, v, k, d)
        BY <1>1, PairSum
    <2>2. c \in 0..1
        OBVIOUS
    <2> HIDE DEF Exact
    <2>3. Exact(ua, la, ub, lb, c)
        BY <1>3, <2>1, <2>2
    <2> QED
        BY <2>3 DEF Exact
<1>10. <<upper, low>> \in U256
       /\ Value256(<<upper, low>>) = Value128(upper) * Base128 + Value128(low)
    <2> HIDE DEF upper, low
    <2> QED
        BY <1>4, <1>7 DEF U256, Value256, Upper, Lower, Base128
<1> HIDE DEF upper, low, ua, la, ub, lb, c
<1> QED
    BY <1>2, <1>4, <1>7, <1>8, <1>9, <1>10 DEF Base256

\* minus256 is the difference modulo 2^256, for words of any width.
THEOREM DifferenceExact ==
    ASSUME WordAssumption, PowerLaws, NEW a \in U256, NEW b \in U256
    PROVE  /\ Minus256(a, b) \in U256
           /\ Value256(Minus256(a, b)) = (Value256(a) - Value256(b)) % Base256
<1> DEFINE low == Minus128(Lower(a), Lower(b))
           up == Minus128(Upper(a), Upper(b))
           past == Gt128(low, Lower(a))
           ua == Value128(Upper(a))
           la == Value128(Lower(a))
           ub == Value128(Upper(b))
           lb == Value128(Lower(b))
           c == IF la - lb >= 0 THEN 0 ELSE 1
<1>1. Base \in Nat \ {0} /\ Base >= 2 /\ Base128 \in Nat \ {0}
    BY Bases
<1>2. /\ Upper(a) \in U128 /\ Lower(a) \in U128 /\ Upper(b) \in U128 /\ Lower(b) \in U128
      /\ Value256(a) = ua * Base128 + la /\ Value256(b) = ub * Base128 + lb
    BY <1>1, Parts256
<1>3. /\ ua \in 0 .. Base128 - 1 /\ la \in 0 .. Base128 - 1
      /\ ub \in 0 .. Base128 - 1 /\ lb \in 0 .. Base128 - 1
    BY <1>1, <1>2, Parts128
<1>4. /\ low \in U128 /\ Value128(low) = (la - lb) % Base128
      /\ up \in U128 /\ Value128(up) = (ua - ub) % Base128
    BY <1>1, <1>2, Difference128
<1>5. past <=> c = 1
    <2>1. past <=> Value128(low) > la
        BY <1>1, <1>2, <1>4, Order128
    <2>2. ((la - lb) % Base128 > la) <=> c = 1
        <3> HIDE DEF la, lb
        <3> QED
            BY <1>1, <1>3
    <2> QED
        BY <1>4, <2>1, <2>2
<1>6. /\ One128 \in U128 /\ Value128(One128) = 1
    BY <1>1 DEF One128, U128, Word, Value128, Upper, Lower
<1> DEFINE upper == IF past THEN Minus128(up, One128) ELSE up
<1>7. upper \in U128 /\ Value128(upper) = (ua - ub - c) % Base128
    <2>1. Minus128(up, One128) \in U128
          /\ Value128(Minus128(up, One128)) = (Value128(up) - 1) % Base128
        BY <1>1, <1>4, <1>6, Difference128
    <2>2. ((((ua - ub) % Base128) - 1) % Base128) = (ua - ub - 1) % Base128
        BY <1>1, <1>3, RemainderTwice
    <2>3. ua - ub - 0 = ua - ub
        BY <1>3
    <2>4. CASE c = 1
        BY <1>4, <1>5, <2>1, <2>2, <2>4
    <2>5. CASE c = 0
        BY <1>4, <1>5, <2>3, <2>5
    <2> QED
        BY <2>4, <2>5
<1>8. Minus256(a, b) = <<upper, low>>
    BY DEF Minus256
<1>9. ((ua - ub - c) % Base128) * Base128 + ((la - lb) % Base128)
          = ((ua * Base128 + la) - (ub * Base128 + lb)) % (Base128 * Base128)
    <2> DEFINE Exact(u, j, v, k, d) ==
                   ((u - v - d) % Base128) * Base128 + ((j - k) % Base128)
                       = ((u * Base128 + j) - (v * Base128 + k)) % (Base128 * Base128)
    <2>1. \A u, j, v, k \in 0 .. Base128 - 1, d \in 0..1 :
             d = (IF j - k >= 0 THEN 0 ELSE 1) => Exact(u, j, v, k, d)
        BY <1>1, PairDifference
    <2>2. c \in 0..1
        OBVIOUS
    <2> HIDE DEF Exact
    <2>3. Exact(ua, la, ub, lb, c)
        BY <1>3, <2>1, <2>2
    <2> QED
        BY <2>3 DEF Exact
<1>10. <<upper, low>> \in U256
       /\ Value256(<<upper, low>>) = Value128(upper) * Base128 + Value128(low)
    <2> HIDE DEF upper, low
    <2> QED
        BY <1>4, <1>7 DEF U256, Value256, Upper, Lower, Base128
<1> HIDE DEF upper, low, ua, la, ub, lb, c
<1> QED
    BY <1>2, <1>4, <1>7, <1>8, <1>9, <1>10 DEF Base256

-----------------------------------------------------------------------------
(* Shifts.                                                                 *)

\* The quotient and the remainder of a number are the only ones.
LEMMA DivisionUnique ==
    ASSUME NEW m \in Nat \ {0}, NEW q \in Int, NEW rest \in 0 .. m - 1
    PROVE  (q * m + rest) % m = rest /\ (q * m + rest) \div m = q
OBVIOUS

\* A number is made of its quotient and its remainder.
LEMMA DivisionOf ==
    ASSUME NEW m \in Nat \ {0}, NEW p \in Nat \ {0}, NEW x \in 0 .. p * m - 1
    PROVE  /\ x = (x \div m) * m + (x % m)
           /\ x \div m \in 0 .. p - 1 /\ x % m \in 0 .. m - 1
<1>1. x = (x \div m) * m + (x % m) /\ x % m \in 0 .. m - 1 /\ x \div m \in Int
    OBVIOUS
<1>2. x \div m >= 0
    BY <1>1
<1>3. x \div m < p
    <2> SUFFICES ASSUME x \div m >= p PROVE FALSE
        BY <1>1
    <2>1. (x \div m) * m >= p * m
        BY <1>1
    <2> QED
        BY <1>1, <2>1
<1> QED
    BY <1>1, <1>2, <1>3

\* A digit below p * q shifted to the left by p: what is above leaves it.
LEMMA DigitLeft ==
    ASSUME NEW p \in Nat \ {0}, NEW q \in Nat \ {0}, NEW m, m = p * q, NEW x \in 0 .. m - 1
    PROVE  /\ (x * p) % m = (x % q) * p
           /\ x * p = (x \div q) * m + (x % q) * p
           /\ (x % q) * p \in 0 .. m - p
<1>1. x = (x \div q) * q + (x % q) /\ x \div q \in 0 .. p - 1 /\ x % q \in 0 .. q - 1
    BY DivisionOf
<1>2. x * p = (x \div q) * m + (x % q) * p
    <2> DEFINE h == x \div q
               t == x % q
    <2> HIDE DEF h, t
    <2>1. x = h * q + t /\ h \in Int /\ t \in Int
        BY <1>1 DEF h, t
    <2>2. x * p = h * m + t * p
        BY <2>1
    <2> QED
        BY <2>2 DEF h, t
<1>3. (x % q) * p \in 0 .. m - p
    <2> DEFINE t == x % q
    <2> HIDE DEF t
    <2>1. t \in 0 .. q - 1
        BY <1>1 DEF t
    <2>2. t * p <= (q - 1) * p /\ t * p >= 0 /\ (q - 1) * p = m - p
        BY <2>1
    <2> QED
        BY <2>1, <2>2 DEF t
<1>4. (x * p) % m = (x % q) * p
    <2> DEFINE h == x \div q
               t == (x % q) * p
    <2>1. h \in Int /\ t \in 0 .. m - 1 /\ m \in Nat \ {0} /\ x * p = h * m + t
        BY <1>1, <1>2, <1>3
    <2> HIDE DEF h, t
    <2>2. (h * m + t) % m = t
        BY <2>1, DivisionUnique
    <2> QED
        BY <2>1, <2>2 DEF t
<1> QED
    BY <1>2, <1>3, <1>4

\* A pair shifted to the left: the upper part of the lower digit moves up.
ShiftedLeft(m, p, q, u, j) ==
    /\ ((u * p) % m) + (j \div q) \in 0 .. m - 1
    /\ (j * p) % m \in 0 .. m - 1
    /\ (((u * p) % m) + (j \div q)) * m + ((j * p) % m) = ((u * m + j) * p) % (m * m)

LEMMA PairLeft ==
    ASSUME NEW p \in Nat \ {0}, NEW q \in Nat \ {0}, NEW m, m = p * q,
           NEW u \in 0 .. m - 1, NEW j \in 0 .. m - 1
    PROVE  ShiftedLeft(m, p, q, u, j)
<1> DEFINE a == u \div q
           b == (u % q) * p
           h == j \div q
           t == (j % q) * p
<1>1. m \in Nat \ {0} /\ m = p * q
    OBVIOUS
<1>2. a \in 0 .. p - 1 /\ h \in 0 .. p - 1
    BY DivisionOf
<1>3. /\ (u * p) % m = b /\ u * p = a * m + b /\ b \in 0 .. m - p
      /\ (j * p) % m = t /\ j * p = h * m + t /\ t \in 0 .. m - p
    <2> DEFINE Moved(x) == /\ (x * p) % m = (x % q) * p
                           /\ x * p = (x \div q) * m + (x % q) * p
                           /\ (x % q) * p \in 0 .. m - p
    <2>1. \A x \in 0 .. m - 1 : Moved(x)
        BY <1>1, DigitLeft
    <2> HIDE DEF Moved
    <2>2. Moved(u) /\ Moved(j)
        BY <2>1
    <2> QED
        BY <2>2 DEF Moved
<1> HIDE DEF a, b, h, t
<1>4. b + h \in 0 .. m - 1 /\ t \in 0 .. m - 1
    BY <1>1, <1>2, <1>3
<1>5. (u * m + j) * p = a * (m * m) + ((b + h) * m + t)
    <2>1. (u * m + j) * p = (u * p) * m + j * p
        BY <1>1
    <2>2. (a * m + b) * m + (h * m + t) = a * (m * m) + ((b + h) * m + t)
        BY <1>1, <1>2, <1>3
    <2> QED
        BY <1>3, <2>1, <2>2
<1>6. (b + h) * m + t \in 0 .. m * m - 1
    BY <1>1, <1>4, PairInRange
<1>7. ((u * m + j) * p) % (m * m) = (b + h) * m + t
    <2> DEFINE n == m * m
               rest == (b + h) * m + t
    <2>1. n \in Nat \ {0} /\ rest \in 0 .. n - 1 /\ (u * m + j) * p = a * n + rest /\ a \in Int
        BY <1>1, <1>2, <1>5, <1>6
    <2> HIDE DEF n, rest
    <2>2. (a * n + rest) % n = rest
        BY <2>1, DivisionUnique
    <2> QED
        BY <2>1, <2>2 DEF n, rest
<1>8. j \div q = h
    BY DEF h
<1> QED
    BY <1>3, <1>4, <1>7, <1>8 DEF ShiftedLeft

\* A pair shifted to the right: the lower part of the upper digit moves down.
ShiftedRight(m, p, q, u, j) ==
    /\ u \div p \in 0 .. m - 1
    /\ ((u * q) % m) + (j \div p) \in 0 .. m - 1
    /\ (u \div p) * m + (((u * q) % m) + (j \div p)) = (u * m + j) \div p

LEMMA PairRight ==
    ASSUME NEW p \in Nat \ {0}, NEW q \in Nat \ {0}, NEW m, m = p * q,
           NEW u \in 0 .. m - 1, NEW j \in 0 .. m - 1
    PROVE  ShiftedRight(m, p, q, u, j)
<1> DEFINE a == u \div p
           b == (u % p) * q
           h == j \div p
           t == j % p
<1>1. m \in Nat \ {0} /\ m = q * p
    OBVIOUS
<1>2. a \in 0 .. q - 1 /\ h \in 0 .. q - 1 /\ t \in 0 .. p - 1 /\ j = h * p + t
    BY <1>1, DivisionOf
<1>3. (u * q) % m = b /\ u * q = a * m + b /\ b \in 0 .. m - q
    <2> DEFINE Moved(x) == /\ (x * q) % m = (x % p) * q
                           /\ x * q = (x \div p) * m + (x % p) * q
                           /\ (x % p) * q \in 0 .. m - q
    <2>1. \A x \in 0 .. m - 1 : Moved(x)
        BY <1>1, DigitLeft
    <2> HIDE DEF Moved
    <2>2. Moved(u)
        BY <2>1
    <2> QED
        BY <2>2 DEF Moved
<1> HIDE DEF a, b, h, t
<1>4. b + h \in 0 .. m - 1 /\ a \in 0 .. m - 1
    <2>1. q <= m
        BY <1>1
    <2> QED
        BY <1>1, <1>2, <1>3, <2>1
<1>5. u * m + j = (a * m + (b + h)) * p + t
    <2>1. u * m = (u * q) * p
        BY <1>1
    <2>2. (a * m + b) * p + (h * p + t) = (a * m + (b + h)) * p + t
        BY <1>1, <1>2, <1>3
    <2> QED
        BY <1>2, <1>3, <2>1, <2>2
<1>6. (u * m + j) \div p = a * m + (b + h)
    <2> DEFINE n == a * m + (b + h)
    <2>1. n \in Int /\ u * m + j = n * p + t
        BY <1>1, <1>2, <1>3, <1>5
    <2> HIDE DEF n
    <2>2. (n * p + t) \div p = n
        BY <1>2, <2>1, DivisionUnique
    <2> QED
        BY <2>1, <2>2 DEF n
<1>7. u \div p = a /\ j \div p = h
    BY DEF a, h
<1> QED
    BY <1>3, <1>4, <1>6, <1>7 DEF ShiftedRight

\* A pair shifted by a whole digit and more.
ShiftedAcross(m, p, u, j) ==
    /\ (j * p) % m \in 0 .. m - 1
    /\ u \div p \in 0 .. m - 1
    /\ ((j * p) % m) * m = ((u * m + j) * (m * p)) % (m * m)
    /\ u \div p = (u * m + j) \div (m * p)

LEMMA PairAcross ==
    ASSUME NEW m \in Nat \ {0}, NEW p \in Nat \ {0},
           NEW u \in 0 .. m - 1, NEW j \in 0 .. m - 1
    PROVE  ShiftedAcross(m, p, u, j)
<1> DEFINE a == (j * p) \div m
           t == (j * p) % m
           h == u \div p
           k == u % p
<1>1. a \in Int /\ t \in 0 .. m - 1 /\ j * p = a * m + t
    <2> DEFINE n == j * p
    <2>1. n \in Nat
        OBVIOUS
    <2> HIDE DEF n
    <2>2. n \div m \in Int /\ n % m \in 0 .. m - 1 /\ n = (n \div m) * m + (n % m)
        BY <2>1
    <2> QED
        BY <2>2 DEF n
<1>2. h \in 0 .. m - 1 /\ k \in 0 .. p - 1 /\ u = h * p + k
    <2>1. u \in 0 .. m * p - 1
        <3>1. m <= m * p
            OBVIOUS
        <3> QED
            BY <3>1
    <2> QED
        BY <2>1, DivisionOf
<1> HIDE DEF a, t, h, k
<1>3. ((u * m + j) * (m * p)) % (m * m) = t * m
    <2> DEFINE n == m * m
               q == u * p + a
    <2>1. (u * m + j) * (m * p) = (u * p) * n + (j * p) * m
        OBVIOUS
    <2>2. (a * m + t) * m = a * n + t * m
        BY <1>1
    <2>3. (u * p) * n + a * n = q * n
        BY <1>1
    <2>4. t * m \in 0 .. n - 1
        <3>1. t * m <= (m - 1) * m /\ (m - 1) * m = n - m
            BY <1>1
        <3> QED
            BY <1>1, <3>1
    <2>5. n \in Nat \ {0} /\ q \in Int /\ (u * m + j) * (m * p) = q * n + t * m
        BY <1>1, <2>1, <2>2, <2>3
    <2> HIDE DEF n, q
    <2>6. (q * n + t * m) % n = t * m
        BY <2>4, <2>5, DivisionUnique
    <2> QED
        BY <2>5, <2>6 DEF n
<1>4. (u * m + j) \div (m * p) = h
    <2> DEFINE n == m * p
               rest == k * m + j
    <2>1. u * m + j = h * n + rest
        BY <1>2
    <2>2. rest \in 0 .. n - 1
        <3>1. k * m <= (p - 1) * m /\ (p - 1) * m = n - m
            BY <1>2
        <3> QED
            BY <1>2, <3>1
    <2>3. n \in Nat \ {0} /\ h \in Int
        BY <1>2
    <2> HIDE DEF n, rest
    <2>4. (h * n + rest) \div n = h
        BY <2>2, <2>3, DivisionUnique
    <2> QED
        BY <2>1, <2>4 DEF n
<1>5. (j * p) % m = t /\ u \div p = h
    BY DEF t, h
<1> QED
    BY <1>1, <1>2, <1>3, <1>4, <1>5 DEF ShiftedAcross

\* A power split into two.
LEMMA PowerOf ==
    ASSUME WordAssumption, PowerLaws, NEW k \in 0 .. 4 * W, NEW v \in 0 .. k
    PROVE  2^v \in Nat \ {0} /\ 2^(k - v) \in Nat \ {0} /\ 2^k = 2^v * 2^(k - v)
<1>1. v \in 0 .. 4 * W /\ k - v \in 0 .. 4 * W /\ v + (k - v) = k
    BY DEF WordAssumption
<1>2. 2^v \in Nat \ {0} /\ 2^(k - v) \in Nat \ {0} /\ 2^(v + (k - v)) = 2^v * 2^(k - v)
    BY <1>1 DEF PowerLaws
<1> QED
    BY <1>1, <1>2

\* shiftl128 multiplies by a power of two, modulo the square of the base, and
\* shiftr128 divides by it, at every distance below the width.
LEMMA Shift128 ==
    ASSUME WordAssumption, PowerLaws, NEW n \in U128, NEW v \in 0 .. 2 * W - 1
    PROVE  /\ Shiftl128(n, v) \in U128
           /\ Value128(Shiftl128(n, v)) = (Value128(n) * 2^v) % Base128
           /\ Shiftr128(n, v) \in U128
           /\ Value128(Shiftr128(n, v)) = Value128(n) \div 2^v
<1> DEFINE u == Upper(n)
           j == Lower(n)
<1>1. W \in Nat \ {0} /\ Base \in Nat \ {0} /\ Base128 \in Nat \ {0}
    BY Bases
<1>2. u \in 0 .. Base - 1 /\ j \in 0 .. Base - 1 /\ Value128(n) = u * Base + j
      /\ Value128(n) \in 0 .. Base128 - 1
    BY <1>1, Parts128 DEF Value128
<1>3. \A x, y \in 0 .. Base - 1 : <<x, y>> \in U128 /\ Value128(<<x, y>>) = x * Base + y
    BY DEF U128, Word, Value128, Upper, Lower
<1> HIDE DEF u, j
<1>4. CASE v = 0
    <2>1. Shiftl128(n, v) = n /\ Shiftr128(n, v) = n
        BY <1>1, <1>4 DEF Shiftl128, Shiftr128
    <2>2. 2^v = 1
        BY <1>4
    <2> QED
        BY <1>1, <1>2, <2>1, <2>2
<1>5. CASE v \in 1 .. W - 1
    <2> DEFINE p == 2^v
               q == 2^(W - v)
    <2>1. p \in Nat \ {0} /\ q \in Nat \ {0} /\ Base = p * q
        <3>1. W \in 0 .. 4 * W /\ v \in 0 .. W
            BY <1>1, <1>5
        <3> QED
            BY <3>1, PowerOf DEF Base
    <2>2. /\ Shiftl128(n, v) = <<(((u * p) % Base) + (j \div q)) % Base, (j * p) % Base>>
          /\ Shiftr128(n, v) = <<u \div p, (((u * q) % Base) + (j \div p)) % Base>>
        BY <1>1, <1>5 DEF Shiftl128, Shiftr128, WordLeft, WordRight, Wrapped, u, j
    <2> HIDE DEF p, q
    <2>3. ShiftedLeft(Base, p, q, u, j)
        BY <1>2, <2>1, PairLeft
    <2>4. ShiftedRight(Base, p, q, u, j)
        BY <1>2, <2>1, PairRight
    <2>6. \A x \in 0 .. Base - 1 : x % Base = x
        BY <1>1
    <2> DEFINE lu == ((u * p) % Base) + (j \div q)
               ll == (j * p) % Base
               ru == u \div p
               rl == ((u * q) % Base) + (j \div p)
    <2>7. /\ Shiftl128(n, v) = <<lu, ll>> /\ lu \in 0 .. Base - 1 /\ ll \in 0 .. Base - 1
          /\ lu * Base + ll = (Value128(n) * p) % Base128
        <3>1. lu \in 0 .. Base - 1 /\ ll \in 0 .. Base - 1
            BY <2>3 DEF ShiftedLeft
        <3>2. lu * Base + ll = ((u * Base + j) * p) % (Base * Base)
            BY <2>3 DEF ShiftedLeft
        <3>3. Shiftl128(n, v) = <<lu % Base, ll>>
            BY <2>2
        <3> HIDE DEF lu, ll
        <3>4. lu % Base = lu
            BY <2>6, <3>1
        <3> QED
            BY ONLY <1>2, <3>1, <3>2, <3>3, <3>4 DEF Base128
    <2>8. /\ Shiftr128(n, v) = <<ru, rl>> /\ ru \in 0 .. Base - 1 /\ rl \in 0 .. Base - 1
          /\ ru * Base + rl = Value128(n) \div p
        <3>1. ru \in 0 .. Base - 1 /\ rl \in 0 .. Base - 1
            BY <2>4 DEF ShiftedRight
        <3>2. ru * Base + rl = (u * Base + j) \div p
            BY <2>4 DEF ShiftedRight
        <3>3. Shiftr128(n, v) = <<ru, rl % Base>>
            BY <2>2
        <3> HIDE DEF ru, rl
        <3>4. rl % Base = rl
            BY <2>6, <3>1
        <3> QED
            BY ONLY <1>2, <3>1, <3>2, <3>3, <3>4
    <2> HIDE DEF lu, ll, ru, rl
    <2>9. 2^v = p
        BY DEF p
    <2> QED
        BY ONLY <1>3, <2>7, <2>8, <2>9
<1>6. CASE v = W
    <2>1. Shiftl128(n, v) = <<j, 0>> /\ Shiftr128(n, v) = <<0, u>>
        BY <1>1, <1>6 DEF Shiftl128, Shiftr128, u, j
    <2>2. (j * 1) % Base = j /\ u \div 1 = u
        BY <1>1, <1>2
    <2>4. ShiftedAcross(Base, 1, u, j)
        BY <1>1, <1>2, PairAcross
    <2>5. Base * 1 = 2^v
        BY <1>1, <1>6 DEF Base
    <2>6. j * Base = (Value128(n) * 2^v) % Base128 /\ u = Value128(n) \div 2^v
        BY ONLY <1>2, <2>2, <2>4, <2>5 DEF Base128, ShiftedAcross
    <2>7. j * Base + 0 = j * Base /\ 0 * Base + u = u /\ 0 \in 0 .. Base - 1
        BY <1>1, <1>2
    <2> QED
        BY ONLY <1>2, <1>3, <2>1, <2>6, <2>7
<1>7. CASE v \in W + 1 .. 2 * W - 1
    <2> DEFINE p == 2^(v - W)
    <2>1. p \in Nat \ {0} /\ 2^v = Base * p
        <3>1. v \in 0 .. 4 * W /\ W \in 0 .. v
            BY <1>1, <1>7
        <3> QED
            BY <3>1, PowerOf DEF Base
    <2>2. Shiftl128(n, v) = <<(j * p) % Base, 0>> /\ Shiftr128(n, v) = <<0, u \div p>>
        BY <1>1, <1>7 DEF Shiftl128, Shiftr128, WordLeft, WordRight, Wrapped, u, j
    <2> HIDE DEF p
    <2>4. ShiftedAcross(Base, p, u, j)
        BY <1>1, <1>2, <2>1, PairAcross
    <2> DEFINE lu == (j * p) % Base
               rl == u \div p
    <2>5. /\ Shiftl128(n, v) = <<lu, 0>> /\ Shiftr128(n, v) = <<0, rl>>
          /\ lu \in 0 .. Base - 1 /\ rl \in 0 .. Base - 1
          /\ lu * Base = ((u * Base + j) * (Base * p)) % (Base * Base)
          /\ rl = (u * Base + j) \div (Base * p)
        BY ONLY <2>2, <2>4 DEF ShiftedAcross
    <2> HIDE DEF lu, rl
    <2>6. lu * Base = (Value128(n) * 2^v) % Base128 /\ rl = Value128(n) \div 2^v
        BY ONLY <1>2, <2>1, <2>5 DEF Base128
    <2>7. lu * Base + 0 = lu * Base /\ 0 * Base + rl = rl /\ 0 \in 0 .. Base - 1
        BY <1>1, <2>5
    <2> QED
        BY ONLY <1>3, <2>5, <2>6, <2>7
<1> QED
    BY <1>1, <1>4, <1>5, <1>6, <1>7

\* shiftl256 and shiftr256 multiply and divide by the power of two, whatever the
\* distance and the words it falls across; from the width on nothing is left.
THEOREM ShiftsExact ==
    ASSUME WordAssumption, PowerLaws, NEW n \in U256, NEW v \in Nat
    PROVE  /\ Shiftl256(n, v) \in U256 /\ Shiftr256(n, v) \in U256
           /\ v < 4 * W =>
                 /\ Value256(Shiftl256(n, v)) = (Value256(n) * 2^v) % Base256
                 /\ Value256(Shiftr256(n, v)) = Value256(n) \div 2^v
           /\ v >= 4 * W => Shiftl256(n, v) = Zero256 /\ Shiftr256(n, v) = Zero256
<1> DEFINE a == Upper(n)
           b == Lower(n)
           u == Value128(a)
           j == Value128(b)
<1>1. /\ W \in Nat \ {0} /\ Base \in Nat \ {0} /\ Base128 \in Nat \ {0}
      /\ 2^(2 * W) = Base128
    BY Bases
<1>2. /\ a \in U128 /\ b \in U128
      /\ u \in 0 .. Base128 - 1 /\ j \in 0 .. Base128 - 1
      /\ Value256(n) = u * Base128 + j
    BY <1>1, Parts256
<1>3. \A x, y \in U128 : /\ <<x, y>> \in U256
                         /\ Value256(<<x, y>>) = Value128(x) * Base128 + Value128(y)
    BY DEF U256, Value256, Upper, Lower, Base128
<1>4. Zero128 \in U128 /\ Value128(Zero128) = 0
    BY <1>1 DEF Zero128, U128, Word, Value128, Upper, Lower
<1>5. n = <<a, b>>
    BY <1>1, Parts256
<1> HIDE DEF a, b
<1>6. CASE v = 0
    <2>1. Shiftl256(n, v) = n /\ Shiftr256(n, v) = n
        BY <1>1, <1>6 DEF Shiftl256, Shiftr256
    <2>2. 2^v = 1
        BY <1>6
    <2>3. Value256(n) \in 0 .. Base256 - 1
        <3> HIDE DEF u, j
        <3>1. u * Base128 + j \in 0 .. Base128 * Base128 - 1
            BY <1>1, <1>2, PairInRange
        <3> QED
            BY ONLY <1>2, <3>1 DEF Base256
    <2>4. (Value256(n) * 1) % Base256 = Value256(n) /\ Value256(n) \div 1 = Value256(n)
        <3> DEFINE x == Value256(n)
                   m == Base256
        <3>1. x \in 0 .. m - 1 /\ m \in Int
            BY <2>3, <1>1 DEF Base256
        <3> HIDE DEF x, m
        <3>2. (x * 1) % m = x /\ x \div 1 = x
            BY <3>1
        <3> QED
            BY <3>2 DEF x, m
    <2> QED
        BY <1>1, <1>6, <2>1, <2>2, <2>4
<1>7. CASE v \in 1 .. 2 * W - 1
    <2> DEFINE p == 2^v
               q == 2^(2 * W - v)
               au == Shiftl128(a, v)
               ad == Shiftr128(b, 2 * W - v)
               bu == Shiftl128(a, 2 * W - v)
               bd == Shiftr128(b, v)
               sl == Add128(au, ad)
               sr == Add128(bd, bu)
    <2>1. p \in Nat \ {0} /\ q \in Nat \ {0} /\ Base128 = p * q
        <3>1. 2 * W \in 0 .. 4 * W /\ v \in 0 .. 2 * W
            BY <1>1, <1>7
        <3> QED
            BY <1>1, <3>1, PowerOf
    <2>2. v \in 0 .. 2 * W - 1 /\ 2 * W - v \in 0 .. 2 * W - 1
        BY <1>1, <1>7
    <2>3. /\ Shiftl256(n, v) = <<sl, Shiftl128(b, v)>>
          /\ Shiftr256(n, v) = <<Shiftr128(a, v), sr>>
        BY <1>1, <1>7 DEF Shiftl256, Shiftr256, a, b
    <2>4. /\ au \in U128 /\ Value128(au) = (u * p) % Base128
          /\ bd \in U128 /\ Value128(bd) = j \div p
          /\ ad \in U128 /\ Value128(ad) = j \div q
          /\ bu \in U128 /\ Value128(bu) = (u * q) % Base128
          /\ Shiftl128(b, v) \in U128 /\ Value128(Shiftl128(b, v)) = (j * p) % Base128
          /\ Shiftr128(a, v) \in U128 /\ Value128(Shiftr128(a, v)) = u \div p
        BY <1>2, <2>2, Shift128
    <2> HIDE DEF p, q, u, j, au, ad, bu, bd
    <2>5. ShiftedLeft(Base128, p, q, u, j)
        BY <1>2, <2>1, PairLeft
    <2>6. ShiftedRight(Base128, p, q, u, j)
        BY <1>2, <2>1, PairRight
    <2>7. \A x \in 0 .. Base128 - 1 : x % Base128 = x
        BY <1>1
    <2>8. /\ sl \in U128 /\ Value128(sl) = ((u * p) % Base128) + (j \div q)
          /\ sr \in U128 /\ Value128(sr) = ((u * q) % Base128) + (j \div p)
        <3> DEFINE x == (u * p) % Base128
                   y == j \div q
                   z == (u * q) % Base128
                   t == j \div p
        <3>1. x + y \in 0 .. Base128 - 1 /\ z + t \in 0 .. Base128 - 1
            BY <2>5, <2>6 DEF ShiftedLeft, ShiftedRight
        <3>2. /\ Value128(au) = x /\ Value128(ad) = y
              /\ Value128(bu) = z /\ Value128(bd) = t
            BY <2>4
        <3>3. x \in Int /\ y \in Int /\ z \in Int /\ t \in Int
            <4>1. /\ Value128(au) \in Int /\ Value128(ad) \in Int
                  /\ Value128(bu) \in Int /\ Value128(bd) \in Int
                BY <1>1, <2>4, Parts128
            <4> HIDE DEF x, y, z, t
            <4> QED
                BY ONLY <3>2, <4>1
        <3>4. /\ sl \in U128 /\ Value128(sl) = (Value128(au) + Value128(ad)) % Base128
              /\ sr \in U128 /\ Value128(sr) = (Value128(bd) + Value128(bu)) % Base128
            BY <1>1, <2>4, Sum128
        <3> HIDE DEF x, y, z, t, sl, sr
        <3>5. (x + y) % Base128 = x + y /\ t + z = z + t /\ (z + t) % Base128 = z + t
            BY ONLY <2>7, <3>1, <3>3
        <3>6. Value128(sl) = x + y /\ Value128(sr) = z + t
            BY ONLY <3>2, <3>4, <3>5
        <3> QED
            BY <3>4, <3>6 DEF x, y, z, t
    <2> HIDE DEF sl, sr
    <2>9. /\ Shiftl256(n, v) \in U256
          /\ Value256(Shiftl256(n, v)) = (Value256(n) * p) % Base256
        <3>1. Value256(<<sl, Shiftl128(b, v)>>)
                  = (((u * p) % Base128) + (j \div q)) * Base128 + ((j * p) % Base128)
            BY ONLY <1>3, <2>4, <2>8
        <3> QED
            BY ONLY <1>2, <1>3, <2>3, <2>4, <2>5, <2>8, <3>1 DEF ShiftedLeft, Base256
    <2>10. /\ Shiftr256(n, v) \in U256
           /\ Value256(Shiftr256(n, v)) = Value256(n) \div p
        <3>1. Value256(<<Shiftr128(a, v), sr>>)
                  = (u \div p) * Base128 + (((u * q) % Base128) + (j \div p))
            BY ONLY <1>3, <2>4, <2>8
        <3> QED
            BY ONLY <1>2, <1>3, <2>3, <2>4, <2>6, <2>8, <3>1 DEF ShiftedRight
    <2>11. 2^v = p /\ ~(v >= 4 * W)
        BY <1>1, <1>7 DEF p
    <2> QED
        BY ONLY <2>9, <2>10, <2>11
<1>8. CASE v = 2 * W
    <2>1. /\ Shiftl256(n, v) = <<b, Zero128>> /\ Shiftr256(n, v) = <<Zero128, a>>
          /\ v < 4 * W /\ ~(v >= 4 * W)
        BY <1>1, <1>8 DEF Shiftl256, Shiftr256, a, b
    <2> HIDE DEF u, j
    <2>2. (j * 1) % Base128 = j /\ u \div 1 = u
        BY <1>1, <1>2
    <2>3. ShiftedAcross(Base128, 1, u, j)
        BY <1>1, <1>2, PairAcross
    <2>4. Base128 * 1 = 2^v
        BY <1>1, <1>8
    <2>5. j * Base128 = (Value256(n) * 2^v) % Base256 /\ u = Value256(n) \div 2^v
        BY ONLY <1>2, <2>2, <2>3, <2>4 DEF Base256, ShiftedAcross
    <2>6. j * Base128 + 0 = j * Base128 /\ 0 * Base128 + u = u
        BY <1>1, <1>2
    <2>7. u = Value128(a) /\ j = Value128(b)
        BY DEF u, j
    <2> QED
        BY ONLY <1>2, <1>3, <1>4, <2>1, <2>5, <2>6, <2>7
<1>9. CASE v \in 2 * W + 1 .. 4 * W - 1
    <2> DEFINE p == 2^(v - 2 * W)
               lu == Shiftl128(b, v - 2 * W)
               rl == Shiftr128(a, v - 2 * W)
    <2>1. p \in Nat \ {0} /\ 2^v = Base128 * p
        <3>1. v \in 0 .. 4 * W /\ 2 * W \in 0 .. v
            BY <1>1, <1>9
        <3> QED
            BY <1>1, <3>1, PowerOf
    <2>2. /\ Shiftl256(n, v) = <<lu, Zero128>> /\ Shiftr256(n, v) = <<Zero128, rl>>
          /\ v < 4 * W /\ ~(v >= 4 * W)
        BY <1>1, <1>9 DEF Shiftl256, Shiftr256, a, b
    <2>3. v - 2 * W \in 0 .. 2 * W - 1
        BY <1>1, <1>9
    <2>4. /\ lu \in U128 /\ Value128(lu) = (j * p) % Base128
          /\ rl \in U128 /\ Value128(rl) = u \div p
        BY <1>2, <2>3, Shift128
    <2> HIDE DEF p, lu, rl, u, j
    <2>5. ShiftedAcross(Base128, p, u, j)
        BY <1>1, <1>2, <2>1, PairAcross
    <2>6. /\ Value128(lu) \in 0 .. Base128 - 1 /\ Value128(rl) \in 0 .. Base128 - 1
          /\ Value128(lu) * Base128 = ((u * Base128 + j) * (Base128 * p)) % (Base128 * Base128)
          /\ Value128(rl) = (u * Base128 + j) \div (Base128 * p)
        BY ONLY <2>4, <2>5 DEF ShiftedAcross
    <2>7. /\ Value128(lu) * Base128 = (Value256(n) * 2^v) % Base256
          /\ Value128(rl) = Value256(n) \div 2^v
        BY ONLY <1>2, <2>1, <2>6 DEF Base256
    <2>8. /\ Value128(lu) * Base128 + 0 = Value128(lu) * Base128
          /\ 0 * Base128 + Value128(rl) = Value128(rl)
        BY <1>1, <2>6
    <2> QED
        BY ONLY <1>3, <1>4, <2>2, <2>4, <2>7, <2>8
<1>10. CASE v >= 4 * W
    <2>1. Shiftl256(n, v) = Zero256 /\ Shiftr256(n, v) = Zero256
        BY <1>1, <1>10 DEF Shiftl256, Shiftr256
    <2> QED
        BY <1>1, <1>3, <1>4, <1>10, <2>1 DEF Zero256
<1> QED
    BY <1>1, <1>6, <1>7, <1>8, <1>9, <1>10
-----------------------------------------------------------------------------
(* Bits.                                                                   *)

\* Powers grow.
LEMMA PowerOrder ==
    ASSUME WordAssumption, PowerLaws, NEW i \in 0 .. 4 * W, NEW j \in 0 .. 4 * W
    PROVE  i <= j <=> 2^i <= 2^j
<1>1. ASSUME NEW h \in 0 .. 4 * W, NEW k \in 0 .. 4 * W, h < k
      PROVE  2^h < 2^k
    <2>1. /\ h \in 0 .. k /\ 1 \in 0 .. k - h /\ k - h \in 0 .. 4 * W
        BY <1>1 DEF WordAssumption
    <2>2. 2^h \in Nat \ {0} /\ 2^k = 2^h * 2^(k - h)
        BY <2>1, PowerOf
    <2>3. 2^(k - h) = 2 * 2^(k - h - 1) /\ 2^(k - h - 1) \in Nat \ {0}
        <3>1. 2^1 = 2
            OBVIOUS
        <3>2. 2^(k - h) = 2^1 * 2^(k - h - 1) /\ 2^(k - h - 1) \in Nat \ {0}
            BY <2>1, PowerOf
        <3> QED
            BY ONLY <3>1, <3>2
    <2> DEFINE p == 2^h
               q == 2^(k - h)
               t == 2^(k - h - 1)
    <2> HIDE DEF p, q, t
    <2>4. p \in Nat \ {0} /\ 2^k = p * q /\ q = 2 * t /\ t \in Nat \ {0}
        BY <2>2, <2>3 DEF p, q, t
    <2>5. p < p * q
        BY <2>4
    <2> QED
        BY <2>4, <2>5 DEF p
<1>2. \A h \in 0 .. 4 * W : 2^h \in Nat
    BY DEF PowerLaws
<1> QED
    BY <1>1, <1>2

\* The width of a number: the shifts that leave 0.
IsWidth(k, x) == x < 2^k /\ (k > 0 => x >= 2^(k - 1))

\* A word has a width, so that WordBits chooses it.
LEMMA BitsOfWord ==
    ASSUME WordAssumption, PowerLaws, NEW x \in Word
    PROVE  WordBits(x) \in 0 .. W /\ IsWidth(WordBits(x), x)
<1> DEFINE T == {k \in 0 .. W : x < 2^k}
           Less == OpToRel(<, Nat)
<1>1. W \in Nat \ {0} /\ x \in Nat /\ x < 2^W
    BY Bases DEF Word, Base
<1>2. PICK k \in T : \A j \in T : ~(<<j, k>> \in Less)
    <2>1. T \subseteq Nat /\ T # {}
        BY <1>1
    <2>2. IsWellFoundedOn(Less, Nat)
        BY NatLessThanWellFounded
    <2> HIDE DEF T, Less
    <2> QED
        BY <2>1, <2>2, WFMin
<1>3. \A j \in T : ~(j < k)
    <2>1. \A j \in T : <<j, k>> \in Nat \X Nat
        BY <1>1
    <2>2. \A s \in Nat \X Nat : s[1] < s[2] => s \in Less
        BY DEF OpToRel
    <2> HIDE DEF T, Less
    <2>3. ASSUME NEW j \in T, j < k PROVE FALSE
        <3> DEFINE s == <<j, k>>
        <3>1. s[1] < s[2]
            BY <2>3
        <3> QED
            BY <1>2, <2>1, <2>2, <2>3, <3>1
    <2> QED
        BY <2>3
<1>4. k > 0 => x >= 2^(k - 1)
    <2>1. k > 0 => k - 1 \in 0 .. W /\ k - 1 < k /\ 2^(k - 1) \in Nat
        BY <1>1 DEF PowerLaws
    <2> QED
        BY <1>1, <1>3, <2>1
<1> QED
    BY <1>4 DEF WordBits, IsWidth

\* The width of a pair is that of its upper digit and a whole digit.
LEMMA PairWidth ==
    ASSUME WordAssumption, PowerLaws, NEW d \in 0 .. 2 * W, NEW k \in 0 .. d,
           NEW u \in 0 .. 2^d - 1, NEW j \in 0 .. 2^d - 1, u # 0, IsWidth(k, u)
    PROVE  IsWidth(d + k, u * 2^d + j)
<1>1. W \in Nat \ {0}
    BY Bases
<1>2. k > 0
    <2>1. CASE k = 0
        <3>1. u < 2^0
            BY <2>1 DEF IsWidth
        <3>2. 2^0 = 1
            OBVIOUS
        <3>3. u \in Nat
            OBVIOUS
        <3> QED
            BY ONLY u # 0, <3>1, <3>2, <3>3
    <2> QED
        BY <1>1, <2>1
<1>3. /\ 2^d \in Nat \ {0} /\ 2^k \in Nat \ {0} /\ 2^(k - 1) \in Nat \ {0}
      /\ 2^(d + k) = 2^d * 2^k /\ 2^(d + (k - 1)) = 2^d * 2^(k - 1)
    <2>1. d \in 0 .. 4 * W /\ k \in 0 .. 4 * W /\ k - 1 \in 0 .. 4 * W
        BY <1>1, <1>2
    <2> QED
        BY <2>1 DEF PowerLaws
<1>4. u < 2^k /\ u >= 2^(k - 1) /\ d + (k - 1) = d + k - 1
    BY <1>2 DEF IsWidth
<1> DEFINE m == 2^d
           p == 2^k
           t == 2^(k - 1)
<1> HIDE DEF m, p, t
<1>5. /\ m \in Nat \ {0} /\ p \in Nat \ {0} /\ t \in Nat \ {0}
      /\ u \in Nat /\ j \in 0 .. m - 1 /\ u + 1 <= p /\ t <= u
    BY <1>3, <1>4 DEF m, p, t
<1>6. u * m + j < m * p
    <2>1. (u + 1) * m <= p * m
        BY ONLY <1>5
    <2> QED
        BY ONLY <1>5, <2>1
<1>7. u * m + j >= m * t
    <2>1. t * m <= u * m
        BY ONLY <1>5
    <2> QED
        BY ONLY <1>5, <2>1
<1>8. 2^(d + k) = m * p /\ 2^(d + k - 1) = m * t
    BY <1>3, <1>4 DEF m, p, t
<1> QED
    BY <1>6, <1>7, <1>8 DEF IsWidth, m

LEMMA BitsOf128 ==
    ASSUME WordAssumption, PowerLaws, NEW n \in U128
    PROVE  Bits128(n) \in 0 .. 2 * W /\ IsWidth(Bits128(n), Value128(n))
<1> DEFINE u == Upper(n)
           j == Lower(n)
<1>1. W \in Nat \ {0} /\ Base \in Nat \ {0} /\ Base = 2^W
    BY Bases DEF Base
<1>2. u \in Word /\ j \in Word /\ Value128(n) = u * Base + j
    BY <1>1, Parts128 DEF Value128, Word
<1>3. CASE u # 0
    <2>1. Bits128(n) = W + WordBits(u)
        BY <1>3 DEF Bits128
    <2>2. WordBits(u) \in 0 .. W /\ IsWidth(WordBits(u), u)
        BY <1>2, BitsOfWord
    <2>3. W \in 0 .. 2 * W /\ u \in 0 .. 2^W - 1 /\ j \in 0 .. 2^W - 1
        BY <1>1, <1>2 DEF Word
    <2> HIDE DEF u, j
    <2>4. IsWidth(W + WordBits(u), u * 2^W + j)
        BY <1>3, <2>2, <2>3, PairWidth
    <2> QED
        BY <1>1, <1>2, <2>1, <2>2, <2>4
<1>4. CASE u = 0
    <2>1. Bits128(n) = WordBits(j) /\ Value128(n) = j
        BY <1>1, <1>2, <1>4 DEF Bits128, Word
    <2> QED
        BY <1>1, <1>2, <2>1, BitsOfWord
<1> QED
    BY <1>3, <1>4

\* bits256 is the width of the number, whichever word is the highest set.
LEMMA BitsOf256 ==
    ASSUME WordAssumption, PowerLaws, NEW n \in U256
    PROVE  Bits256(n) \in 0 .. 4 * W /\ IsWidth(Bits256(n), Value256(n))
<1> DEFINE a == Upper(n)
           b == Lower(n)
           u == Value128(a)
           j == Value128(b)
<1>1. /\ W \in Nat \ {0} /\ Base \in Nat \ {0} /\ Base128 \in Nat \ {0}
      /\ 2^(2 * W) = Base128
    BY Bases
<1>2. /\ a \in U128 /\ b \in U128
      /\ u \in 0 .. Base128 - 1 /\ j \in 0 .. Base128 - 1
      /\ Value256(n) = u * Base128 + j
    BY <1>1, Parts256
<1>3. a = Zero128 <=> u = 0
    <2>1. Zero128 \in U128 /\ Value128(Zero128) = 0
        BY <1>1 DEF Zero128, U128, Word, Value128, Upper, Lower
    <2> HIDE DEF a
    <2> QED
        BY <1>1, <1>2, <2>1, Order128
<1>4. CASE u # 0
    <2>1. Bits256(n) = 2 * W + Bits128(a)
        BY <1>3, <1>4 DEF Bits256
    <2>2. Bits128(a) \in 0 .. 2 * W /\ IsWidth(Bits128(a), u)
        BY <1>2, BitsOf128
    <2> HIDE DEF a, b, u, j
    <2>3. /\ 2 * W \in 0 .. 2 * W
          /\ u \in 0 .. 2^(2 * W) - 1 /\ j \in 0 .. 2^(2 * W) - 1
        BY <1>1, <1>2
    <2>4. IsWidth(2 * W + Bits128(a), u * 2^(2 * W) + j)
        BY <1>4, <2>2, <2>3, PairWidth
    <2> QED
        BY <1>1, <1>2, <2>1, <2>2, <2>4
<1>5. CASE u = 0
    <2>1. Bits256(n) = Bits128(b)
        BY <1>3, <1>5 DEF Bits256
    <2>2. u * Base128 + j = j
        <3> HIDE DEF u, j
        <3> QED
            BY <1>1, <1>2, <1>5
    <2>3. Bits128(b) \in 0 .. 2 * W /\ IsWidth(Bits128(b), j)
        BY <1>2, BitsOf128
    <2> QED
        BY <1>1, <1>2, <2>1, <2>2, <2>3
<1> QED
    BY <1>4, <1>5

\* A bit below every bit that is set in a word is added by |.
LEMMA BitOfWord ==
    ASSUME WordAssumption, PowerLaws, OrLaws, NEW x \in Word, NEW i \in 0 .. W - 1,
           NEW c \in Int, x = c * 2^(i + 1)
    PROVE  BitOr(x, 2^i) \in Word /\ BitOr(x, 2^i) = x + 2^i
<1>1. /\ W \in Nat \ {0} /\ i \in 0 .. 4 * W /\ W \in 0 .. 4 * W /\ 1 \in 0 .. 4 * W
    BY Bases
<1>2. 2^i \in Word
    <2>1. 2^i \in Nat \ {0} /\ 2^W \in Nat \ {0} /\ (W <= i <=> 2^W <= 2^i)
        BY <1>1, PowerOrder DEF PowerLaws
    <2> QED
        BY <1>1, <2>1 DEF Word, Base
<1>3. (x \div 2^i) % 2 = 0
    <2>1. 2^(i + 1) = 2^i * 2^1 /\ 2^i \in Nat \ {0}
        BY <1>1 DEF PowerLaws
    <2>2. 2^1 = 2
        OBVIOUS
    <2> DEFINE p == 2^i
    <2> HIDE DEF p
    <2>3. x = c * (p * 2) /\ p \in Nat \ {0}
        BY <2>1, <2>2 DEF p
    <2> DEFINE d == 2 * c
    <2>4. x = d * p + 0 /\ d \in Int /\ d % 2 = 0
        BY <2>3
    <2> HIDE DEF d
    <2>5. (d * p + 0) \div p = d
        BY <2>3, <2>4, DivisionUnique
    <2> QED
        BY <2>4, <2>5 DEF p
<1> QED
    BY <1>2, <1>3 DEF OrLaws

\* What is divisible by a part of the base is so in its lower digit, and what is
\* divisible by the base has no other.
LEMMA DivisiblePair ==
    ASSUME NEW m \in Nat \ {0}, NEW u \in 0 .. m - 1, NEW j \in 0 .. m - 1,
           NEW p \in Nat \ {0}, NEW c \in Int
    PROVE  /\ \A q \in Nat \ {0} : m = p * q /\ u * m + j = c * p => j = (c - u * q) * p
           /\ u * m + j = c * (m * p) => j = 0 /\ u = c * p
<1>1. ASSUME NEW q \in Nat \ {0}, m = p * q, u * m + j = c * p
      PROVE  j = (c - u * q) * p
    <2>1. u * m = (u * q) * p
        BY <1>1
    <2>2. (c - u * q) * p = c * p - (u * q) * p
        OBVIOUS
    <2> QED
        BY <1>1, <2>1, <2>2
<1>2. ASSUME u * m + j = c * (m * p)
      PROVE  j = 0 /\ u = c * p
    <2> DEFINE x == u * m + j
               d == c * p
    <2>1. x = d * m + 0 /\ d \in Int
        BY <1>2
    <2>2. (d * m + 0) % m = 0 /\ (d * m + 0) \div m = d
        <3> HIDE DEF d
        <3> QED
            BY <2>1, DivisionUnique
    <2>3. x % m = j /\ x \div m = u
        BY DivisionUnique
    <2> HIDE DEF x, d
    <2>4. j = 0 /\ u = d
        BY <2>1, <2>2, <2>3
    <2> QED
        BY <2>4 DEF d
<1> QED
    BY <1>1, <1>2

\* A power of two in a pair is in one of its digits.
LEMMA PowerPair ==
    ASSUME NEW m \in Nat \ {0}, NEW u \in 0 .. m - 1, NEW j \in 0 .. m - 1,
           NEW p \in Nat \ {0}
    PROVE  /\ p < m /\ u * m + j = p => u = 0 /\ j = p
           /\ p < m /\ u * m + j = m * p => u = p /\ j = 0
<1>1. ASSUME p < m, u * m + j = p PROVE u = 0 /\ j = p
    <2>1. 0 \in 0 .. m - 1 /\ p \in 0 .. m - 1 /\ u * m + j = 0 * m + p
        BY <1>1
    <2> QED
        BY <2>1, PairOrder
<1>2. ASSUME p < m, u * m + j = m * p PROVE u = p /\ j = 0
    <2>1. 0 \in 0 .. m - 1 /\ p \in 0 .. m - 1 /\ u * m + j = p * m + 0
        BY <1>2
    <2> QED
        BY <2>1, PairOrder
<1> QED
    BY <1>1, <1>2

\* The same in a pair of words.
LEMMA BitOf128 ==
    ASSUME WordAssumption, PowerLaws, OrLaws, NEW a \in U128, NEW b \in U128,
           NEW k \in 0 .. 2 * W - 1, Value128(b) = 2^k,
           NEW c \in Int, Value128(a) = c * 2^(k + 1)
    PROVE  Or128(a, b) \in U128 /\ Value128(Or128(a, b)) = Value128(a) + 2^k
<1> DEFINE u == Upper(a)
           j == Lower(a)
           v == Upper(b)
           w == Lower(b)
<1>1. W \in Nat \ {0} /\ Base \in Nat \ {0} /\ Base = 2^W
    BY Bases DEF Base
<1>2. /\ u \in 0 .. Base - 1 /\ j \in 0 .. Base - 1 /\ Value128(a) = u * Base + j
      /\ v \in 0 .. Base - 1 /\ w \in 0 .. Base - 1 /\ Value128(b) = v * Base + w
    BY <1>1, Parts128 DEF Value128
<1>3. Or128(a, b) = <<BitOr(u, v), BitOr(j, w)>>
    BY DEF Or128
<1>4. \A x \in 0 .. Base - 1 : BitOr(x, 0) = x
    BY DEF OrLaws, Word
<1>5. \A x, y \in 0 .. Base - 1 : <<x, y>> \in U128 /\ Value128(<<x, y>>) = x * Base + y
    BY DEF U128, Word, Value128, Upper, Lower
<1> HIDE DEF u, j, v, w
<1>6. CASE k \in 0 .. W - 1
    <2> DEFINE p == 2^k
               t == 2^(k + 1)
               q == 2^(W - (k + 1))
    <2>1. p \in Nat \ {0} /\ t \in Nat \ {0} /\ q \in Nat \ {0} /\ Base = t * q /\ p < Base
        <3>1. k \in 0 .. 4 * W /\ W \in 0 .. 4 * W /\ k + 1 \in 0 .. W
            BY <1>1, <1>6
        <3>2. p \in Nat \ {0}
            BY <3>1 DEF PowerLaws
        <3>3. t \in Nat \ {0} /\ q \in Nat \ {0} /\ Base = t * q
            BY <1>1, <3>1, PowerOf
        <3>4. ~(2^W <= p)
            BY <1>1, <1>6, <3>1, PowerOrder
        <3> QED
            BY <1>1, <3>2, <3>3, <3>4
    <2>2. Value128(b) = p /\ Value128(a) = c * t
        OBVIOUS
    <2> HIDE DEF t, q
    <2>3. j = (c - u * q) * t
        BY <1>1, <1>2, <2>1, <2>2, DivisiblePair
    <2>4. v = 0 /\ w = p
        <3> HIDE DEF p
        <3> QED
            BY <1>1, <1>2, <2>1, <2>2, PowerPair
    <2>5. BitOr(j, p) \in Word /\ BitOr(j, p) = j + p
        <3> DEFINE d == c - u * q
        <3>1. d \in Int /\ j \in Word
            BY <1>1, <1>2, <2>1 DEF Word
        <3> HIDE DEF d
        <3> QED
            BY <1>6, <2>3, <3>1, BitOfWord DEF d, t
    <2> HIDE DEF p
    <2>6. Or128(a, b) = <<u, j + p>> /\ j + p \in 0 .. Base - 1
        BY <1>2, <1>3, <1>4, <2>4, <2>5 DEF Word
    <2>7. u * Base + (j + p) = (u * Base + j) + p
        BY <1>1, <1>2, <2>1
    <2> QED
        BY ONLY <1>2, <1>5, <2>2, <2>6, <2>7, Value128(b) = 2^k
<1>7. CASE k \in W .. 2 * W - 1
    <2> DEFINE p == 2^(k - W)
               t == 2^(k - W + 1)
    <2>1. /\ p \in Nat \ {0} /\ t \in Nat \ {0} /\ p < Base
          /\ 2^k = Base * p /\ 2^(k + 1) = Base * t
        <3>1. k \in 0 .. 4 * W /\ k + 1 \in 0 .. 4 * W /\ W \in 0 .. k /\ W \in 0 .. k + 1
              /\ k - W \in 0 .. 4 * W /\ k + 1 - W = k - W + 1 /\ W \in 0 .. 4 * W
            BY <1>1, <1>7
        <3>2. p \in Nat \ {0} /\ 2^k = Base * p
            BY <1>1, <3>1, PowerOf
        <3>3. t \in Nat \ {0} /\ 2^(k + 1) = Base * t
            BY <1>1, <3>1, PowerOf
        <3>4. ~(2^W <= p)
            BY <1>1, <1>7, <3>1, PowerOrder
        <3> QED
            BY <1>1, <3>2, <3>3, <3>4
    <2> HIDE DEF p, t
    <2>2. j = 0 /\ u = c * t
        BY <1>1, <1>2, <2>1, DivisiblePair
    <2>3. v = p /\ w = 0
        BY <1>1, <1>2, <2>1, PowerPair
    <2>4. BitOr(u, p) \in Word /\ BitOr(u, p) = u + p
        <3>1. k - W \in 0 .. W - 1 /\ u \in Word
            BY <1>1, <1>2, <1>7 DEF Word
        <3> QED
            BY <2>2, <3>1, BitOfWord DEF p, t
    <2>5. Or128(a, b) = <<u + p, 0>> /\ u + p \in 0 .. Base - 1 /\ 0 \in 0 .. Base - 1
        BY <1>1, <1>2, <1>3, <1>4, <2>2, <2>3, <2>4 DEF Word
    <2>6. (u + p) * Base + 0 = (u * Base + 0) + Base * p
        BY <1>1, <1>2, <2>1
    <2> QED
        BY ONLY <1>2, <1>5, <2>1, <2>2, <2>5, <2>6
<1> QED
    BY <1>1, <1>6, <1>7

\* or256 adds a bit that is below every bit set, in whichever word it falls.
LEMMA BitOf256 ==
    ASSUME WordAssumption, PowerLaws, OrLaws, NEW a \in U256, NEW b \in U256,
           NEW k \in 0 .. 4 * W - 1, Value256(b) = 2^k,
           NEW c \in Int, Value256(a) = c * 2^(k + 1)
    PROVE  Or256(a, b) \in U256 /\ Value256(Or256(a, b)) = Value256(a) + 2^k
<1> DEFINE au == Upper(a)
           al == Lower(a)
           bu == Upper(b)
           bl == Lower(b)
           u == Value128(au)
           j == Value128(al)
           v == Value128(bu)
           w == Value128(bl)
<1>1. /\ W \in Nat \ {0} /\ Base \in Nat \ {0} /\ Base128 \in Nat \ {0}
      /\ 2^(2 * W) = Base128
    BY Bases
<1>2. /\ au \in U128 /\ al \in U128 /\ bu \in U128 /\ bl \in U128
      /\ u \in 0 .. Base128 - 1 /\ j \in 0 .. Base128 - 1 /\ Value256(a) = u * Base128 + j
      /\ v \in 0 .. Base128 - 1 /\ w \in 0 .. Base128 - 1 /\ Value256(b) = v * Base128 + w
    BY <1>1, Parts256
<1>3. Or256(a, b) = <<Or128(au, bu), Or128(al, bl)>>
    BY DEF Or256
<1>4. /\ \A n \in U128 : Or128(n, Zero128) = n /\ (n = Zero128 <=> Value128(n) = 0)
      /\ Zero128 \in U128
    <2>1. \A x \in Word : BitOr(x, 0) = x
        BY DEF OrLaws
    <2>2. \A n \in U128 : Or128(n, Zero128) = n
        BY <2>1 DEF Or128, Zero128, U128, Upper, Lower
    <2>3. Zero128 \in U128 /\ Value128(Zero128) = 0
        BY <1>1 DEF Zero128, U128, Word, Value128, Upper, Lower
    <2> QED
        BY <1>1, <2>2, <2>3, Order128
<1>5. \A x, y \in U128 : /\ <<x, y>> \in U256
                         /\ Value256(<<x, y>>) = Value128(x) * Base128 + Value128(y)
    BY DEF U256, Value256, Upper, Lower, Base128
<1>6. u = Value128(au) /\ j = Value128(al) /\ v = Value128(bu) /\ w = Value128(bl)
    OBVIOUS
<1> HIDE DEF au, al, bu, bl, u, j, v, w
<1>7. CASE k \in 0 .. 2 * W - 1
    <2> DEFINE p == 2^k
               t == 2^(k + 1)
               q == 2^(2 * W - (k + 1))
    <2>1. /\ p \in Nat \ {0} /\ t \in Nat \ {0} /\ q \in Nat \ {0}
          /\ Base128 = t * q /\ p < Base128
        <3>1. k \in 0 .. 4 * W /\ 2 * W \in 0 .. 4 * W /\ k + 1 \in 0 .. 2 * W
            BY <1>1, <1>7
        <3>2. p \in Nat \ {0}
            BY <3>1 DEF PowerLaws
        <3>3. t \in Nat \ {0} /\ q \in Nat \ {0} /\ Base128 = t * q
            BY <1>1, <3>1, PowerOf
        <3>4. ~(2^(2 * W) <= p)
            BY <1>1, <1>7, <3>1, PowerOrder
        <3> QED
            BY <1>1, <3>2, <3>3, <3>4
    <2>2. Value256(b) = p /\ Value256(a) = c * t
        OBVIOUS
    <2> HIDE DEF t, q
    <2>3. j = (c - u * q) * t
        BY <1>1, <1>2, <2>1, <2>2, DivisiblePair
    <2>4. v = 0 /\ w = p
        <3> HIDE DEF p
        <3> QED
            BY <1>1, <1>2, <2>1, <2>2, PowerPair
    <2>5. Or128(al, bl) \in U128 /\ Value128(Or128(al, bl)) = j + p
        <3> DEFINE d == c - u * q
        <3>1. d \in Int
            BY <1>2, <2>1
        <3> HIDE DEF d
        <3>2. j = d * 2^(k + 1)
            BY <2>3 DEF d, t
        <3>3. Value128(bl) = 2^k /\ Value128(al) = d * 2^(k + 1)
            BY <1>6, <2>4, <3>2
        <3>4. Or128(al, bl) \in U128 /\ Value128(Or128(al, bl)) = Value128(al) + 2^k
            BY ONLY WordAssumption, PowerLaws, OrLaws, <1>2, <1>7, <3>1, <3>3, BitOf128
        <3> QED
            BY <1>6, <3>4
    <2> HIDE DEF p
    <2>6. Or256(a, b) = <<au, Or128(al, bl)>>
        BY <1>2, <1>3, <1>4, <1>6, <2>4
    <2>7. u * Base128 + (j + p) = (u * Base128 + j) + p
        BY <1>1, <1>2, <2>1
    <2> QED
        BY ONLY <1>2, <1>5, <1>6, <2>2, <2>5, <2>6, <2>7, Value256(b) = 2^k
<1>8. CASE k \in 2 * W .. 4 * W - 1
    <2> DEFINE h == k - 2 * W
               p == 2^h
               t == 2^(h + 1)
    <2>1. /\ p \in Nat \ {0} /\ t \in Nat \ {0} /\ p < Base128
          /\ 2^k = Base128 * p /\ 2^(k + 1) = Base128 * t
        <3>1. /\ k \in 0 .. 4 * W /\ k + 1 \in 0 .. 4 * W
              /\ 2 * W \in 0 .. k /\ 2 * W \in 0 .. k + 1
              /\ h \in 0 .. 4 * W /\ k + 1 - 2 * W = h + 1 /\ 2 * W \in 0 .. 4 * W
            BY <1>1, <1>8
        <3>2. p \in Nat \ {0} /\ 2^k = Base128 * p
            BY <1>1, <3>1, PowerOf
        <3>3. t \in Nat \ {0} /\ 2^(k + 1) = Base128 * t
            <4>1. /\ 2^(k + 1 - 2 * W) \in Nat \ {0}
                  /\ 2^(k + 1) = 2^(2 * W) * 2^(k + 1 - 2 * W)
                BY <3>1, PowerOf
            <4> HIDE DEF h
            <4> QED
                BY <1>1, <3>1, <4>1
        <3>4. ~(2^(2 * W) <= p)
            BY <1>1, <1>8, <3>1, PowerOrder
        <3> QED
            BY <1>1, <3>2, <3>3, <3>4
    <2>2. h \in 0 .. 2 * W - 1
        BY <1>1, <1>8
    <2> HIDE DEF p, t, h
    <2>3. j = 0 /\ u = c * t
        <3>1. u * Base128 + j = c * (Base128 * t)
            BY <1>2, <2>1
        <3> QED
            BY ONLY <1>1, <1>2, <2>1, <3>1, c \in Int, DivisiblePair
    <2>4. v = p /\ w = 0
        BY <1>1, <1>2, <2>1, PowerPair
    <2>5. Or128(au, bu) \in U128 /\ Value128(Or128(au, bu)) = u + p
        <3>1. Value128(bu) = 2^h /\ Value128(au) = c * 2^(h + 1)
            BY <1>6, <2>3, <2>4 DEF p, t
        <3>2. Or128(au, bu) \in U128 /\ Value128(Or128(au, bu)) = Value128(au) + 2^h
            BY ONLY WordAssumption, PowerLaws, OrLaws, <1>2, <2>2, <3>1, c \in Int, BitOf128
        <3> QED
            BY <1>6, <3>2 DEF p
    <2>6. Or256(a, b) = <<Or128(au, bu), al>>
        BY <1>2, <1>3, <1>4, <1>6, <2>4
    <2>7. (u + p) * Base128 + j = (u * Base128 + j) + Base128 * p
        BY <1>1, <1>2, <2>1
    <2> QED
        BY ONLY <1>2, <1>5, <1>6, <2>1, <2>5, <2>6, <2>7
<1> QED
    BY <1>1, <1>7, <1>8

-----------------------------------------------------------------------------
(* Products.                                                               *)

\* What is added in multiples of m does not change a remainder.
LEMMA MultiplesVanish ==
    ASSUME NEW m \in Nat \ {0}, NEW x \in Int, NEW q \in Int
    PROVE  (x + q * m) % m = x % m
<1> DEFINE d == x \div m
           t == x % m
           e == d + q
<1>1. x = d * m + t /\ d \in Int /\ t \in 0 .. m - 1
    OBVIOUS
<1> HIDE DEF d, t
<1>2. x + q * m = e * m + t /\ e \in Int
    BY <1>1
<1> HIDE DEF e
<1>3. (e * m + t) % m = t
    BY <1>1, <1>2, DivisionUnique
<1> QED
    BY <1>2, <1>3 DEF t

\* A remainder may be taken of a summand, too.
LEMMA RemainderOfSum ==
    ASSUME NEW m \in Nat \ {0}, NEW x \in Int, NEW y \in Int
    PROVE  (x + (y % m)) % m = (x + y) % m
<1> DEFINE d == y \div m
           t == y % m
           s == x + t
<1>1. y = d * m + t /\ d \in Int /\ t \in 0 .. m - 1
    OBVIOUS
<1> HIDE DEF d, t
<1>2. x + y = s + d * m /\ s \in Int
    BY <1>1
<1> HIDE DEF s
<1>3. (s + d * m) % m = s % m
    BY <1>1, <1>2, MultiplesVanish
<1> QED
    BY <1>2, <1>3 DEF s, t

\* Two digits of a quotient, in one division or in two.
LEMMA TwoDigits ==
    ASSUME NEW m \in Nat \ {0}, NEW x \in Nat
    PROVE  /\ x % (m * m) = ((x \div m) % m) * m + (x % m)
           /\ x \div (m * m) = (x \div m) \div m
<1> DEFINE q == x \div m
           t == x % m
           h == q \div m
           k == q % m
           s == k * m + t
           n == m * m
<1>1. x = q * m + t /\ q \in Nat /\ t \in 0 .. m - 1
    OBVIOUS
<1> HIDE DEF q, t
<1>2. q = h * m + k /\ h \in Nat /\ k \in 0 .. m - 1
    BY <1>1
<1> HIDE DEF h, k
<1>3. s \in 0 .. n - 1 /\ n \in Nat \ {0}
    BY <1>1, <1>2, PairInRange
<1>4. x = h * n + s
    BY <1>1, <1>2
<1> HIDE DEF s, n
<1>5. (h * n + s) % n = s /\ (h * n + s) \div n = h
    BY <1>2, <1>3, DivisionUnique
<1> QED
    BY <1>4, <1>5 DEF s, n, h, k, q, t

\* The half words of a word.
LEMMA HalfWords ==
    ASSUME WordAssumption, PowerLaws
    PROVE  /\ HalfWord \in Nat \ {0} /\ HalfWord >= 2 /\ Base = HalfWord * HalfWord
           /\ 2^(W \div 2) = HalfWord
           /\ \A x \in Word : /\ x = High(x) * HalfWord + Low(x)
                              /\ High(x) \in 0 .. HalfWord - 1
                              /\ Low(x) \in 0 .. HalfWord - 1
<1> DEFINE k == W \div 2
<1>1. W \in Nat \ {0} /\ W = k + k /\ k \in Nat \ {0}
    BY DEF WordAssumption
<1> HIDE DEF k
<1>2. k \in 0 .. 4 * W /\ 1 \in 0 .. 4 * W /\ k - 1 \in 0 .. 4 * W /\ 1 + (k - 1) = k
    BY <1>1
<1>3. 2^(k + k) = 2^k * 2^k /\ 2^k \in Nat \ {0}
    BY <1>2 DEF PowerLaws
<1>4. 2^(1 + (k - 1)) = 2^1 * 2^(k - 1) /\ 2^(k - 1) \in Nat \ {0}
    BY <1>2 DEF PowerLaws
<1>5. 2^1 = 2
    OBVIOUS
<1>6. 2^k >= 2
    BY <1>2, <1>4, <1>5
<1>7. HalfWord = 2^k /\ Base = HalfWord * HalfWord
    BY <1>1, <1>3 DEF HalfWord, Base, k
<1>8. \A x \in Word : /\ x = High(x) * HalfWord + Low(x)
                      /\ High(x) \in 0 .. HalfWord - 1 /\ Low(x) \in 0 .. HalfWord - 1
    <2> SUFFICES ASSUME NEW x \in Word
                 PROVE  /\ x = High(x) * HalfWord + Low(x)
                        /\ High(x) \in 0 .. HalfWord - 1
                        /\ Low(x) \in 0 .. HalfWord - 1
        OBVIOUS
    <2>1. HalfWord \in Nat \ {0} /\ x \in 0 .. HalfWord * HalfWord - 1
        BY <1>3, <1>7 DEF Word
    <2> QED
        BY <2>1, DivisionOf DEF High, Low
<1> QED
    BY <1>3, <1>6, <1>7, <1>8 DEF k

\* Four columns of half words, added as mul128 does.
ColumnSum(fourth, third, second, first) ==
    Add128(<<0, fourth>>,
           Add128(<<Wrapped(second), 0>>,
                  Add128(<<WordLeft(first, W \div 2), 0>>,
                         <<High(third), WordLeft(third, W \div 2)>>)))

\* What a column has above its words leaves the number.
LEMMA ColumnsAdded ==
    ASSUME WordAssumption, PowerLaws,
           NEW fourth \in 0 .. HalfWord - 1, NEW third \in 0 .. 3 * (HalfWord - 1),
           NEW second \in Nat, NEW first \in Nat
    PROVE  /\ ColumnSum(fourth, third, second, first) \in U128
           /\ Value128(ColumnSum(fourth, third, second, first))
                = (fourth + third * HalfWord + second * Base + first * HalfWord * Base)
                      % Base128
<1> DEFINE h == HalfWord
           ff == (first * h) % Base
           u == High(third)
           tt == (third * h) % Base
           ss == second % Base
           one == <<ff, 0>>
           two == <<u, tt>>
           columns == Add128(one, two)
           three == <<ss, 0>>
           four == <<0, fourth>>
           inner == Add128(three, columns)
           sum == Add128(four, inner)
<1>1. /\ h \in Nat \ {0} /\ h >= 2 /\ Base = h * h /\ Base \in Nat \ {0}
      /\ Base128 \in Nat \ {0} /\ Base128 = Base * Base /\ 2^(W \div 2) = h
    BY HalfWords, Bases DEF Base128
<1>2. /\ WordLeft(first, W \div 2) = ff /\ WordLeft(third, W \div 2) = tt
      /\ Wrapped(second) = ss
    BY <1>1 DEF WordLeft, Wrapped
<1> HIDE DEF h
<1>3. ff \in 0 .. Base - 1 /\ ss \in 0 .. Base - 1 /\ tt \in 0 .. Base - 1
    <2>1. first * h \in Nat /\ third * h \in Nat
        BY <1>1
    <2> QED
        BY <1>1, <2>1
<1>4. u * Base + tt = third * h /\ u \in 0 .. Base - 1
    <2> DEFINE k == third % h
    <2>1. third = u * h + k /\ u \in Nat /\ k \in 0 .. h - 1
        BY <1>1 DEF High, h
    <2> HIDE DEF u, k
    <2>2. u <= 2
        <3> SUFFICES ASSUME u >= 3 PROVE FALSE
            BY <2>1
        <3>1. u * h >= 3 * h
            BY <1>1, <2>1
        <3>2. third <= 3 * (h - 1)
            BY DEF h
        <3> QED
            BY <1>1, <2>1, <3>1, <3>2
    <2>3. Base >= 4
        BY <1>1
    <2>4. third * h = u * Base + k * h
        BY <1>1, <2>1
    <2>5. k * h \in 0 .. Base - 1
        BY <1>1, <2>1
    <2> DEFINE y == k * h
    <2> HIDE DEF y
    <2>6. (u * Base + y) % Base = y
        <3>1. Base \in Nat \ {0} /\ u \in Int /\ y \in 0 .. Base - 1
            BY <1>1, <2>1, <2>5 DEF y
        <3> QED
            BY ONLY <3>1, DivisionUnique
    <2> QED
        BY <2>1, <2>2, <2>3, <2>4, <2>6, <1>1 DEF y
<1> HIDE DEF ff, u, tt, ss
<1>5. /\ one \in U128 /\ Value128(one) = ff * Base
      /\ two \in U128 /\ Value128(two) = third * h
      /\ three \in U128 /\ Value128(three) = ss * Base
      /\ four \in U128 /\ Value128(four) = fourth
    <2>1. fourth \in 0 .. Base - 1
        BY <1>1 DEF h
    <2>2. \A x, y \in 0 .. Base - 1 :
             <<x, y>> \in U128 /\ Value128(<<x, y>>) = x * Base + y
        BY DEF U128, Word, Value128, Upper, Lower
    <2>3. 0 * Base + fourth = fourth /\ ff * Base + 0 = ff * Base
          /\ ss * Base + 0 = ss * Base /\ 0 \in 0 .. Base - 1
        BY <1>1, <1>3, <2>1
    <2> QED
        BY <1>3, <1>4, <2>1, <2>2, <2>3
<1> HIDE DEF one, two, three, four
<1>6. /\ columns \in U128 /\ Value128(columns) = (ff * Base + third * h) % Base128
    BY <1>1, <1>5, Sum128
<1> HIDE DEF columns
<1>7. /\ inner \in U128 /\ Value128(inner) = (ss * Base + Value128(columns)) % Base128
    BY <1>1, <1>5, <1>6, Sum128
<1> HIDE DEF inner
<1>8. sum \in U128 /\ Value128(sum) = (fourth + Value128(inner)) % Base128
    BY <1>1, <1>5, <1>7, Sum128
<1> HIDE DEF sum
<1> DEFINE x == ff * Base + third * h
           y == ss * Base + x
           z == fourth + y
<1>9. x \in Int /\ y \in Int /\ ss * Base \in Int /\ fourth \in Int /\ z \in Int
    BY <1>1, <1>3
<1>10. Value128(sum) = z % Base128
    <2> HIDE DEF x
    <2>1. Value128(inner) = y % Base128
        <3>1. (ss * Base + (x % Base128)) % Base128 = (ss * Base + x) % Base128
            <4> DEFINE w == ss * Base
            <4>1. Base128 \in Nat \ {0} /\ w \in Int /\ x \in Int
                BY <1>1, <1>9 DEF x
            <4> HIDE DEF w
            <4>2. (w + (x % Base128)) % Base128 = (w + x) % Base128
                BY ONLY <4>1, RemainderOfSum
            <4> QED
                BY <4>2 DEF w
        <3> QED
            BY <1>6, <1>7, <3>1 DEF x
    <2> HIDE DEF y
    <2>2. (fourth + (y % Base128)) % Base128 = (fourth + y) % Base128
        <3>1. Base128 \in Nat \ {0} /\ fourth \in Int /\ y \in Int
            BY <1>1, <1>9 DEF y, x
        <3> QED
            BY ONLY <3>1, RemainderOfSum
    <2> QED
        BY <1>8, <2>1, <2>2
<1> DEFINE f == (first * h) \div Base
           s == second \div Base
           q == f + s
<1>11. fourth + third * h + second * Base + first * h * Base = z + q * Base128
       /\ q \in Int
    <2>1. first * h = f * Base + ff /\ f \in Int
        <3> DEFINE g == first * h
        <3>1. g \in Nat /\ Base \in Nat \ {0}
            BY <1>1
        <3> HIDE DEF g
        <3>2. g = (g \div Base) * Base + (g % Base) /\ g \div Base \in Int
            BY ONLY <3>1
        <3> QED
            BY <3>2 DEF ff, g
    <2>2. second = s * Base + ss /\ s \in Int
        BY <1>1 DEF ss
    <2> DEFINE g == first * h
    <2>3. g \in Nat
        BY <1>1
    <2> HIDE DEF f, s, g
    <2>4. g * Base = f * Base128 + ff * Base
        BY <1>1, <1>3, <2>1, <2>3 DEF g
    <2>5. second * Base = s * Base128 + ss * Base
        BY <1>1, <1>3, <2>2
    <2>6. q * Base128 = f * Base128 + s * Base128
        BY <1>1, <2>1, <2>2
    <2>7. first * h * Base = g * Base
        BY DEF g
    <2> QED
        BY <1>1, <1>3, <2>1, <2>2, <2>3, <2>4, <2>5, <2>6, <2>7
<1> HIDE DEF z, q
<1>12. (z + q * Base128) % Base128 = z % Base128
    <2>1. Base128 \in Nat \ {0} /\ z \in Int /\ q \in Int
        BY <1>1, <1>9, <1>11 DEF z, y, x
    <2> QED
        BY ONLY <2>1, MultiplesVanish
<1> QED
    BY <1>2, <1>8, <1>10, <1>11, <1>12
       DEF h, sum, inner, columns, one, two, three, four, u, ColumnSum

\* The product of two pairs.
LEMMA PairProduct ==
    ASSUME NEW m \in Int, NEW u \in Int, NEW j \in Int, NEW v \in Int, NEW k \in Int
    PROVE  (u * m + j) * (v * m + k) = (u * v) * (m * m) + (u * k + j * v) * m + j * k
OBVIOUS

\* The product of two numbers of four half words by the columns of the products
\* of half words, where h and m are the bases of a half word and of a word.
ProductByColumns(h, m, a0, a1, a2, a3, b0, b1, b2, b3) ==
    LET third == Low(a0 * b1) + High(a0 * b0) + Low(a1 * b0)
        second == Low(a0 * b2) + High(a0 * b1) + Low(a1 * b1)
                    + High(a1 * b0) + Low(a2 * b0)
        first == Low(a0 * b3) + High(a0 * b2) + Low(a1 * b2)
                    + High(a1 * b1) + Low(a2 * b1)
                    + High(a2 * b0) + Low(a3 * b0)
    IN  /\ Low(a0 * b0) \in 0 .. h - 1 /\ third \in 0 .. 3 * (h - 1)
        /\ second \in Nat /\ first \in Nat
        /\ ((a3 * h + a2) * m + (a1 * h + a0)) * ((b3 * h + b2) * m + (b1 * h + b0))
               % (m * m)
             = (Low(a0 * b0) + third * h + second * m + first * h * m) % (m * m)

LEMMA HalvesMultiplied ==
    ASSUME WordAssumption, PowerLaws,
           NEW a0 \in 0 .. HalfWord - 1, NEW a1 \in 0 .. HalfWord - 1,
           NEW a2 \in 0 .. HalfWord - 1, NEW a3 \in 0 .. HalfWord - 1,
           NEW b0 \in 0 .. HalfWord - 1, NEW b1 \in 0 .. HalfWord - 1,
           NEW b2 \in 0 .. HalfWord - 1, NEW b3 \in 0 .. HalfWord - 1
    PROVE  ProductByColumns(HalfWord, Base, a0, a1, a2, a3, b0, b1, b2, b3)
<1> DEFINE h == HalfWord
           m == Base
           au == a3 * h + a2
           al == a1 * h + a0
           bu == b3 * h + b2
           bl == b1 * h + b0
           p00 == a0 * b0
           p01 == a0 * b1
           p02 == a0 * b2
           p03 == a0 * b3
           p10 == a1 * b0
           p11 == a1 * b1
           p12 == a1 * b2
           p13 == a1 * b3
           p20 == a2 * b0
           p21 == a2 * b1
           p30 == a3 * b0
           p31 == a3 * b1
           third == Low(p01) + High(p00) + Low(p10)
           second == Low(p02) + High(p01) + Low(p11) + High(p10) + Low(p20)
           first == Low(p03) + High(p02) + Low(p12) + High(p11) + Low(p21)
                      + High(p20) + Low(p30)
           q == au * bu + p31 + p13 + High(p03) + High(p12) + High(p21) + High(p30)
           sum == Low(p00) + third * h + second * m + first * h * m
<1>1. h \in Nat \ {0} /\ m = h * h /\ m \in Nat \ {0} /\ h \in Int /\ m \in Int
    BY HalfWords, Bases
<1>2. \A x, y \in 0 .. h - 1 :
         /\ x * y \in Nat
         /\ x * y = High(x * y) * h + Low(x * y)
         /\ High(x * y) \in 0 .. h - 1 /\ Low(x * y) \in 0 .. h - 1
    <2> SUFFICES ASSUME NEW x \in 0 .. h - 1, NEW y \in 0 .. h - 1
                 PROVE  /\ x * y \in Nat
                        /\ x * y = High(x * y) * h + Low(x * y)
                        /\ High(x * y) \in 0 .. h - 1 /\ Low(x * y) \in 0 .. h - 1
        OBVIOUS
    <2> DEFINE z == x * y
    <2>1. z \in Nat /\ z \in Word
        <3> HIDE DEF h
        <3>1. x * y <= (h - 1) * (h - 1) /\ x * y >= 0 /\ x * y \in Int
            BY <1>1
        <3>2. (h - 1) * (h - 1) < m
            BY <1>1
        <3>3. z \in Nat /\ z < m
            BY <1>1, <3>1, <3>2
        <3> HIDE DEF z
        <3> QED
            BY <1>1, <3>3 DEF Word
    <2> HIDE DEF z
    <2>2. z \in Nat /\ z = High(z) * h + Low(z)
          /\ High(z) \in 0 .. h - 1 /\ Low(z) \in 0 .. h - 1
        BY <2>1, HalfWords
    <2> QED
        BY <2>2 DEF z
<1>3. \A y \in {p00, p01, p02, p03, p10, p11, p12, p20, p21, p30} :
         /\ y \in Nat /\ y = High(y) * h + Low(y)
         /\ High(y) \in 0 .. h - 1 /\ Low(y) \in 0 .. h - 1
    <2> DEFINE Good(y) == /\ y \in Nat /\ y = High(y) * h + Low(y)
                          /\ High(y) \in 0 .. h - 1 /\ Low(y) \in 0 .. h - 1
    <2>1. \A x, y \in 0 .. h - 1 : Good(x * y)
        BY <1>2
    <2> HIDE DEF Good
    <2>2. /\ Good(p00) /\ Good(p01) /\ Good(p02) /\ Good(p03) /\ Good(p10)
          /\ Good(p11) /\ Good(p12) /\ Good(p20) /\ Good(p21) /\ Good(p30)
        BY <2>1
    <2> HIDE DEF p00, p01, p02, p03, p10, p11, p12, p13, p20, p21, p30, p31
    <2>3. \A y \in {p00, p01, p02, p03, p10, p11, p12, p20, p21, p30} : Good(y)
        BY <2>2
    <2> QED
        BY <2>3 DEF Good
<1>4. p13 \in Int /\ p31 \in Int /\ au \in Int /\ al \in Int /\ bu \in Int /\ bl \in Int
    BY <1>1
<1>5. /\ (au * m + al) * (bu * m + bl)
            = (au * bu) * (m * m) + (au * bl + al * bu) * m + al * bl
      /\ al * bl = p11 * (h * h) + (p10 + p01) * h + p00
      /\ au * bl = p31 * (h * h) + (p30 + p21) * h + p20
      /\ al * bu = p13 * (h * h) + (p12 + p03) * h + p02
    <2>1. /\ h \in Int /\ m \in Int
          /\ a0 \in Int /\ a1 \in Int /\ a2 \in Int /\ a3 \in Int
          /\ b0 \in Int /\ b1 \in Int /\ b2 \in Int /\ b3 \in Int
        BY <1>1
    <2>2. (au * m + al) * (bu * m + bl)
            = (au * bu) * (m * m) + (au * bl + al * bu) * m + al * bl
        <3> HIDE DEF au, al, bu, bl
        <3> QED
            BY ONLY <1>4, <2>1, PairProduct
    <2>3. al * bl = p11 * (h * h) + (p10 + p01) * h + p00
        BY ONLY <2>1, PairProduct
    <2>4. au * bl = p31 * (h * h) + (p30 + p21) * h + p20
        BY ONLY <2>1, PairProduct
    <2>5. al * bu = p13 * (h * h) + (p12 + p03) * h + p02
        BY ONLY <2>1, PairProduct
    <2> QED
        BY <2>2, <2>3, <2>4, <2>5
<1> HIDE DEF h, m, au, al, bu, bl, p00, p01, p02, p03, p10, p11, p12, p13, p20, p21,
             p30, p31
<1>6. /\ Low(p00) \in 0 .. h - 1 /\ third \in 0 .. 3 * (h - 1)
      /\ second \in Nat /\ first \in Nat
    BY <1>1, <1>3
<1>7. (au * m + al) * (bu * m + bl) = sum + q * (m * m) /\ q \in Int /\ sum \in Int
    <2> DEFINE n == h * m
               s == Low(p03) + Low(p12) + Low(p21) + Low(p30)
               g == High(p03) + High(p12) + High(p21) + High(p30)
               x == au * bu
    <2>1. /\ \A y \in {p00, p01, p02, p03, p10, p11, p12, p20, p21, p30} :
                y \in Int /\ High(y) \in Int /\ Low(y) \in Int
        BY <1>1, <1>3
    <2>1a. /\ p02 \in Int /\ p03 \in Int /\ p12 \in Int /\ p13 \in Int /\ p20 \in Int
           /\ p21 \in Int /\ p30 \in Int /\ p31 \in Int /\ h \in Int /\ m \in Int
        BY <1>1, <1>4, <2>1
    <2>2. \A u, t, y \in Int : y = u * h + t =>
              y * h = u * m + t * h /\ y * m = u * n + t * m /\ y * n = u * (m * m) + t * n
        BY <1>1
    <2>3. n \in Int /\ x \in Int /\ m * m \in Int
        BY <1>1, <1>4
    <2> HIDE DEF n, x
    <2> DEFINE Spread(y) ==
                   /\ y * h = High(y) * m + Low(y) * h
                   /\ y * m = High(y) * n + Low(y) * m
                   /\ y * n = High(y) * (m * m) + Low(y) * n
    <2>3a. \A y \in {p00, p01, p02, p03, p10, p11, p12, p20, p21, p30} : Spread(y)
        BY <1>3, <2>1, <2>2
    <2>4. (p10 + p01) * h = (High(p10) + High(p01)) * m + (Low(p10) + Low(p01)) * h
        <3>1. Spread(p10) /\ Spread(p01)
            BY <2>3a
        <3>2. /\ (p10 + p01) * h = p10 * h + p01 * h
              /\ (High(p10) + High(p01)) * m = High(p10) * m + High(p01) * m
              /\ (Low(p10) + Low(p01)) * h = Low(p10) * h + Low(p01) * h
            BY <1>1, <2>1
        <3> QED
            BY <1>1, <2>1, <3>1, <3>2
    <2>5. (p02 + p20 + p11) * m
             = (High(p02) + High(p20) + High(p11)) * n + (Low(p02) + Low(p20) + Low(p11)) * m
        <3>1. Spread(p02) /\ Spread(p20) /\ Spread(p11)
            BY <2>3a
        <3>2. /\ (p02 + p20 + p11) * m = p02 * m + p20 * m + p11 * m
              /\ (High(p02) + High(p20) + High(p11)) * n
                    = High(p02) * n + High(p20) * n + High(p11) * n
              /\ (Low(p02) + Low(p20) + Low(p11)) * m
                    = Low(p02) * m + Low(p20) * m + Low(p11) * m
            BY <1>1, <2>1, <2>3
        <3> QED
            BY <1>1, <2>1, <2>3, <3>1, <3>2
    <2>6. (p30 + p21 + p12 + p03) * n = g * (m * m) + s * n
        <3> DEFINE k == m * m
        <3>1. Spread(p30) /\ Spread(p21) /\ Spread(p12) /\ Spread(p03)
            BY <2>3a
        <3>2. k \in Int
            BY <2>3
        <3> HIDE DEF k
        <3>3. /\ (p30 + p21 + p12 + p03) * n = p30 * n + p21 * n + p12 * n + p03 * n
              /\ g * k = High(p03) * k + High(p12) * k + High(p21) * k + High(p30) * k
              /\ s * n = Low(p03) * n + Low(p12) * n + Low(p21) * n + Low(p30) * n
            BY <2>1, <2>3, <3>2
        <3>4. \A y \in {p30, p21, p12, p03} :
                 y * n = High(y) * k + Low(y) * n
            BY <3>1 DEF k
        <3>5. g * k + s * n = (p30 + p21 + p12 + p03) * n
            <4> HIDE DEF g, s, Spread
            <4>1. \A y \in {p30, p21, p12, p03} :
                     High(y) * k \in Int /\ Low(y) * n \in Int
                BY <2>1, <2>3, <3>2
            <4> QED
                BY <3>3, <3>4, <4>1
        <3> QED
            BY <3>5 DEF k
    <2>7. al * bl = p11 * m + (p10 + p01) * h + p00
        BY <1>1, <1>5
    <2>8. (au * bl + al * bu) * m
             = (p31 + p13) * (m * m) + (p30 + p21 + p12 + p03) * n + (p20 + p02) * m
        <3>1. au * bl + al * bu = (p31 + p13) * m + (p30 + p21 + p12 + p03) * h + (p20 + p02)
            <4>1. /\ au * bl = p31 * m + (p30 + p21) * h + p20
                  /\ al * bu = p13 * m + (p12 + p03) * h + p02
                BY <1>1, <1>5
            <4>2. /\ (p30 + p21) * h + (p12 + p03) * h = (p30 + p21 + p12 + p03) * h
                  /\ p31 * m + p13 * m = (p31 + p13) * m
                BY ONLY <2>1a
            <4>3. /\ (p30 + p21) * h \in Int /\ (p12 + p03) * h \in Int
                  /\ p31 * m \in Int /\ p13 * m \in Int /\ p20 \in Int /\ p02 \in Int
                BY ONLY <2>1a
            <4> QED
                BY <4>1, <4>2, <4>3
        <3> DEFINE t == p31 + p13
                   z == p30 + p21 + p12 + p03
                   w == p20 + p02
                   y == au * bl + al * bu
        <3>2. t \in Int /\ z \in Int /\ w \in Int
            BY ONLY <2>1a
        <3>3. y = t * m + z * h + w
            BY <3>1
        <3> HIDE DEF t, z, w, y
        <3>4. y * m = t * (m * m) + z * (h * m) + w * m
            BY <1>1, <3>2, <3>3
        <3> QED
            BY <3>4 DEF n, t, z, w, y
    <2>9. p00 = High(p00) * h + Low(p00)
        BY <1>3
    <2>10. first = s + High(p02) + High(p11) + High(p20)
        BY <2>1
    <2>11. sum = Low(p00) + third * h + second * m + first * n
        <3>1. first \in Int
            BY <2>1
        <3> HIDE DEF first, third, second
        <3> QED
            BY <1>1, <1>6, <3>1 DEF n
    <2>12. first * n = s * n + (High(p02) + High(p11) + High(p20)) * n
        BY <2>1, <2>3, <2>10
    <2>13. third * h = (Low(p01) + Low(p10)) * h + High(p00) * h
        BY <1>1, <2>1
    <2>14. second * m = (Low(p02) + Low(p11) + Low(p20)) * m + (High(p01) + High(p10)) * m
        BY <1>1, <2>1
    <2>15. q * (m * m) = x * (m * m) + (p31 + p13) * (m * m) + g * (m * m)
        <3>1. q = x + (p31 + p13) + g /\ g \in Int /\ p31 + p13 \in Int
            BY <1>4, <2>1, <2>3 DEF x
        <3> HIDE DEF g, q
        <3> QED
            BY <2>3, <3>1
    <2>16. q \in Int /\ sum \in Int
        BY <1>1, <1>4, <1>6, <2>1, <2>3 DEF x
    <2>17. (au * m + al) * (bu * m + bl)
              = x * (m * m) + (au * bl + al * bu) * m + al * bl
        BY <1>5 DEF x
    <2>18. (p02 + p20 + p11) * m = (p20 + p02) * m + p11 * m
        BY <1>1, <2>1
    <2> DEFINE c1 == x * (m * m)
               c2 == (p31 + p13) * (m * m)
               c3 == g * (m * m)
               c4 == s * n
               c5 == (High(p02) + High(p11) + High(p20)) * n
               c6 == (Low(p02) + Low(p11) + Low(p20)) * m
               c7 == (High(p01) + High(p10)) * m
               c8 == (Low(p01) + Low(p10)) * h
               c9 == High(p00) * h
               d1 == (au * bl + al * bu) * m
               d2 == al * bl
               d3 == (p10 + p01) * h
               d4 == (p20 + p02) * m
               d5 == (p30 + p21 + p12 + p03) * n
               d6 == p11 * m
    <2>19. /\ c1 \in Int /\ c2 \in Int /\ c3 \in Int /\ c4 \in Int /\ c5 \in Int
           /\ c6 \in Int /\ c7 \in Int /\ c8 \in Int /\ c9 \in Int /\ d1 \in Int
           /\ d2 \in Int /\ d3 \in Int /\ d4 \in Int /\ d5 \in Int /\ d6 \in Int
           /\ p00 \in Int /\ Low(p00) \in Int
        <3>1. c1 \in Int /\ c2 \in Int /\ c3 \in Int
            BY <1>4, <2>1, <2>3
        <3>2. c4 \in Int /\ c5 \in Int
            BY <2>1, <2>3
        <3>3. c6 \in Int /\ c7 \in Int /\ c8 \in Int /\ c9 \in Int
            BY <1>1, <2>1
        <3>4. d1 \in Int /\ d2 \in Int
            BY <1>1, <1>4
        <3>5. d3 \in Int /\ d4 \in Int /\ d6 \in Int
            BY <1>1, <2>1
        <3>6. d5 \in Int
            BY <2>1, <2>3
        <3> QED
            BY <2>1, <3>1, <3>2, <3>3, <3>4, <3>5, <3>6
    <2>20. /\ d3 = c7 + c8 /\ d4 + d6 = c5 + c6 /\ d5 = c3 + c4 /\ d2 = d6 + d3 + p00
           /\ d1 = c2 + d5 + d4 /\ p00 = c9 + Low(p00)
        <3>1. d3 = c7 + c8
            BY <2>1, <2>4
        <3>2. d4 + d6 = c5 + c6
            BY <2>1, <2>5, <2>18
        <3> QED
            BY <2>6, <2>7, <2>8, <2>9, <3>1, <3>2
    <2>21. sum = Low(p00) + (c8 + c9) + (c6 + c7) + (c4 + c5)
        BY <2>11, <2>12, <2>13, <2>14
    <2>22. q * (m * m) = c1 + c2 + c3
        BY <2>15
    <2> HIDE DEF c1, c2, c3, c4, c5, c6, c7, c8, c9, d1, d2, d3, d4, d5, d6, sum, q
    <2>23. (au * m + al) * (bu * m + bl) = c1 + d1 + d2
        BY <2>17 DEF c1, d1, d2
    <2>24. c1 + d1 + d2 = sum + q * (m * m)
        BY ONLY <2>19, <2>20, <2>21, <2>22
    <2> QED
        BY <2>16, <2>23, <2>24
<1> HIDE DEF q, sum
<1>8. (sum + q * (m * m)) % (m * m) = sum % (m * m)
    <2> DEFINE n == m * m
    <2>1. n \in Nat \ {0} /\ sum \in Int /\ q \in Int
        BY <1>1, <1>7
    <2> HIDE DEF n
    <2>2. (sum + q * n) % n = sum % n
        BY ONLY <2>1, MultiplesVanish
    <2> QED
        BY <2>2 DEF n
<1>9. ((au * m + al) * (bu * m + bl)) % (m * m) = sum % (m * m)
    BY <1>7, <1>8
<1> QED
    BY <1>6, <1>9 DEF ProductByColumns, sum, h, m, au, al, bu, bl, p00, p01, p02, p03,
                      p10, p11, p12, p20, p21, p30

\* mul128 is the product modulo the square of the base: the columns lose nothing
\* on their way into the words.
LEMMA Product128 ==
    ASSUME WordAssumption, PowerLaws, NEW a \in U128, NEW b \in U128
    PROVE  /\ Mul128(a, b) \in U128
           /\ Value128(Mul128(a, b)) = (Value128(a) * Value128(b)) % Base128
<1> DEFINE a3 == High(Upper(a))
           a2 == Low(Upper(a))
           a1 == High(Lower(a))
           a0 == Low(Lower(a))
           b3 == High(Upper(b))
           b2 == Low(Upper(b))
           b1 == High(Lower(b))
           b0 == Low(Lower(b))
           third == Low(a0 * b1) + High(a0 * b0) + Low(a1 * b0)
           second == Low(a0 * b2) + High(a0 * b1) + Low(a1 * b1)
                       + High(a1 * b0) + Low(a2 * b0)
           first == Low(a0 * b3) + High(a0 * b2) + Low(a1 * b2)
                      + High(a1 * b1) + Low(a2 * b1)
                      + High(a2 * b0) + Low(a3 * b0)
           fourth == Low(a0 * b0)
           sum == ColumnSum(fourth, third, second, first)
<1>1. /\ Upper(a) \in Word /\ Lower(a) \in Word /\ Upper(b) \in Word /\ Lower(b) \in Word
      /\ Value128(a) = Upper(a) * Base + Lower(a)
      /\ Value128(b) = Upper(b) * Base + Lower(b)
    BY Bases, Parts128 DEF Word, Value128
<1>2. /\ a0 \in 0 .. HalfWord - 1 /\ a1 \in 0 .. HalfWord - 1
      /\ a2 \in 0 .. HalfWord - 1 /\ a3 \in 0 .. HalfWord - 1
      /\ b0 \in 0 .. HalfWord - 1 /\ b1 \in 0 .. HalfWord - 1
      /\ b2 \in 0 .. HalfWord - 1 /\ b3 \in 0 .. HalfWord - 1
      /\ Upper(a) = a3 * HalfWord + a2 /\ Lower(a) = a1 * HalfWord + a0
      /\ Upper(b) = b3 * HalfWord + b2 /\ Lower(b) = b1 * HalfWord + b0
    BY <1>1, HalfWords
<1>3. Mul128(a, b) = sum
    <2>1. /\ Halves(a)[4] = a0 /\ Halves(a)[3] = a1 /\ Halves(a)[2] = a2 /\ Halves(a)[1] = a3
          /\ Halves(b)[4] = b0 /\ Halves(b)[3] = b1 /\ Halves(b)[2] = b2 /\ Halves(b)[1] = b3
        BY DEF Halves
    <2>2. /\ 4 - 0 = 4 /\ 4 - 1 = 3 /\ 4 - 2 = 2 /\ 4 - 3 = 1
          /\ 0 + 1 = 1 /\ 1 + 1 = 2 /\ 2 + 1 = 3 /\ 3 + 1 = 4
        OBVIOUS
    <2> HIDE DEF a0, a1, a2, a3, b0, b1, b2, b3
    <2> QED
        BY <2>1, <2>2 DEF Mul128, ColumnSum
<1> HIDE DEF a0, a1, a2, a3, b0, b1, b2, b3
<1>4. ProductByColumns(HalfWord, Base, a0, a1, a2, a3, b0, b1, b2, b3)
    BY ONLY WordAssumption, PowerLaws, <1>2, HalvesMultiplied
<1>5. /\ fourth \in 0 .. HalfWord - 1 /\ third \in 0 .. 3 * (HalfWord - 1)
      /\ second \in Nat /\ first \in Nat
      /\ (Value128(a) * Value128(b)) % (Base * Base)
            = (fourth + third * HalfWord + second * Base + first * HalfWord * Base)
                  % (Base * Base)
    BY <1>1, <1>2, <1>4 DEF ProductByColumns
<1> HIDE DEF fourth, third, second, first
<1>6. /\ sum \in U128
      /\ Value128(sum) = (fourth + third * HalfWord + second * Base
                            + first * HalfWord * Base) % Base128
    BY ONLY WordAssumption, PowerLaws, <1>5, ColumnsAdded
<1> QED
    BY <1>3, <1>5, <1>6 DEF Base128

\* mul256 keeps the lower half of the product.
LEMMA Product256 ==
    ASSUME WordAssumption, PowerLaws, NEW a \in U256, NEW b \in U256
    PROVE  /\ Mul256(a, b) \in U256
           /\ Value256(Mul256(a, b)) = (Value256(a) * Value256(b)) % Base256
<1> DEFINE x == Number(WordsOf(a))
           y == Number(WordsOf(b))
           n == x * y
           r5 == (n \div 2^(W * 3)) % Base
           r6 == (n \div 2^(W * 2)) % Base
           r7 == (n \div 2^(W * 1)) % Base
           r8 == (n \div 2^(W * 0)) % Base
<1>1. /\ W \in Nat \ {0} /\ Base \in Nat \ {0} /\ Base128 \in Nat \ {0}
      /\ Base256 \in Nat \ {0} /\ Base128 = Base * Base /\ Base256 = Base128 * Base128
      /\ 2^(2 * W) = Base128
    BY Bases DEF Base128, Base256
<1>2. \A z \in U256 : Number(WordsOf(z)) = Value256(z) /\ Value256(z) \in Nat
    <2> SUFFICES ASSUME NEW z \in U256
                 PROVE  Number(WordsOf(z)) = Value256(z) /\ Value256(z) \in Nat
        OBVIOUS
    <2> DEFINE z1 == Upper(Upper(z))
               z2 == Lower(Upper(z))
               z3 == Upper(Lower(z))
               z4 == Lower(Lower(z))
    <2>1. /\ Upper(z) \in U128 /\ Lower(z) \in U128 /\ Value256(z) \in 0 .. Base256 - 1
        BY <1>1, Parts256
    <2>2. z1 \in Int /\ z2 \in Int /\ z3 \in Int /\ z4 \in Int
        BY <1>1, <2>1, Parts128
    <2>3. Number(WordsOf(z)) = ((z1 * Base + z2) * Base + z3) * Base + z4
        BY DEF Number, WordsOf
    <2>4. Value256(z) = (z1 * Base + z2) * (Base * Base) + (z3 * Base + z4)
        BY DEF Value256, Value128
    <2> HIDE DEF z1, z2, z3, z4
    <2>5. ((z1 * Base + z2) * Base + z3) * Base + z4
              = (z1 * Base + z2) * (Base * Base) + (z3 * Base + z4)
        BY <1>1, <2>2
    <2> QED
        BY <1>1, <2>1, <2>3, <2>4, <2>5
<1>3. x = Value256(a) /\ y = Value256(b) /\ n \in Nat
    BY <1>2
<1>4. Mul256(a, b) = << <<r5, r6>>, <<r7, r8>> >>
    <2>1. W * (8 - 5) = W * 3 /\ W * (8 - 6) = W * 2 /\ W * (8 - 7) = W * 1
          /\ W * (8 - 8) = W * 0
        BY <1>1
    <2> DEFINE product == MathMult(WordsOf(a), WordsOf(b))
    <2>2. product[5] = r5 /\ product[6] = r6 /\ product[7] = r7 /\ product[8] = r8
        BY <2>1 DEF MathMult, Wrapped
    <2> HIDE DEF product, r5, r6, r7, r8
    <2>3. Mul256(a, b) = << <<product[5], product[6]>>, <<product[7], product[8]>> >>
        BY DEF Mul256, product
    <2> QED
        BY <2>2, <2>3
<1>5. 2^(W * 3) = Base128 * Base /\ 2^(W * 2) = Base128 /\ 2^(W * 1) = Base /\ 2^(W * 0) = 1
    <2>1. W * 3 = 2 * W + W /\ W * 2 = 2 * W /\ W * 1 = W /\ W * 0 = 0
        BY <1>1
    <2>2. 2 * W \in 0 .. 4 * W /\ W \in 0 .. 4 * W
        BY <1>1
    <2>3. 2^(2 * W + W) = 2^(2 * W) * 2^W
        BY <2>2 DEF PowerLaws
    <2>4. 2^0 = 1 /\ 2^W = Base
        BY DEF Base
    <2> QED
        BY <1>1, <2>1, <2>3, <2>4
<1> HIDE DEF x, y, n
<1> DEFINE q == n \div Base
           h == n \div Base128
           k == h \div Base
<1>6. /\ n % Base256 = (h % Base128) * Base128 + (n % Base128)
      /\ n % Base128 = (q % Base) * Base + (n % Base)
      /\ h % Base128 = (k % Base) * Base + (h % Base)
      /\ h \in Nat
    <2>1. h \in Nat
        BY <1>1, <1>3
    <2>2. n % (Base128 * Base128) = ((n \div Base128) % Base128) * Base128 + (n % Base128)
        BY ONLY <1>1, <1>3, TwoDigits
    <2>3. n % (Base * Base) = ((n \div Base) % Base) * Base + (n % Base)
        BY ONLY <1>1, <1>3, TwoDigits
    <2> HIDE DEF h
    <2>4. h % (Base * Base) = ((h \div Base) % Base) * Base + (h % Base)
        BY ONLY <1>1, <2>1, TwoDigits
    <2> QED
        BY <1>1, <2>1, <2>2, <2>3, <2>4 DEF h
<1>7. r5 = k % Base /\ r6 = h % Base /\ r7 = q % Base /\ r8 = n % Base
    <2>1. n \div (Base128 * Base) = k
        <3> DEFINE d == n % Base128
                   e == h % Base
                   f == e * Base128 + d
                   g == Base128 * Base
        <3>1. n = h * Base128 + d /\ d \in 0 .. Base128 - 1
            BY <1>1, <1>3
        <3>2. h = k * Base + e /\ k \in Int /\ e \in 0 .. Base - 1
            <4>1. h \in Nat /\ Base \in Nat \ {0}
                BY <1>1, <1>6
            <4> HIDE DEF h
            <4> QED
                BY <4>1
        <3> HIDE DEF d, e, h, k
        <3>3. n = k * g + f
            BY <1>1, <3>1, <3>2
        <3>4. f \in 0 .. g - 1 /\ g \in Nat \ {0}
            <4>1. e * Base128 <= (Base - 1) * Base128 /\ e * Base128 >= 0
                BY <1>1, <3>2
            <4>2. (Base - 1) * Base128 = g - Base128 /\ g \in Nat \ {0}
                BY <1>1
            <4> HIDE DEF g
            <4> QED
                BY <1>1, <3>1, <3>2, <4>1, <4>2
        <3> HIDE DEF f, g
        <3>5. (k * g + f) \div g = k
            BY ONLY <3>2, <3>4, DivisionUnique
        <3> QED
            BY <3>3, <3>5 DEF g
    <2>2. n \div 1 = n
        BY <1>3
    <2> QED
        BY <1>5, <2>1, <2>2
<1> HIDE DEF r5, r6, r7, r8, q, h, k
<1>8. r5 \in Word /\ r6 \in Word /\ r7 \in Word /\ r8 \in Word
    <2>1. q \in Int /\ h \in Int /\ k \in Int /\ n \in Int
        BY <1>1, <1>3, <1>6 DEF q, k
    <2> QED
        BY <1>1, <1>7, <2>1 DEF Word
<1>9. /\ <<r5, r6>> \in U128 /\ <<r7, r8>> \in U128
      /\ Value128(<<r5, r6>>) = r5 * Base + r6 /\ Value128(<<r7, r8>>) = r7 * Base + r8
    BY <1>8 DEF U128, Value128, Upper, Lower
<1>10. /\ Mul256(a, b) \in U256
       /\ Value256(Mul256(a, b)) = (r5 * Base + r6) * Base128 + (r7 * Base + r8)
    BY <1>1, <1>4, <1>9 DEF U256, Value256, Upper, Lower
<1> QED
    BY <1>3, <1>6, <1>7, <1>10 DEF n

-----------------------------------------------------------------------------
(* Every bit.                                                              *)

\* or256 is the | of the integers: each word is for itself.
LEMMA OrOfIntegers ==
    ASSUME WordAssumption, PowerLaws, OrLaws, NEW a \in U256, NEW b \in U256
    PROVE  /\ Or256(a, b) \in U256
           /\ Value256(Or256(a, b)) = BitOr(Value256(a), Value256(b))
<1>1. /\ Base \in Nat \ {0} /\ Base128 \in Nat \ {0}
      /\ 2^W = Base /\ 2^(2 * W) = Base128 /\ Base * Base = Base128
    BY Bases DEF Base, Base128
<1>2. \A p \in {Base, Base128} : \A x, y, z, n \in 0 .. p - 1 :
         BitOr(x * p + y, z * p + n) = BitOr(x, z) * p + BitOr(y, n)
    <2>1. {2^W, 2^(2 * W)} = {Base, Base128}
        BY <1>1
    <2> DEFINE P == {2^W, 2^(2 * W)}
               InParts(p) == \A x, y, z, n \in 0 .. p - 1 :
                                BitOr(x * p + y, z * p + n) = BitOr(x, z) * p + BitOr(y, n)
    <2>2. \A p \in P : InParts(p)
        BY Zenon DEF OrLaws
    <2>3. P = {Base, Base128}
        BY <2>1
    <2> HIDE DEF P, InParts
    <2>4. \A p \in {Base, Base128} : InParts(p)
        BY <2>2, <2>3
    <2> QED
        BY Zenon, <2>4 DEF InParts
<1>3. \A c, d \in U128 : /\ Or128(c, d) \in U128
                         /\ Value128(Or128(c, d)) = BitOr(Value128(c), Value128(d))
    <2> SUFFICES ASSUME NEW c \in U128, NEW d \in U128
                 PROVE  /\ Or128(c, d) \in U128
                        /\ Value128(Or128(c, d)) = BitOr(Value128(c), Value128(d))
        OBVIOUS
    <2>1. /\ Upper(c) \in 0 .. Base - 1 /\ Lower(c) \in 0 .. Base - 1
          /\ Upper(d) \in 0 .. Base - 1 /\ Lower(d) \in 0 .. Base - 1
        BY <1>1, Parts128
    <2>2. BitOr(Upper(c), Upper(d)) \in Word /\ BitOr(Lower(c), Lower(d)) \in Word
        BY <2>1 DEF OrLaws, Word
    <2>3. /\ Or128(c, d) \in U128
          /\ Value128(Or128(c, d))
                = BitOr(Upper(c), Upper(d)) * Base + BitOr(Lower(c), Lower(d))
        BY <2>2 DEF Or128, U128, Value128, Upper, Lower
    <2>4. BitOr(Upper(c) * Base + Lower(c), Upper(d) * Base + Lower(d))
              = BitOr(Upper(c), Upper(d)) * Base + BitOr(Lower(c), Lower(d))
        BY <1>2, <2>1
    <2> QED
        BY <2>3, <2>4 DEF Value128
<1>4. /\ Upper(a) \in U128 /\ Lower(a) \in U128 /\ Upper(b) \in U128 /\ Lower(b) \in U128
      /\ Value128(Upper(a)) \in 0 .. Base128 - 1 /\ Value128(Lower(a)) \in 0 .. Base128 - 1
      /\ Value128(Upper(b)) \in 0 .. Base128 - 1 /\ Value128(Lower(b)) \in 0 .. Base128 - 1
      /\ Value256(a) = Value128(Upper(a)) * Base128 + Value128(Lower(a))
      /\ Value256(b) = Value128(Upper(b)) * Base128 + Value128(Lower(b))
    BY <1>1, Parts256
<1> DEFINE up == Or128(Upper(a), Upper(b))
           low == Or128(Lower(a), Lower(b))
<1>5. /\ up \in U128 /\ low \in U128
      /\ Value128(up) = BitOr(Value128(Upper(a)), Value128(Upper(b)))
      /\ Value128(low) = BitOr(Value128(Lower(a)), Value128(Lower(b)))
    BY <1>3, <1>4
<1>6. Or256(a, b) = <<up, low>>
    BY DEF Or256
<1> HIDE DEF up, low
<1>7. Or256(a, b) \in U256 /\ Value256(Or256(a, b)) = Value128(up) * Base128 + Value128(low)
    BY <1>1, <1>5, <1>6 DEF U256, Value256, Upper, Lower
<1>8. BitOr(Value256(a), Value256(b)) = Value128(up) * Base128 + Value128(low)
    BY <1>2, <1>4, <1>5
<1> QED
    BY <1>7, <1>8

-----------------------------------------------------------------------------
(* divmod256 divides every pair of numbers with a divisor that is not 0.   *)
(* The argument is the one of the loop: the bit in adder is the multiple   *)
(* of the divisor in copyd, what is left to divide is less than twice that *)
(* multiple, and every bit that is set in the quotient is above that bit.  *)

\* What is assumed of the constants: the width, the laws of powers and of |,
\* and dividends of four words.
Laws == WordAssumption /\ PowerLaws /\ OrLaws /\ DividendAssumption

Dividend == Value256(l)
Divisor == Value256(r)

Numbers ==
    /\ l \in U256 /\ r \in U256 /\ r # Zero256
    /\ copyd \in U256 /\ adder \in U256
    /\ resDiv \in U256 /\ resMod \in U256
    /\ stage \in {"CALLED", "ALIGNED", "LOOP", "RETURNED"}

\* The bit k is the next one of the quotient.
AtBit(k) ==
    /\ Value256(adder) = 2^k
    /\ Value256(copyd) = 2^k * Divisor
    /\ Value256(resMod) < 2 * Value256(copyd)

Untouched == resDiv = Zero256 /\ resMod = l

PartsOfDividend == Value256(resDiv) * Divisor + Value256(resMod) = Dividend

DivInv ==
    /\ Numbers
    /\ stage = "CALLED" => Untouched
    /\ stage = "ALIGNED" =>
          /\ Untouched
          /\ Divisor <= Dividend
          /\ \E k \in 0 .. 4 * W - 1 : AtBit(k)
    /\ stage = "LOOP" =>
          /\ PartsOfDividend
          /\ \/ adder = Zero256 /\ Value256(resMod) < Divisor
             \/ \E k \in 0 .. 4 * W - 1 :
                   AtBit(k) /\ Value256(resDiv) % 2^(k + 1) = 0
    /\ stage = "RETURNED" => PartsOfDividend /\ Value256(resMod) < Divisor

-----------------------------------------------------------------------------
(* Numbers of four words.                                                  *)

\* The value of a number is one below the power of the width, and only that of
\* Zero256 is 0.
LEMMA Values ==
    ASSUME Laws
    PROVE  /\ Base256 \in Nat \ {0}
           /\ \A n \in U256 : /\ Value256(n) \in 0 .. Base256 - 1
                              /\ n = Zero256 <=> Value256(n) = 0
           /\ Zero256 \in U256 /\ Value256(Zero256) = 0
           /\ One256 \in U256 /\ Value256(One256) = 1
<1>1. WordAssumption /\ PowerLaws
    BY DEF Laws
<1>2. /\ Base \in Nat \ {0} /\ Base >= 2 /\ Base128 \in Nat \ {0} /\ Base256 \in Nat \ {0}
    BY <1>1, Bases
<1>3. \A n \in U256 : Value256(n) \in 0 .. Base256 - 1
    <2> SUFFICES ASSUME NEW n \in U256 PROVE Value256(n) \in 0 .. Base256 - 1
        OBVIOUS
    <2> DEFINE u == Value128(Upper(n))
               k == Value128(Lower(n))
    <2>1. /\ u \in 0 .. Base128 - 1 /\ k \in 0 .. Base128 - 1
          /\ Value256(n) = u * Base128 + k
        BY <1>2, Parts256
    <2> HIDE DEF u, k
    <2>2. u * Base128 + k \in 0 .. Base128 * Base128 - 1
        BY <1>2, <2>1, PairInRange
    <2> QED
        BY <2>1, <2>2 DEF Base256
<1>4. /\ Zero256 \in U256 /\ Value256(Zero256) = 0
      /\ One256 \in U256 /\ Value256(One256) = 1
    <2>1. Zero128 \in U128 /\ One128 \in U128
        BY <1>2 DEF Zero128, One128, U128, Word
    <2>2. Value128(Zero128) = 0 /\ Value128(One128) = 1
        BY <1>2 DEF Zero128, One128, Value128, Upper, Lower
    <2>3. 0 * (Base * Base) = 0
        BY <1>2
    <2> QED
        BY <2>1, <2>2, <2>3 DEF Zero256, One256, U256, Value256, Upper, Lower
<1>5. \A n \in U256 : n = Zero256 <=> Value256(n) = 0
    BY <1>1, <1>4, OrderOfIntegers
<1> QED
    BY <1>2, <1>3, <1>4, <1>5

\* The words of an integer.
LEMMA WordsOfInteger ==
    ASSUME Laws, NEW x \in 0 .. 2^(4 * W) - 1
    PROVE  Of256(x) \in U256
<1>1. WordAssumption /\ PowerLaws
    BY DEF Laws
<1>2. /\ W \in Nat \ {0} /\ Base \in Nat \ {0} /\ Base128 \in Nat \ {0}
      /\ 2^W = Base /\ 2^(2 * W) = Base128 /\ 2^(4 * W) = Base128 * Base128
    BY <1>1, Bases DEF Base, Base256
<1>3. \A y \in 0 .. Base128 - 1 : Of128(y) \in U128
    <2> SUFFICES ASSUME NEW y \in 0 .. Base128 - 1 PROVE Of128(y) \in U128
        OBVIOUS
    <2>1. y \in 0 .. Base * Base - 1
        BY DEF Base128
    <2>2. y \div Base \in 0 .. Base - 1 /\ y % Base \in 0 .. Base - 1
        BY <1>2, <2>1, DivisionOf
    <2> QED
        BY <1>2, <2>2 DEF Of128, U128, Word
<1>4. x \div Base128 \in 0 .. Base128 - 1 /\ x % Base128 \in 0 .. Base128 - 1
    BY <1>2, DivisionOf
<1> QED
    BY <1>2, <1>3, <1>4 DEF Of256, U256

-----------------------------------------------------------------------------
(* The shifts.                                                             *)

\* The aligned divisor: as wide as the dividend, and so more than half of it.
LEMMA Aligned ==
    ASSUME Laws, Numbers, Untouched, ~Gt256(r, l),
           copyd' = Shiftl256(r, Bits256(l) - Bits256(r)),
           adder' = Shiftl256(One256, Bits256(l) - Bits256(r))
    PROVE  /\ copyd' \in U256 /\ adder' \in U256
           /\ Divisor <= Dividend
           /\ \E k \in 0 .. 4 * W - 1 :
                 /\ Value256(adder') = 2^k
                 /\ Value256(copyd') = 2^k * Divisor
                 /\ Dividend < 2 * Value256(copyd')
<1> DEFINE bl == Bits256(l)
           br == Bits256(r)
           k == bl - br
<1>1. WordAssumption /\ PowerLaws
    BY DEF Laws
<1>2. /\ W \in Nat \ {0} /\ 2^(4 * W) = Base256
    BY <1>1, Bases
<1>3. /\ Dividend \in 0 .. Base256 - 1 /\ Divisor \in 1 .. Base256 - 1
      /\ One256 \in U256 /\ Value256(One256) = 1 /\ Base256 \in Nat \ {0}
    BY Values DEF Numbers, Dividend, Divisor
<1>4. Divisor <= Dividend
    BY <1>1, <1>3, OrderOfIntegers DEF Numbers, Dividend, Divisor
<1>5. /\ bl \in 0 .. 4 * W /\ Dividend < 2^bl /\ (bl > 0 => Dividend >= 2^(bl - 1))
      /\ br \in 0 .. 4 * W /\ Divisor < 2^br /\ (br > 0 => Divisor >= 2^(br - 1))
    BY <1>1, BitsOf256 DEF Numbers, Dividend, Divisor, IsWidth
<1> HIDE DEF bl, br
<1>6. br > 0
    <2>1. CASE br = 0
        <3>1. Divisor < 2^0
            BY <1>5, <2>1
        <3>2. 2^0 = 1
            OBVIOUS
        <3> QED
            BY <1>3, <3>1, <3>2
    <2> QED
        BY <1>5, <2>1
<1>7. \A i \in 0 .. 4 * W : 2^i \in Nat \ {0}
    BY <1>1, <1>2 DEF PowerLaws
<1>8. br <= bl
    <2>1. br - 1 \in 0 .. 4 * W /\ 2^(br - 1) \in Nat /\ 2^bl \in Nat
        BY <1>2, <1>5, <1>6, <1>7
    <2>2. ~(2^bl <= 2^(br - 1))
        BY <1>3, <1>4, <1>5, <1>6, <2>1
    <2>3. ~(bl <= br - 1)
        BY <1>1, <1>5, <2>1, <2>2, PowerOrder
    <2> QED
        BY <1>5, <2>3
<1>9. k \in 0 .. 4 * W - 1 /\ k \in Nat
    BY <1>2, <1>5, <1>6, <1>8
<1>10. /\ 2^bl = 2^k * 2^br /\ 2^(bl - 1) = 2^k * 2^(br - 1) /\ 2^bl = 2 * 2^(bl - 1)
       /\ 2^k \in Nat \ {0} /\ 2^br \in Nat \ {0} /\ 2^(br - 1) \in Nat \ {0}
       /\ 2^bl <= Base256 /\ 2^bl \in Nat
    <2>1. /\ br \in 0 .. bl /\ br - 1 \in 0 .. bl - 1 /\ bl - 1 \in 0 .. 4 * W
          /\ 1 \in 0 .. bl /\ bl - br = k /\ (bl - 1) - (br - 1) = k
          /\ 4 * W \in 0 .. 4 * W
        BY <1>2, <1>5, <1>6, <1>8
    <2>2. 2^bl = 2^br * 2^k
        BY <1>1, <1>5, <2>1, PowerOf
    <2>3. 2^(bl - 1) = 2^(br - 1) * 2^((bl - 1) - (br - 1))
        BY <1>1, <2>1, PowerOf
    <2>4. 2^bl = 2^1 * 2^(bl - 1)
        BY <1>1, <1>5, <2>1, PowerOf
    <2>5. 2^1 = 2
        OBVIOUS
    <2>6. 2^bl <= 2^(4 * W)
        BY <1>1, <1>5, <2>1, PowerOrder
    <2>7. /\ 2^k \in Nat \ {0} /\ 2^br \in Nat \ {0} /\ 2^(br - 1) \in Nat \ {0}
          /\ 2^bl \in Nat
        <3>1. k \in 0 .. 4 * W /\ br - 1 \in 0 .. 4 * W
            BY <1>2, <1>5, <1>6, <1>9
        <3> QED
            BY <1>5, <1>7, <3>1
    <2> HIDE DEF k
    <2>8. 2^(bl - 1) = 2^(br - 1) * 2^k
        BY <2>1, <2>3
    <2> DEFINE x == 2^bl
               y == 2^(bl - 1)
               p == 2^k
               q == 2^br
               t == 2^(br - 1)
    <2>9. x = q * p /\ y = t * p /\ x = 2 * y
        BY <2>2, <2>4, <2>5, <2>8
    <2>10. p \in Nat \ {0} /\ q \in Nat \ {0} /\ t \in Nat \ {0}
        BY <2>7
    <2> HIDE DEF x, y, p, q, t
    <2>11. x = p * q /\ y = p * t
        BY <2>9, <2>10
    <2> QED
        BY <1>2, <2>6, <2>7, <2>9, <2>11 DEF x, y, p, q, t
<1> DEFINE p == 2^k
           q == 2^br
           t == 2^(br - 1)
           e == 2^(bl - 1)
<1>11. /\ p \in Nat \ {0} /\ q \in Nat \ {0} /\ t \in Nat \ {0}
       /\ 2 * e = p * q /\ e = p * t
       /\ p * q <= Base256
       /\ Divisor < q /\ Divisor >= t /\ Dividend < 2 * e
    BY <1>5, <1>6, <1>10
<1>12. /\ copyd' \in U256 /\ Value256(copyd') = (Divisor * p) % Base256
       /\ adder' \in U256 /\ Value256(adder') = (1 * p) % Base256
    <2>1. r \in U256 /\ k < 4 * W
        BY <1>2, <1>9 DEF Numbers
    <2>2. copyd' = Shiftl256(r, k) /\ adder' = Shiftl256(One256, k)
        BY DEF bl, br
    <2> QED
        BY <1>1, <1>3, <1>9, <2>1, <2>2, ShiftsExact DEF Divisor
<1> HIDE DEF k, p, q, t, e
<1>13. p * Divisor \in 0 .. Base256 - 1 /\ p \in 0 .. Base256 - 1
    <2>1. p * Divisor <= p * (q - 1) /\ p * (q - 1) = p * q - p /\ p * Divisor >= p
        BY <1>3, <1>11
    <2> QED
        BY <1>3, <1>11, <2>1
<1>14. Value256(copyd') = p * Divisor /\ Value256(adder') = p
    <2> DEFINE x == p * Divisor
    <2>1. x = Divisor * p /\ x \in 0 .. Base256 - 1
        BY <1>3, <1>11, <1>13
    <2> HIDE DEF x
    <2>2. x % Base256 = x /\ (1 * p) % Base256 = p
        BY <1>3, <1>13, <2>1
    <2> QED
        BY <1>12, <2>1, <2>2 DEF x
<1>15. Dividend < 2 * (p * Divisor)
    <2>1. p * t <= p * Divisor
        BY <1>3, <1>11
    <2> DEFINE x == p * Divisor
               y == p * t
    <2>2. x \in Nat /\ y \in Nat /\ y <= x /\ Dividend < 2 * y /\ Dividend \in Nat
        BY <1>3, <1>11, <2>1
    <2> HIDE DEF x, y
    <2>3. Dividend < 2 * x
        BY <2>2
    <2> QED
        BY <2>3 DEF x
<1> QED
    BY <1>4, <1>9, <1>12, <1>14, <1>15 DEF p

\* A step back to the right halves both, and the last one leaves no bit.
LEMMA Halved ==
    ASSUME Laws, Numbers, NEW k \in 0 .. 4 * W - 1, AtBit(k), ShiftBoth
    PROVE  /\ copyd' \in U256 /\ adder' \in U256
           /\ k = 0 => adder' = Zero256 /\ Value256(copyd) = Divisor
           /\ k > 0 => /\ Value256(adder') = 2^(k - 1)
                       /\ Value256(copyd') = 2^(k - 1) * Divisor
                       /\ Value256(copyd) = 2 * Value256(copyd')
<1>1. WordAssumption /\ PowerLaws
    BY DEF Laws
<1>2. W \in Nat \ {0} /\ Divisor \in Nat
    BY <1>1, Bases, Values DEF Numbers, Divisor
<1>3. /\ copyd' \in U256 /\ Value256(copyd') = Value256(copyd) \div 2^1
      /\ adder' \in U256 /\ Value256(adder') = Value256(adder) \div 2^1
    <2>1. 1 < 4 * W
        BY <1>2
    <2> QED
        BY <1>1, <2>1, ShiftsExact DEF Numbers, ShiftBoth
<1>4. 2^1 = 2 /\ 2^0 = 1
    OBVIOUS
<1>5. CASE k = 0
    <2>1. Value256(adder') = 1 \div 2
        BY <1>3, <1>4, <1>5 DEF AtBit
    <2>2. 1 \div 2 = 0 /\ 1 * Divisor = Divisor
        BY <1>2
    <2>3. adder' = Zero256
        BY <1>3, <2>1, <2>2, Values
    <2> QED
        BY <1>3, <1>4, <1>5, <2>2, <2>3 DEF AtBit
<1>6. CASE k > 0
    <2>1. 2^k = 2 * 2^(k - 1) /\ 2^(k - 1) \in Nat \ {0}
        <3>1. k \in 0 .. 4 * W /\ 1 \in 0 .. k
            BY <1>2, <1>6
        <3> QED
            BY <1>1, <1>4, <3>1, PowerOf
    <2> DEFINE p == 2^(k - 1)
               x == p * Divisor
    <2>2. /\ p \in Nat /\ x \in Nat
          /\ Value256(adder) = 2 * p /\ Value256(copyd) = 2 * x
        <3> DEFINE y == 2^k
        <3>1. y = 2 * p /\ p \in Nat /\ Value256(adder) = y /\ Value256(copyd) = y * Divisor
            BY <2>1 DEF AtBit
        <3> HIDE DEF p, y
        <3>2. (2 * p) * Divisor = 2 * (p * Divisor) /\ p * Divisor \in Nat
            BY <1>2, <3>1
        <3> QED
            BY <3>1, <3>2
    <2> HIDE DEF x
    <2>3. (2 * p) \div 2 = p /\ (2 * x) \div 2 = x
        <3> HIDE DEF p
        <3> QED
            BY <2>2
    <2>4. Value256(adder') = p /\ Value256(copyd') = x
        BY <1>3, <1>4, <2>2, <2>3
    <2> QED
        BY <1>3, <1>6, <2>2, <2>4 DEF x
<1> QED
    BY <1>3, <1>5, <1>6

-----------------------------------------------------------------------------
(* The steps.                                                              *)

LEMMA InitDivision ==
    ASSUME Laws, Init PROVE DivInv
<1>1. l \in U256
    BY WordsOfInteger DEF Laws, DividendAssumption, Init
<1>2. Zero256 \in U256
    BY Values
<1> QED
    BY <1>1, <1>2 DEF Init, DivInv, Numbers, Untouched

\* A quotient of 0 leaves the dividend.
LEMMA UntouchedParts ==
    ASSUME Laws, Numbers, Untouched
    PROVE  PartsOfDividend /\ Dividend \in Nat /\ Divisor \in Nat \ {0}
<1>1. /\ Dividend \in 0 .. Base256 - 1 /\ Divisor \in 0 .. Base256 - 1 /\ Divisor # 0
      /\ Value256(Zero256) = 0 /\ Base256 \in Nat
    BY Values DEF Numbers, Dividend, Divisor
<1>2. Value256(resDiv) = 0 /\ Value256(resMod) = Dividend
    BY <1>1 DEF Untouched, Dividend
<1>3. 0 * Divisor + Dividend = Dividend
    BY <1>1
<1> QED
    BY <1>1, <1>2, <1>3 DEF PartsOfDividend

LEMMA SmallerStep ==
    ASSUME Laws, DivInv, Smaller PROVE DivInv'
<1>1. Numbers /\ Untouched
    BY DEF DivInv, Smaller
<1>2. PartsOfDividend
    BY <1>1, UntouchedParts
<1>3. Dividend < Divisor
    <2>1. Gt256(r, l) <=> Divisor > Dividend
        BY <1>1, OrderOfIntegers DEF Laws, Numbers, Dividend, Divisor
    <2>2. Dividend \in Nat /\ Divisor \in Nat
        BY <1>1, UntouchedParts
    <2> QED
        BY <2>1, <2>2 DEF Smaller
<1>4. UNCHANGED <<l, r, copyd, adder, resDiv, resMod>> /\ stage' = "RETURNED"
    BY DEF Smaller, arguments, shifted, results
<1> QED
    BY <1>1, <1>2, <1>3, <1>4
       DEF DivInv, Numbers, Untouched, PartsOfDividend, Dividend, Divisor

LEMMA AlignStep ==
    ASSUME Laws, DivInv, Align PROVE DivInv'
<1>1. Numbers /\ Untouched /\ ~Gt256(r, l)
    BY DEF DivInv, Align
<1>2. /\ copyd' = Shiftl256(r, Bits256(l) - Bits256(r))
      /\ adder' = Shiftl256(One256, Bits256(l) - Bits256(r))
      /\ UNCHANGED <<l, r, resDiv, resMod>> /\ stage' = "ALIGNED"
    BY DEF Align, arguments, results
<1>3. PICK k \in 0 .. 4 * W - 1 : /\ Value256(adder') = 2^k
                                  /\ Value256(copyd') = 2^k * Divisor
                                  /\ Dividend < 2 * Value256(copyd')
    BY <1>1, <1>2, Aligned
<1>4. copyd' \in U256 /\ adder' \in U256 /\ Divisor <= Dividend
    BY <1>1, <1>2, Aligned
<1>5. AtBit(k)'
    BY <1>1, <1>2, <1>3 DEF AtBit, Divisor, Dividend, Untouched
<1>6. Numbers' /\ Untouched' /\ (Divisor <= Dividend)'
    BY <1>1, <1>2, <1>4 DEF Numbers, Untouched, Dividend, Divisor
<1> QED
    BY <1>2, <1>5, <1>6 DEF DivInv

LEMMA StepBackStep ==
    ASSUME Laws, DivInv, StepBack PROVE DivInv'
<1>1. /\ Numbers /\ Untouched /\ Divisor <= Dividend
      /\ UNCHANGED <<l, r, resDiv, resMod>> /\ stage' = "LOOP"
    BY DEF DivInv, StepBack, arguments, results
<1>2. PICK k \in 0 .. 4 * W - 1 : AtBit(k)
    BY DEF DivInv, StepBack
<1>3. PartsOfDividend /\ Dividend \in Nat /\ Divisor \in Nat \ {0}
    BY <1>1, UntouchedParts
<1>4. PartsOfDividend'
    BY <1>1, <1>3 DEF PartsOfDividend, Dividend, Divisor
<1>5. \A i \in 0 .. 4 * W : Value256(resDiv') % 2^i = 0
    <2>1. Value256(resDiv') = 0
        BY <1>1, Values DEF Untouched
    <2>2. \A i \in 0 .. 4 * W : 2^i \in Nat \ {0}
        BY DEF Laws, WordAssumption, PowerLaws
    <2>3. \A p \in Nat \ {0} : 0 % p = 0
        OBVIOUS
    <2> QED
        BY <2>1, <2>2, <2>3
<1>6. W \in Nat \ {0}
    BY DEF Laws, WordAssumption
<1>7. CASE Gt256(copyd, resMod)
    <2>1. ShiftBoth
        BY <1>7 DEF StepBack
    <2>2. Value256(copyd) > Value256(resMod) /\ Value256(resMod) = Dividend
        BY <1>1, <1>7, OrderOfIntegers DEF Laws, Numbers, Untouched, Dividend
    <2>3. /\ copyd' \in U256 /\ adder' \in U256
          /\ k = 0 => Value256(copyd) = Divisor
          /\ k > 0 => /\ Value256(adder') = 2^(k - 1)
                      /\ Value256(copyd') = 2^(k - 1) * Divisor
                      /\ Value256(copyd) = 2 * Value256(copyd')
        BY <1>1, <1>2, <2>1, Halved
    <2>4. k > 0
        BY <1>1, <1>3, <2>2, <2>3
    <2>5. AtBit(k - 1)'
        <3>1. Value256(resMod) < 2 * Value256(copyd')
            <4>1. Value256(copyd') \in Int /\ Value256(copyd) \in Int
                  /\ Value256(resMod) \in Int
                BY <1>1, <2>3, Values DEF Numbers
            <4> QED
                BY <2>2, <2>3, <2>4, <4>1
        <3> QED
            BY <1>1, <2>3, <2>4, <3>1 DEF AtBit, Divisor
    <2>6. k - 1 \in 0 .. 4 * W - 1 /\ k - 1 + 1 \in 0 .. 4 * W
        BY <1>6, <2>4
    <2>7. Value256(resDiv') % 2^(k - 1 + 1) = 0
        BY <1>5, <2>6
    <2>8. Numbers'
        BY <1>1, <2>3 DEF Numbers
    <2> QED
        BY <1>1, <1>4, <2>5, <2>6, <2>7, <2>8 DEF DivInv
<1>8. CASE ~Gt256(copyd, resMod)
    <2>1. UNCHANGED <<copyd, adder>>
        BY <1>8 DEF StepBack, shifted
    <2>2. Numbers' /\ AtBit(k)'
        BY <1>1, <1>2, <2>1 DEF Numbers, AtBit, Divisor
    <2>3. Value256(resDiv') % 2^(k + 1) = 0
        BY <1>5, <1>6
    <2> QED
        BY <1>1, <1>4, <2>2, <2>3 DEF DivInv
<1> QED
    BY <1>7, <1>8

\* As long as the divisor fits into what is left, a bit is left.
LEMMA BitLeft ==
    ASSUME Laws, DivInv, stage = "LOOP", Divisible
    PROVE  /\ Numbers /\ PartsOfDividend
           /\ Value256(resMod) >= Divisor /\ Divisor \in Nat \ {0}
           /\ \E k \in 0 .. 4 * W - 1 : AtBit(k) /\ Value256(resDiv) % 2^(k + 1) = 0
<1>1. Numbers /\ PartsOfDividend
    BY DEF DivInv
<1>2. Value256(resMod) >= Divisor
    BY <1>1, OrderOfIntegers DEF Laws, Numbers, Divisible, Divisor
<1>3. /\ Value256(resMod) \in 0 .. Base256 - 1 /\ Base256 \in Nat
      /\ Divisor \in 0 .. Base256 - 1 /\ Divisor # 0
    BY <1>1, Values DEF Numbers, Divisor
<1> QED
    BY <1>1, <1>2, <1>3 DEF DivInv

\* A quotient whose bits are all above the bit k gets that bit, and keeps none
\* below it.
LEMMA NextBit ==
    ASSUME Laws, Numbers, NEW k \in 0 .. 4 * W - 1, AtBit(k),
           Value256(resDiv) % 2^(k + 1) = 0
    PROVE  /\ Or256(resDiv, adder) \in U256
           /\ Value256(Or256(resDiv, adder)) = Value256(resDiv) + 2^k
           /\ (Value256(resDiv) + 2^k) % 2^k = 0 /\ Value256(resDiv) % 2^k = 0
<1> DEFINE x == Value256(resDiv)
           p == 2^k
           t == 2^(k + 1)
           c == x \div t
<1>1. WordAssumption /\ PowerLaws /\ OrLaws
    BY DEF Laws
<1>2. x \in 0 .. Base256 - 1 /\ Base256 \in Nat
    BY Values DEF Numbers
<1>3. t = p * 2 /\ p \in Nat \ {0} /\ t \in Nat \ {0}
    <2>1. W \in Nat \ {0} /\ k \in 0 .. 4 * W /\ 1 \in 0 .. 4 * W /\ k + 1 \in 0 .. 4 * W
        BY <1>1, Bases
    <2>2. t = 2^k * 2^1 /\ 2^k \in Nat \ {0} /\ t \in Nat \ {0}
        BY <1>1, <2>1 DEF PowerLaws
    <2>3. 2^1 = 2
        OBVIOUS
    <2> QED
        BY <2>2, <2>3
<1> HIDE DEF x, p, t
<1>4. x = c * t /\ c \in Int
    <2>1. x % t = 0
        BY DEF x, t
    <2>2. x = (x \div t) * t + (x % t) /\ x \div t \in Int
        BY <1>2, <1>3
    <2> HIDE DEF c
    <2>3. x = c * t + 0 /\ c \in Int
        BY <2>1, <2>2 DEF c
    <2> QED
        BY <1>3, <2>3
<1> HIDE DEF c
<1>5. /\ Or256(resDiv, adder) \in U256
      /\ Value256(Or256(resDiv, adder)) = Value256(resDiv) + 2^k
    <2>1. Value256(resDiv) = c * 2^(k + 1) /\ Value256(adder) = 2^k
        BY <1>4 DEF x, t, AtBit
    <2>2. resDiv \in U256 /\ adder \in U256
        BY DEF Numbers
    <2> QED
        BY ONLY <1>1, <1>4, <2>1, <2>2, k \in 0 .. 4 * W - 1, BitOf256
<1>6. (x + p) % p = 0 /\ x % p = 0
    <2> DEFINE d == 2 * c
               e == 2 * c + 1
    <2>1. x = d * p + 0 /\ x + p = e * p + 0 /\ d \in Int /\ e \in Int
        BY <1>3, <1>4
    <2> HIDE DEF d, e
    <2>2. (d * p + 0) % p = 0 /\ (e * p + 0) % p = 0
        BY <1>3, <2>1, DivisionUnique
    <2> QED
        BY <2>1, <2>2
<1> QED
    BY <1>5, <1>6 DEF x, p

\* After a turn the next bit is the one before, or there is none and less than
\* the divisor is left.
LEMMA TurnDone ==
    ASSUME Laws, Numbers, NEW k \in 0 .. 4 * W - 1, AtBit(k), ShiftBoth,
           resDiv' \in U256, resMod' \in U256, UNCHANGED <<l, r>>, stage' = "LOOP",
           PartsOfDividend',
           Value256(resMod') < Value256(copyd),
           Value256(resDiv') % 2^k = 0
    PROVE  DivInv'
<1>1. /\ copyd' \in U256 /\ adder' \in U256
      /\ k = 0 => adder' = Zero256 /\ Value256(copyd) = Divisor
      /\ k > 0 => /\ Value256(adder') = 2^(k - 1)
                  /\ Value256(copyd') = 2^(k - 1) * Divisor
                  /\ Value256(copyd) = 2 * Value256(copyd')
    BY Halved
<1>2. Numbers' /\ Divisor' = Divisor
    BY <1>1 DEF Numbers, Divisor
<1>3. CASE k = 0
    BY <1>1, <1>2, <1>3 DEF DivInv
<1>4. CASE k > 0
    <2>1. AtBit(k - 1)'
        BY <1>1, <1>2, <1>4 DEF AtBit
    <2>2. W \in Nat \ {0}
        BY DEF Laws, WordAssumption
    <2>3. k - 1 \in 0 .. 4 * W - 1 /\ (k - 1) + 1 = k
        BY <1>4, <2>2
    <2> QED
        BY <1>2, <2>1, <2>3 DEF DivInv
<1> QED
    BY <1>3, <1>4

LEMMA SubtractStep ==
    ASSUME Laws, DivInv, Subtract PROVE DivInv'
<1>1. /\ Numbers /\ PartsOfDividend /\ Divisor \in Nat \ {0}
      /\ \E k \in 0 .. 4 * W - 1 : AtBit(k) /\ Value256(resDiv) % 2^(k + 1) = 0
    BY BitLeft DEF Subtract
<1>2. PICK k \in 0 .. 4 * W - 1 : AtBit(k) /\ Value256(resDiv) % 2^(k + 1) = 0
    BY <1>1
<1>3. /\ resMod' = Minus256(resMod, copyd) /\ resDiv' = Or256(resDiv, adder) /\ ShiftBoth
      /\ UNCHANGED <<l, r>> /\ stage' = "LOOP"
    BY DEF Subtract, arguments
<1>4. WordAssumption /\ PowerLaws
    BY DEF Laws
<1>5. Value256(resMod) >= Value256(copyd)
    BY <1>1, <1>4, OrderOfIntegers DEF Numbers, Subtract, Fits
<1>6. /\ Value256(resMod) \in 0 .. Base256 - 1 /\ Value256(copyd) \in 0 .. Base256 - 1
      /\ Value256(resDiv) \in 0 .. Base256 - 1 /\ Base256 \in Nat \ {0}
    BY <1>1, Values DEF Numbers
<1>7. resMod' \in U256 /\ Value256(resMod') = Value256(resMod) - Value256(copyd)
    <2>1. /\ resMod' \in U256
          /\ Value256(resMod') = (Value256(resMod) - Value256(copyd)) % Base256
        BY <1>1, <1>3, <1>4, DifferenceExact DEF Numbers
    <2> DEFINE x == Value256(resMod) - Value256(copyd)
    <2>2. x \in 0 .. Base256 - 1
        BY <1>5, <1>6
    <2> HIDE DEF x
    <2>3. x % Base256 = x
        BY <1>6, <2>2
    <2> QED
        BY <2>1, <2>3 DEF x
<1>8. /\ resDiv' \in U256 /\ Value256(resDiv') = Value256(resDiv) + 2^k
      /\ Value256(resDiv') % 2^k = 0
    BY <1>1, <1>2, <1>3, NextBit
<1>9. Value256(resMod') < Value256(copyd)
    BY <1>2, <1>6, <1>7 DEF AtBit
<1>10. PartsOfDividend'
    <2> DEFINE d == Value256(resDiv)
               m == Value256(resMod)
               p == 2^k
               y == Value256(copyd)
    <2>1. y = p * Divisor
        BY <1>2 DEF AtBit
    <2>2. p \in Nat
        BY <1>4 DEF WordAssumption, PowerLaws
    <2>3. d * Divisor + m = Dividend
        BY <1>1 DEF PartsOfDividend
    <2>4. Value256(resDiv') = d + p /\ Value256(resMod') = m - y
        BY <1>7, <1>8
    <2>5. d \in Nat /\ m \in Nat
        BY <1>6
    <2> HIDE DEF d, m, p, y
    <2>6. (d + p) * Divisor + (m - y) = d * Divisor + m
        BY ONLY <1>1, <2>1, <2>2, <2>5
    <2>7. Divisor' = Divisor /\ Dividend' = Dividend
        BY <1>3 DEF Divisor, Dividend
    <2> QED
        BY <2>3, <2>4, <2>6, <2>7 DEF PartsOfDividend
<1> QED
    BY <1>1, <1>2, <1>3, <1>7, <1>8, <1>9, <1>10, TurnDone

LEMMA SkipStep ==
    ASSUME Laws, DivInv, Skip PROVE DivInv'
<1>1. /\ Numbers /\ PartsOfDividend
      /\ \E k \in 0 .. 4 * W - 1 : AtBit(k) /\ Value256(resDiv) % 2^(k + 1) = 0
    BY BitLeft DEF Skip
<1>2. PICK k \in 0 .. 4 * W - 1 : AtBit(k) /\ Value256(resDiv) % 2^(k + 1) = 0
    BY <1>1
<1>3. ShiftBoth /\ UNCHANGED <<l, r, resDiv, resMod>> /\ stage' = "LOOP"
    BY DEF Skip, arguments, results
<1>4. Value256(resMod) < Value256(copyd)
    <2>1. ~(Value256(resMod) >= Value256(copyd))
        BY <1>1, OrderOfIntegers DEF Laws, Numbers, Skip, Fits
    <2>2. Value256(resMod) \in Int /\ Value256(copyd) \in Int
        BY <1>1, Values DEF Numbers
    <2> QED
        BY <2>1, <2>2
<1>5. Value256(resDiv') % 2^k = 0
    BY <1>1, <1>2, <1>3, NextBit
<1>6. PartsOfDividend' /\ resDiv' \in U256 /\ resMod' \in U256
    BY <1>1, <1>3 DEF PartsOfDividend, Dividend, Divisor, Numbers
<1>7. Value256(resMod') < Value256(copyd)
    BY <1>3, <1>4
<1> QED
    BY <1>1, <1>2, <1>3, <1>5, <1>6, <1>7, TurnDone

LEMMA ReturnStep ==
    ASSUME Laws, DivInv, Return PROVE DivInv'
<1>1. Numbers /\ PartsOfDividend
    BY DEF DivInv, Return
<1>2. Value256(resMod) < Divisor
    <2>1. ~(Value256(resMod) >= Divisor)
        BY <1>1, OrderOfIntegers DEF Laws, Numbers, Return, Divisible, Divisor
    <2>2. Value256(resMod) \in Int /\ Divisor \in Int
        BY <1>1, Values DEF Numbers, Divisor
    <2> QED
        BY <2>1, <2>2
<1>3. UNCHANGED <<l, r, copyd, adder, resDiv, resMod>> /\ stage' = "RETURNED"
    BY DEF Return, arguments, shifted, results
<1> QED
    BY <1>1, <1>2, <1>3 DEF DivInv, Numbers, PartsOfDividend, Dividend, Divisor

LEMMA DivisionStep ==
    ASSUME Laws, DivInv, [Next]_vars PROVE DivInv'
<1>1. CASE Smaller
    BY <1>1, SmallerStep
<1>2. CASE Align
    BY <1>2, AlignStep
<1>3. CASE StepBack
    BY <1>3, StepBackStep
<1>4. CASE Subtract
    BY <1>4, SubtractStep
<1>5. CASE Skip
    BY <1>5, SkipStep
<1>6. CASE Return
    BY <1>6, ReturnStep
<1>7. CASE UNCHANGED vars
    BY <1>7 DEF vars, arguments, shifted, results, DivInv, Numbers, Untouched,
                AtBit, PartsOfDividend, Dividend, Divisor
<1> QED
    BY <1>1, <1>2, <1>3, <1>4, <1>5, <1>6, <1>7 DEF Next

LEMMA DivisionResult ==
    ASSUME Laws, DivInv PROVE QuotientExact /\ NothingLostInTheLoop
<1>1. QuotientExact
    <2> SUFFICES ASSUME stage = "RETURNED" PROVE QuotientExact
        BY DEF QuotientExact
    <2> DEFINE q == Value256(resDiv)
               m == Value256(resMod)
    <2>1. q * Divisor + m = Dividend /\ m < Divisor
        BY DEF DivInv, PartsOfDividend
    <2>2. q \in Int /\ m \in Nat /\ Divisor \in Nat
        BY Values DEF DivInv, Numbers, Divisor
    <2> HIDE DEF q, m
    <2>3. Divisor \in Nat \ {0} /\ m \in 0 .. Divisor - 1
        BY <2>1, <2>2
    <2>4. (q * Divisor + m) % Divisor = m /\ (q * Divisor + m) \div Divisor = q
        BY <2>2, <2>3, DivisionUnique
    <2> QED
        BY <2>1, <2>4 DEF QuotientExact, Dividend, Divisor, q, m
<1>2. NothingLostInTheLoop
    BY DEF DivInv, NothingLostInTheLoop, PartsOfDividend, Dividend, Divisor, AtBit
<1> QED
    BY <1>1, <1>2

\* divmod256 returns the quotient and the remainder of the integers, whatever the
\* width of a word.  In every turn of its loop nothing of the dividend is lost,
\* and the two that are shifted alike stand for the same multiple.
THEOREM DivisionExactly ==
    ASSUME Laws PROVE Spec => [](QuotientExact /\ NothingLostInTheLoop)
<1>1. Init => DivInv
    BY InitDivision
<1>2. DivInv /\ [Next]_vars => DivInv'
    BY DivisionStep
<1>3. DivInv => QuotientExact /\ NothingLostInTheLoop
    BY DivisionResult
<1> QED
    BY <1>1, <1>2, <1>3, PTL DEF Spec
=============================================================================
