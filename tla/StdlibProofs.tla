---------------------------- MODULE StdlibProofs ----------------------------
(***************************************************************************)
(* The string functions of stdlib.c, for every set of strings and every    *)
(* even number of chars: a word of four bytes and its test for a zero, and *)
(* the invariant of the loops, a prefix of whose work is done.             *)
(***************************************************************************)
EXTENDS Stdlib, SequenceTheorems, TLAPS

-----------------------------------------------------------------------------
(* The bytes of a word.                                                    *)

\* A quotient lies where its bounds say.
LEMMA QuotientWithin ==
  ASSUME NEW a \in Int, NEW d \in Nat \ {0}, NEW lo \in Int, NEW hi \in Int, d * lo <= a, a < d * (hi + 1)
  PROVE  a \div d \in lo..hi
<1> DEFINE q == a \div d
<1>1. q \in Int /\ d * q <= a /\ a < d * (q + 1)
  OBVIOUS
<1> HIDE DEF q
<1>2. ~(q < lo)
  <2> SUFFICES ASSUME q + 1 <= lo PROVE FALSE
    BY <1>1
  <2>1. d * (q + 1) <= d * lo
    BY <1>1
  <2> QED BY <1>1, <2>1
<1>3. ~(q > hi)
  <2> SUFFICES ASSUME q >= hi + 1 PROVE FALSE
    BY <1>1
  <2>1. d * q >= d * (hi + 1)
    BY <1>1
  <2> QED BY <1>1, <2>1
<1> QED BY <1>1, <1>2, <1>3 DEF q

\* The top bit of a byte, by what is below and above it in the word.
LEMMA TopOfByte ==
  ASSUME NEW W \in Nat \ {0}, NEW H \in Nat \ {0}, NEW lo \in 0..(W - 1), NEW d \in 0..(2 * H - 1),
         NEW hi \in Int, NEW u \in Int, u = lo + W * (d + 2 * H * hi)
  PROVE  (u \div (W * H)) % 2 = IF d >= H THEN 1 ELSE 0
<1> DEFINE X == W * H
<1>1. X \in Nat \ {0}
  OBVIOUS
<1>2. u = lo + W * d + X * (2 * hi)
  OBVIOUS
<1>3. X * (2 * hi + 1) = X * (2 * hi) + X /\ X * (2 * hi + 1 + 1) = X * (2 * hi) + 2 * X
  BY <1>1
<1>4. CASE d < H
  <2>1. 0 <= W * d /\ W * d <= X - W
    <3>1. W * d <= W * (H - 1) /\ W * (H - 1) = X - W
      BY <1>4
    <3> QED BY <3>1
  <2>2. X * (2 * hi) <= u /\ u < X * (2 * hi + 1)
    <3> HIDE DEF X
    <3> QED BY <1>1, <1>2, <1>3, <2>1
  <2> HIDE DEF X
  <2>3. u \div X \in (2 * hi)..(2 * hi)
    BY <1>1, <2>2, QuotientWithin
  <2>4. u \div X = 2 * hi
    BY <2>3
  <2> QED BY <1>4, <2>4 DEF X
<1>5. CASE d >= H
  <2>1. X <= W * d /\ W * d <= 2 * X - W
    <3>1. W * H <= W * d /\ W * d <= W * (2 * H - 1) /\ W * (2 * H - 1) = 2 * X - W
      BY <1>5
    <3> QED BY <3>1
  <2>2. X * (2 * hi + 1) <= u /\ u < X * (2 * hi + 1 + 1)
    <3> HIDE DEF X
    <3> QED BY <1>1, <1>2, <1>3, <2>1
  <2> HIDE DEF X
  <2>3. u \div X \in (2 * hi + 1)..(2 * hi + 1)
    BY <1>1, <2>2, QuotientWithin
  <2>4. u \div X = 2 * hi + 1
    BY <2>3
  <2> QED BY <1>5, <2>4 DEF X
<1> QED BY <1>4, <1>5

LEMMA Chars ==
  /\ CharMod \in Nat /\ CharMod >= 4
  /\ CharMod \div 2 \in Nat /\ CharMod = 2 * (CharMod \div 2) /\ CharMod \div 2 >= 2
BY CharAssumption

\* The top bit of byte k of a word or of a difference, by its bytes.
LEMMA TopBits ==
  ASSUME NEW k \in 0..3, NEW lo \in 0..(Weight(k) - 1), NEW d \in Char, NEW hi \in Int, NEW u \in Int,
         u = lo + Weight(k) * (d + CharMod * hi), Weight(k) \in Nat \ {0}
  PROVE  TopBit(u, k) = IF d >= CharMod \div 2 THEN 1 ELSE 0
<1> DEFINE H == CharMod \div 2
           W == Weight(k)
<1>1. H \in Nat \ {0} /\ CharMod = 2 * H
  BY Chars
<1> HIDE DEF H, W
<1>2. d \in 0..(2 * H - 1) /\ u = lo + W * (d + 2 * H * hi) /\ lo \in 0..(W - 1) /\ W \in Nat \ {0}
  BY <1>1 DEF Char, W
<1>3. (u \div (W * H)) % 2 = IF d >= H THEN 1 ELSE 0
  BY <1>1, <1>2, TopOfByte
<1> QED BY <1>3 DEF TopBit, H, W

LEMMA Weights ==
  /\ Weight(0) = 1 /\ Weight(1) = CharMod /\ Weight(2) = CharMod * CharMod
  /\ Weight(3) = CharMod * CharMod * CharMod
  /\ \A k \in 0..3 : Weight(k) \in Nat \ {0}
<1>1. Weight(0) = 1 /\ Weight(1) = CharMod
  BY DEF Weight
<1>2. Weight(2) = CharMod * CharMod /\ Weight(3) = CharMod * CharMod * CharMod
  BY DEF Weight
<1>3. CharMod \in Nat \ {0}
  BY Chars
<1>4. CharMod * CharMod \in Nat \ {0}
  BY <1>3
<1>5. CharMod * CharMod * CharMod \in Nat \ {0}
  BY <1>3, <1>4
<1>6. ASSUME NEW k \in 0..3 PROVE Weight(k) \in Nat \ {0}
  <2>1. k = 0 \/ k = 1 \/ k = 2 \/ k = 3
    BY <1>6
  <2> QED BY <1>1, <1>2, <1>3, <1>4, <1>5, <2>1
<1> QED BY <1>1, <1>2, <1>6

\* The bytes below one make less than its weight.
LEMMA BytesBelow ==
  ASSUME NEW W \in Nat \ {0}, NEW lo \in 0..(W - 1), NEW x \in Char
  PROVE  lo + W * x \in 0..(W * CharMod - 1)
<1>1. 0 <= W * x /\ W * x <= W * (CharMod - 1) /\ W * (CharMod - 1) = W * CharMod - W
  BY Chars DEF Char
<1>2. W * x \in Int /\ W * CharMod \in Int
  BY Chars DEF Char
<1> QED BY <1>1, <1>2

\* The word of four bytes, some of which may have borrowed from above.
WordOf(e) == e[0] + Weight(1) * e[1] + Weight(2) * e[2] + Weight(3) * e[3]

LEMMA TopBitOf ==
  ASSUME NEW k \in 0..3, NEW e \in [0..3 -> Int], NEW t \in Int, \A j \in 0..k : e[j] \in Char
  PROVE  TopBit(WordOf(e) + WordMod * t, k) = IF e[k] >= CharMod \div 2 THEN 1 ELSE 0
<1> DEFINE C == CharMod
           u == WordOf(e) + WordMod * t
<1>1. C \in Nat \ {0} /\ e[0] \in Int /\ e[1] \in Int /\ e[2] \in Int /\ e[3] \in Int
  BY Chars
<1>2. u = e[0] + C * e[1] + C * C * e[2] + C * C * C * e[3] + C * C * C * C * t
  BY Weights DEF WordOf, WordMod
<1>3. u \in Int
  BY <1>1, <1>2
<1> HIDE DEF u
<1>4. CASE k = 0
  <2> DEFINE hi == e[1] + C * e[2] + C * C * e[3] + C * C * C * t
  <2>1. hi \in Int /\ u = 0 + 1 * (e[0] + C * hi)
    BY <1>1, <1>2
  <2> HIDE DEF hi
  <2>2. e[0] \in Char /\ Weight(0) = 1
    BY <1>4, Weights
  <2>3. u = 0 + Weight(0) * (e[0] + CharMod * hi) /\ 0 \in 0..(Weight(0) - 1)
    BY <2>1, <2>2
  <2> QED BY <1>3, <1>4, <2>1, <2>2, <2>3, Weights, TopBits DEF u
<1>5. CASE k = 1
  <2> DEFINE hi == e[2] + C * e[3] + C * C * t
  <2>1. hi \in Int /\ u = e[0] + C * (e[1] + C * hi)
    BY <1>1, <1>2
  <2> HIDE DEF hi
  <2>2. e[0] \in Char /\ e[1] \in Char /\ Weight(1) = C
    BY <1>5, Weights
  <2>3. u = e[0] + Weight(1) * (e[1] + CharMod * hi) /\ e[0] \in 0..(Weight(1) - 1)
    BY <2>1, <2>2 DEF Char
  <2> QED BY <1>3, <1>5, <2>1, <2>2, <2>3, Weights, TopBits DEF u
<1>6. CASE k = 2
  <2> DEFINE hi == e[3] + C * t
             lo == e[0] + C * e[1]
  <2>1. hi \in Int /\ u = lo + C * C * (e[2] + C * hi)
    BY <1>1, <1>2
  <2>2. e[0] \in Char /\ e[1] \in Char /\ e[2] \in Char /\ Weight(2) = C * C
    BY <1>6, Weights
  <2>3. lo \in 0..(C * C - 1)
    BY <1>1, <2>2, BytesBelow DEF Char
  <2> HIDE DEF hi, lo
  <2>4. u = lo + Weight(2) * (e[2] + CharMod * hi) /\ lo \in 0..(Weight(2) - 1)
    BY <2>1, <2>2, <2>3
  <2> QED BY <1>3, <1>6, <2>1, <2>2, <2>4, Weights, TopBits DEF u
<1>7. CASE k = 3
  <2> DEFINE lo2 == e[0] + C * e[1]
             lo == lo2 + C * C * e[2]
  <2>1. u = lo + C * C * C * (e[3] + C * t)
    BY <1>1, <1>2
  <2>2. e[0] \in Char /\ e[1] \in Char /\ e[2] \in Char /\ e[3] \in Char /\ Weight(3) = C * C * C
    BY <1>7, Weights
  <2>3. lo2 \in 0..(C * C - 1)
    BY <1>1, <2>2, BytesBelow DEF Char
  <2>4. C * C \in Nat \ {0}
    BY <1>1
  <2>5. lo \in 0..(C * C * C - 1)
    <3> HIDE DEF lo2
    <3> QED BY <2>2, <2>3, <2>4, BytesBelow
  <2> HIDE DEF lo
  <2>6. u = lo + Weight(3) * (e[3] + CharMod * t) /\ lo \in 0..(Weight(3) - 1)
    BY <2>1, <2>2, <2>5
  <2> QED BY <1>3, <1>7, <2>2, <2>6, Weights, TopBits DEF u
<1> QED BY <1>4, <1>5, <1>6, <1>7

LEMMA WordModNat == WordMod \in Nat \ {0}
<1>1. CharMod * CharMod * CharMod \in Nat \ {0} /\ CharMod \in Nat \ {0}
  BY Weights, Chars
<1>2. CharMod * CharMod * CharMod * CharMod \in Nat \ {0}
  BY <1>1
<1> QED BY <1>2 DEF WordMod

\* Where the bytes below have not borrowed, a byte of the difference has its top bit
\* when the byte is zero, and else only when the byte has it: the test of stdlib.c:39.
LEMMA ZeroByte ==
  ASSUME NEW e \in [0..3 -> Char]
  PROVE  HasZero(WordOf(e)) <=> \E k \in 0..3 : e[k] = 0
<1> DEFINE C == CharMod
           H == CharMod \div 2
           v == WordOf(e)
           u == (v - Ones) % WordMod
<1>1. C \in Nat /\ C >= 4 /\ C = 2 * H /\ H \in Nat /\ H >= 2
  BY Chars
<1>2. e[0] \in Char /\ e[1] \in Char /\ e[2] \in Char /\ e[3] \in Char
  OBVIOUS
<1>3. \A k \in 0..3 : e[k] \in Int
  BY <1>1 DEF Char
<1>4. /\ v = e[0] + C * e[1] + C * C * e[2] + C * C * C * e[3]
      /\ Ones = 1 + C + C * C + C * C * C
      /\ WordMod = C * C * C * C
  BY Weights DEF WordOf, Ones, WordMod
<1>5. v \in Int /\ v - Ones \in Int
  BY <1>1, <1>3, <1>4
<1>6. PICK t \in Int : u = v - Ones + WordMod * t
  <2> DEFINE n == v - Ones
             q == n \div WordMod
  <2> HIDE DEF v
  <2>1. n \in Int
    BY <1>5
  <2> HIDE DEF n
  <2>2. q \in Int /\ n = WordMod * q + (n % WordMod)
    BY <2>1, WordModNat
  <2>3. WordMod * (-q) = -(WordMod * q) /\ -q \in Int
    BY <2>2, WordModNat
  <2>4. n % WordMod = n + WordMod * (-q)
    BY <2>1, <2>2, <2>3, WordModNat
  <2> QED BY <2>3, <2>4 DEF n
<1>7. \A k \in 0..3 : TopBit(v, k) = IF e[k] >= H THEN 1 ELSE 0
  <2> SUFFICES ASSUME NEW k \in 0..3 PROVE TopBit(v, k) = IF e[k] >= H THEN 1 ELSE 0
    OBVIOUS
  <2>1. e \in [0..3 -> Int] /\ \A j \in 0..k : e[j] \in Char
    BY <1>3
  <2>2. TopBit(WordOf(e) + WordMod * 0, k) = IF e[k] >= H THEN 1 ELSE 0
    BY <2>1, TopBitOf
  <2>3. WordOf(e) + WordMod * 0 = v
    BY <1>5, WordModNat
  <2> QED BY <2>2, <2>3
<1>8. ASSUME NEW k \in 0..3, NEW f \in [0..3 -> Int], NEW s \in Int, u = WordOf(f) + WordMod * s,
             \A j \in 0..k : f[j] \in Char
      PROVE  TopBit(u, k) = IF f[k] >= H THEN 1 ELSE 0
  BY <1>8, TopBitOf
<1> HIDE DEF u, v, H
<1>9. HasZero(WordOf(e)) <=> \E k \in 0..3 : TopBit(u, k) = 1 /\ TopBit(v, k) = 0
  BY DEF HasZero, u, v
<1>10. CASE \A k \in 0..3 : e[k] # 0
  <2> DEFINE f == [k \in 0..3 |-> e[k] - 1]
  <2>1. f \in [0..3 -> Int] /\ \A k \in 0..3 : f[k] \in Char /\ f[k] = e[k] - 1
    BY <1>1, <1>2, <1>10 DEF Char
  <2>2. WordOf(f) = f[0] + C * f[1] + C * C * f[2] + C * C * C * f[3]
    BY Weights DEF WordOf
  <2>3. u = WordOf(f) + WordMod * t
    <3> HIDE DEF f
    <3>1. f[0] = e[0] - 1 /\ f[1] = e[1] - 1 /\ f[2] = e[2] - 1 /\ f[3] = e[3] - 1
      BY <2>1
    <3> QED BY <1>1, <1>3, <1>4, <1>6, <2>2, <3>1
  <2> HIDE DEF f
  <2>4. ASSUME NEW k \in 0..3, TopBit(u, k) = 1, TopBit(v, k) = 0 PROVE FALSE
    <3>1. TopBit(u, k) = IF f[k] >= H THEN 1 ELSE 0
      BY <1>8, <2>1, <2>3
    <3> QED BY <1>1, <1>3, <1>7, <2>1, <2>4, <3>1
  <2> QED BY <1>9, <1>10, <2>4
<1>11. ASSUME NEW k \in 0..3, NEW f \in [0..3 -> Int], NEW s \in Int, u = WordOf(f) + WordMod * s,
              \A j \in 0..k : f[j] \in Char, f[k] = C - 1, e[k] = 0
       PROVE  HasZero(WordOf(e)) /\ \E j \in 0..3 : e[j] = 0
  <2>1. TopBit(u, k) = 1
    BY <1>1, <1>8, <1>11
  <2>2. TopBit(v, k) = 0
    BY <1>1, <1>7, <1>11
  <2> QED BY <1>9, <1>11, <2>1, <2>2
<1>12. CASE e[0] = 0
  <2> DEFINE f == [k \in 0..3 |-> IF k = 0 THEN C - 1 ELSE IF k = 1 THEN e[1] - 2 ELSE e[k] - 1]
  <2>1. f \in [0..3 -> Int] /\ \A j \in 0..0 : f[j] \in Char
    BY <1>1, <1>3 DEF Char
  <2>2. f[0] = C - 1 /\ f[1] = e[1] - 2 /\ f[2] = e[2] - 1 /\ f[3] = e[3] - 1
    OBVIOUS
  <2>3. WordOf(f) = f[0] + C * f[1] + C * C * f[2] + C * C * C * f[3]
    BY Weights DEF WordOf
  <2> HIDE DEF f
  <2>4. u = WordOf(f) + WordMod * t
    BY <1>1, <1>3, <1>4, <1>6, <1>12, <2>2, <2>3
  <2> QED BY <1>11, <1>12, <2>1, <2>2, <2>4
<1>13. CASE e[0] # 0 /\ e[1] = 0
  <2> DEFINE f == [k \in 0..3 |-> IF k = 1 THEN C - 1 ELSE IF k = 2 THEN e[2] - 2 ELSE e[k] - 1]
  <2>1. f \in [0..3 -> Int] /\ \A j \in 0..1 : f[j] \in Char
    BY <1>1, <1>2, <1>3, <1>13 DEF Char
  <2>2. f[0] = e[0] - 1 /\ f[1] = C - 1 /\ f[2] = e[2] - 2 /\ f[3] = e[3] - 1
    OBVIOUS
  <2>3. WordOf(f) = f[0] + C * f[1] + C * C * f[2] + C * C * C * f[3]
    BY Weights DEF WordOf
  <2> HIDE DEF f
  <2>4. u = WordOf(f) + WordMod * t
    BY <1>1, <1>3, <1>4, <1>6, <1>13, <2>2, <2>3
  <2> QED BY <1>11, <1>13, <2>1, <2>2, <2>4
<1>14. CASE e[0] # 0 /\ e[1] # 0 /\ e[2] = 0
  <2> DEFINE f == [k \in 0..3 |-> IF k = 2 THEN C - 1 ELSE IF k = 3 THEN e[3] - 2 ELSE e[k] - 1]
  <2>1. f \in [0..3 -> Int] /\ \A j \in 0..2 : f[j] \in Char
    BY <1>1, <1>2, <1>3, <1>14 DEF Char
  <2>2. f[0] = e[0] - 1 /\ f[1] = e[1] - 1 /\ f[2] = C - 1 /\ f[3] = e[3] - 2
    OBVIOUS
  <2>3. WordOf(f) = f[0] + C * f[1] + C * C * f[2] + C * C * C * f[3]
    BY Weights DEF WordOf
  <2> HIDE DEF f
  <2>4. u = WordOf(f) + WordMod * t
    BY <1>1, <1>3, <1>4, <1>6, <1>14, <2>2, <2>3
  <2> QED BY <1>11, <1>14, <2>1, <2>2, <2>4
<1>15. CASE e[0] # 0 /\ e[1] # 0 /\ e[2] # 0 /\ e[3] = 0
  <2> DEFINE f == [k \in 0..3 |-> IF k = 3 THEN C - 1 ELSE e[k] - 1]
  <2>1. f \in [0..3 -> Int] /\ \A j \in 0..3 : f[j] \in Char
    BY <1>1, <1>2, <1>3, <1>15 DEF Char
  <2>2. f[0] = e[0] - 1 /\ f[1] = e[1] - 1 /\ f[2] = e[2] - 1 /\ f[3] = C - 1
    OBVIOUS
  <2>3. WordOf(f) = f[0] + C * f[1] + C * C * f[2] + C * C * C * f[3]
    BY Weights DEF WordOf
  <2> HIDE DEF f
  <2>4. u = WordOf(f) + WordMod * (t - 1)
    BY <1>1, <1>3, <1>4, <1>6, <1>15, <2>2, <2>3
  <2> QED BY <1>11, <1>15, <2>1, <2>2, <2>4
<1> QED BY <1>10, <1>12, <1>13, <1>14, <1>15

\* The lowest byte of a sum is found again.
LEMMA LowByte ==
  ASSUME NEW x \in Char, NEW y \in Char, NEW p \in Int, NEW q \in Int, x + CharMod * p = y + CharMod * q
  PROVE  x = y /\ p = q
<1>1. CharMod \in Nat /\ CharMod >= 4 /\ x \in 0..(CharMod - 1) /\ y \in 0..(CharMod - 1)
  BY Chars DEF Char
<1>2. CharMod * (p - q) = y - x
  BY <1>1
<1>3. ~(p > q)
  <2> SUFFICES ASSUME p - q >= 1 PROVE FALSE
    OBVIOUS
  <2>1. CharMod * (p - q) >= CharMod
    BY <1>1
  <2> QED BY <1>1, <1>2, <2>1
<1>4. ~(p < q)
  <2> SUFFICES ASSUME p - q <= -1 PROVE FALSE
    OBVIOUS
  <2>1. CharMod * (p - q) <= -CharMod
    BY <1>1
  <2> QED BY <1>1, <1>2, <2>1
<1> QED BY <1>1, <1>2, <1>3, <1>4

LEMMA SameWords ==
  ASSUME NEW e \in [0..3 -> Char], NEW f \in [0..3 -> Char], WordOf(e) = WordOf(f)
  PROVE  \A k \in 0..3 : e[k] = f[k]
<1> DEFINE C == CharMod
<1>1. /\ e[0] \in Char /\ e[1] \in Char /\ e[2] \in Char /\ e[3] \in Char
      /\ f[0] \in Char /\ f[1] \in Char /\ f[2] \in Char /\ f[3] \in Char
  OBVIOUS
<1>2. /\ C \in Nat
      /\ e[0] \in Int /\ e[1] \in Int /\ e[2] \in Int /\ e[3] \in Int
      /\ f[0] \in Int /\ f[1] \in Int /\ f[2] \in Int /\ f[3] \in Int
  BY <1>1, Chars DEF Char
<1>3. e[0] + C * (e[1] + C * (e[2] + C * e[3])) = f[0] + C * (f[1] + C * (f[2] + C * f[3]))
  <2>1. WordOf(e) = e[0] + C * e[1] + C * C * e[2] + C * C * C * e[3]
    BY Weights DEF WordOf
  <2>2. WordOf(f) = f[0] + C * f[1] + C * C * f[2] + C * C * C * f[3]
    BY Weights DEF WordOf
  <2>3. WordOf(e) = e[0] + C * (e[1] + C * (e[2] + C * e[3]))
    BY <1>2, <2>1
  <2>4. WordOf(f) = f[0] + C * (f[1] + C * (f[2] + C * f[3]))
    BY <1>2, <2>2
  <2> QED BY <2>3, <2>4
<1>4. /\ e[2] + C * e[3] \in Int /\ f[2] + C * f[3] \in Int
      /\ e[1] + C * (e[2] + C * e[3]) \in Int /\ f[1] + C * (f[2] + C * f[3]) \in Int
      /\ e[3] \in Int /\ f[3] \in Int
  BY <1>2
<1>5. e[0] = f[0] /\ e[1] + C * (e[2] + C * e[3]) = f[1] + C * (f[2] + C * f[3])
  BY <1>1, <1>3, <1>4, LowByte
<1>6. e[1] = f[1] /\ e[2] + C * e[3] = f[2] + C * f[3]
  BY <1>1, <1>4, <1>5, LowByte
<1>7. e[2] = f[2] /\ e[3] = f[3]
  BY <1>1, <1>4, <1>6, LowByte
<1> QED BY <1>5, <1>6, <1>7

-----------------------------------------------------------------------------
(* strcpy and strcmp.                                                      *)

Memory == [0..(2 * Buffer - 1) -> Char]

\* What the word test and the word comparison say of the bytes loaded.
LEMMA LoadedBytes ==
  ASSUME NEW m \in Memory, NEW a \in 0..(2 * Buffer - 4)
  PROVE  /\ HasZero(Load(m, a)) <=> \E k \in 0..3 : m[a + k] = 0
         /\ \A b \in 0..(2 * Buffer - 4) :
              Load(m, a) = Load(m, b) <=> \A k \in 0..3 : m[a + k] = m[b + k]
<1> DEFINE Bytes(b) == [k \in 0..3 |-> m[b + k]]
<1>1. Buffer \in Nat
  BY StringsAssumption
<1>2. ASSUME NEW b \in 0..(2 * Buffer - 4)
      PROVE  Bytes(b) \in [0..3 -> Char] /\ Load(m, b) = WordOf(Bytes(b))
  <2>1. \A k \in 0..3 : b + k \in 0..(2 * Buffer - 1)
    BY <1>1
  <2>2. Bytes(b)[0] = m[b] /\ Bytes(b)[1] = m[b + 1] /\ Bytes(b)[2] = m[b + 2] /\ Bytes(b)[3] = m[b + 3]
    OBVIOUS
  <2> QED BY <2>1, <2>2 DEF Memory, Load, WordOf
<1>3. HasZero(Load(m, a)) <=> \E k \in 0..3 : m[a + k] = 0
  <2>1. HasZero(WordOf(Bytes(a))) <=> \E k \in 0..3 : Bytes(a)[k] = 0
    <3> HIDE DEF Bytes
    <3> QED BY <1>2, ZeroByte
  <2> QED BY <1>2, <2>1
<1>4. ASSUME NEW b \in 0..(2 * Buffer - 4)
      PROVE  Load(m, a) = Load(m, b) <=> \A k \in 0..3 : m[a + k] = m[b + k]
  <2>1. WordOf(Bytes(a)) = WordOf(Bytes(b)) => \A k \in 0..3 : Bytes(a)[k] = Bytes(b)[k]
    <3> HIDE DEF Bytes
    <3> QED BY <1>2, SameWords
  <2>2. (\A k \in 0..3 : m[a + k] = m[b + k]) => Bytes(a) = Bytes(b)
    OBVIOUS
  <2> QED BY <1>2, <2>1, <2>2
<1> QED BY <1>3, <1>4

\* A string that begins at a and leaves room for a place in the first word.
StringAt(m, a) ==
  \E e \in a..(a + Buffer - 4) : m[e] = 0 /\ \A b \in a..(e - 1) : m[b] # 0

LEMMA EndOfString ==
  ASSUME NEW m \in Memory, NEW a \in (0..3) \union (Buffer..(Buffer + 3)), StringAt(m, a)
  PROVE  /\ End(m, a) \in a..(a + Buffer - 4) /\ m[End(m, a)] = 0
         /\ \A b \in a..(End(m, a) - 1) : m[b] # 0
<1> DEFINE P(e) == m[e] = 0 /\ \A b \in a..(e - 1) : m[b] # 0
<1>1. Buffer \in Nat /\ Buffer >= 4
  BY StringsAssumption
<1>2. PICK e \in a..(a + Buffer - 4) : P(e)
  BY DEF StringAt
<1>3. e \in a..(2 * Buffer - 1)
  BY <1>1
<1>4. End(m, a) \in a..(2 * Buffer - 1) /\ P(End(m, a))
  BY <1>2, <1>3 DEF End
<1>5. End(m, a) <= e
  BY <1>1, <1>2, <1>4
<1> QED BY <1>1, <1>4, <1>5

\* What strcpy and strcmp were called with.
Called ==
  /\ args.function \in {"strcpy", "strcmp", "malloc"}
  /\ args.mem \in Memory /\ args.dst \in 0..3 /\ args.src \in Buffer..(Buffer + 3)
  /\ args.function # "malloc" => StringAt(args.mem, args.src)
  /\ args.function = "strcmp" => StringAt(args.mem, args.dst)

\* Neither pointer has passed the end of its string, and what lies behind them is done.
UnderWay ==
  lib_pc \in {"strcpy", "strcmp"} =>
    /\ args.function = lib_pc
    /\ src - args.src = dst - args.dst
    /\ src \in args.src..End(args.mem, args.src)
    /\ lib_pc = "strcpy" =>
         \A a \in 0..(2 * Buffer - 1) :
           mem[a] = IF a - args.dst \in 0..(src - args.src - 1)
                    THEN args.mem[args.src + a - args.dst] ELSE args.mem[a]
    /\ lib_pc = "strcmp" =>
         /\ mem = args.mem /\ dst <= End(mem, args.dst)
         /\ \A n \in 0..(src - args.src - 1) : mem[args.dst + n] = mem[args.src + n]

StringInv == LibTypeOK /\ Called /\ UnderWay /\ StringsAsSpecified

\* Where the pointers are, and that a word at them lies within its buffer.
LEMMA Pointers ==
  ASSUME StringInv, lib_pc \in {"strcpy", "strcmp"}
  PROVE  /\ Buffer \in Nat /\ Buffer >= 4 /\ mem \in Memory
         /\ args.function = lib_pc /\ args.mem \in Memory
         /\ args.dst \in 0..3 /\ args.src \in Buffer..(Buffer + 3)
         /\ src - args.src = dst - args.dst
         /\ End(args.mem, args.src) \in args.src..(args.src + Buffer - 4)
         /\ args.mem[End(args.mem, args.src)] = 0
         /\ \A b \in args.src..(End(args.mem, args.src) - 1) : args.mem[b] # 0
         /\ src \in args.src..End(args.mem, args.src)
         /\ dst \in 0..(Buffer - 1) /\ src \in Buffer..(2 * Buffer - 1)
         /\ Aligned => dst \in 0..(Buffer - 4) /\ src \in Buffer..(2 * Buffer - 4)
<1>1. Buffer \in Nat /\ Buffer >= 4 /\ Buffer % 4 = 0
  BY StringsAssumption
<1>2. /\ mem \in Memory /\ dst \in 0..(Buffer - 1) /\ src \in Buffer..(2 * Buffer - 1)
      /\ args.function = lib_pc /\ src - args.src = dst - args.dst
      /\ src \in args.src..End(args.mem, args.src)
      /\ args.mem \in Memory /\ args.dst \in 0..3 /\ args.src \in Buffer..(Buffer + 3)
      /\ StringAt(args.mem, args.src)
  BY DEF StringInv, LibTypeOK, Called, UnderWay, Memory
<1>3. /\ End(args.mem, args.src) \in args.src..(args.src + Buffer - 4)
      /\ args.mem[End(args.mem, args.src)] = 0
      /\ \A b \in args.src..(End(args.mem, args.src) - 1) : args.mem[b] # 0
  BY <1>2, EndOfString
<1>4. Aligned => dst \in 0..(Buffer - 4) /\ src \in Buffer..(2 * Buffer - 4)
  BY <1>1, <1>2 DEF Aligned
<1> QED BY <1>1, <1>2, <1>3, <1>4

\* The source is as it was called with: the copy does not reach it.
LEMMA SourceKept ==
  ASSUME StringInv, lib_pc = "strcpy", NEW b \in src..(2 * Buffer - 1)
  PROVE  mem[b] = args.mem[b]
<1>1. b \in 0..(2 * Buffer - 1) /\ ~(b - args.dst \in 0..(src - args.src - 1))
  BY Pointers
<1> QED BY <1>1 DEF StringInv, UnderWay

LEMMA CopyCharStep == StringInv /\ CopyChar => StringInv'
<1> SUFFICES ASSUME StringInv, CopyChar PROVE StringInv'
  OBVIOUS
<1>1. /\ lib_pc = "strcpy" /\ mem' = [mem EXCEPT ![dst] = mem[src]]
      /\ args' = args /\ heap_memory_used' = heap_memory_used
  BY DEF CopyChar, mallocVars
<1> DEFINE e == End(args.mem, args.src)
<1>2. /\ Buffer \in Nat /\ Buffer >= 4 /\ mem \in Memory /\ args.function = "strcpy" /\ args.mem \in Memory
      /\ args.dst \in 0..3 /\ args.src \in Buffer..(Buffer + 3)
      /\ src - args.src = dst - args.dst
      /\ e \in args.src..(args.src + Buffer - 4) /\ args.mem[e] = 0
      /\ \A b \in args.src..(e - 1) : args.mem[b] # 0
      /\ src \in args.src..e
      /\ dst \in 0..(Buffer - 1) /\ src \in Buffer..(2 * Buffer - 1)
  BY <1>1, Pointers
<1> HIDE DEF e
<1>3. mem[src] = args.mem[src] /\ mem[src] \in Char
  <2>1. src \in src..(2 * Buffer - 1) /\ src \in 0..(2 * Buffer - 1)
    BY <1>2
  <2>2. mem[src] = args.mem[src]
    BY <1>1, <2>1, SourceKept
  <2>3. mem[src] \in Char
    BY <1>2, <2>1 DEF Memory
  <2> QED BY <2>2, <2>3
<1>4. mem' \in Memory
  BY <1>1, <1>2, <1>3 DEF Memory
<1>5. \A a \in 0..(2 * Buffer - 1) :
        mem'[a] = IF a - args.dst \in 0..(src - args.src)
                  THEN args.mem[args.src + a - args.dst] ELSE args.mem[a]
  <2> SUFFICES ASSUME NEW a \in 0..(2 * Buffer - 1)
               PROVE  mem'[a] = IF a - args.dst \in 0..(src - args.src)
                                THEN args.mem[args.src + a - args.dst] ELSE args.mem[a]
    OBVIOUS
  <2>1. CASE a = dst
    <3>1. mem'[a] = args.mem[src]
      BY <1>1, <1>2, <1>3, <2>1 DEF Memory
    <3>2. args.src + a - args.dst = src /\ a - args.dst \in 0..(src - args.src)
      BY <1>2, <2>1
    <3> QED BY <3>1, <3>2
  <2>2. CASE a # dst
    <3>1. mem'[a] = mem[a]
      BY <1>1, <1>2, <2>2 DEF Memory
    <3>2. a - args.dst \in 0..(src - args.src) <=> a - args.dst \in 0..(src - args.src - 1)
      BY <1>2, <2>2
    <3>3. mem[a] = IF a - args.dst \in 0..(src - args.src - 1)
                   THEN args.mem[args.src + a - args.dst] ELSE args.mem[a]
      BY <1>1 DEF StringInv, UnderWay
    <3> QED BY <3>1, <3>2, <3>3
  <2> QED BY <2>1, <2>2
<1>6. Called'
  BY <1>1 DEF StringInv, Called
<1>7. CASE mem[src] = 0
  <2>1. lib_pc' = "returned" /\ result' = args.dst /\ dst' = dst /\ src' = src
    BY <1>7 DEF CopyChar, Return
  <2>2. src = e
    <3> SUFFICES ASSUME src # e PROVE FALSE
      OBVIOUS
    <3>1. src \in args.src..(e - 1)
      BY <1>2
    <3> QED BY <1>2, <1>3, <1>7, <3>1
  <2>3. LibTypeOK'
    <3>1. dst' \in 0..(Buffer - 1) /\ src' \in Buffer..(2 * Buffer - 1) /\ result' \in -1..(Buffer - 1)
      BY <1>2, <2>1
    <3>2. heap_memory_used' \in Nat
      BY <1>1 DEF StringInv, LibTypeOK
    <3> QED BY <1>4, <2>1, <3>1, <3>2 DEF LibTypeOK, Memory
  <2>4. StringsAsSpecified'
    <3>1. DOMAIN mem' = 0..(2 * Buffer - 1)
      BY <1>4 DEF Memory
    <3>2. e' = e
      BY <1>1 DEF e, End
    <3> QED BY <1>1, <1>2, <1>5, <2>1, <2>2, <3>1, <3>2 DEF StringsAsSpecified, e
  <2> QED BY <1>6, <2>1, <2>3, <2>4 DEF StringInv, UnderWay
<1>8. CASE mem[src] # 0
  <2>1. lib_pc' = lib_pc /\ result' = result /\ dst' = dst + 1 /\ src' = src + 1
    BY <1>8 DEF CopyChar, GoOn
  <2>2. src + 1 <= e
    BY <1>2, <1>3, <1>8
  <2>3. LibTypeOK'
    <3>1. dst' \in 0..(Buffer - 1) /\ src' \in Buffer..(2 * Buffer - 1)
      BY <1>2, <2>1, <2>2
    <3> QED BY <1>1, <1>4, <2>1, <3>1 DEF LibTypeOK, StringInv, Memory
  <2>4. UnderWay'
    <3>1. End(args.mem, args.src)' = e
      BY <1>1 DEF e, End
    <3>2. src' - args.src - 1 = src - args.src
      BY <1>2, <2>1
    <3> QED BY <1>1, <1>2, <1>5, <2>1, <2>2, <3>1, <3>2 DEF UnderWay
  <2> QED BY <1>1, <1>6, <2>1, <2>3, <2>4 DEF StringInv, StringsAsSpecified
<1> QED BY <1>7, <1>8

LEMMA CopyWordStep == StringInv /\ CopyWord => StringInv'
<1> SUFFICES ASSUME StringInv, CopyWord PROVE StringInv'
  OBVIOUS
<1> DEFINE e == End(args.mem, args.src)
           ends == HasZero(Load(mem, src))
           before(k) == \A j \in 0..(k - 1) : ends => mem[src + j] # 0
<1>1. /\ lib_pc = "strcpy" /\ Aligned /\ args' = args /\ heap_memory_used' = heap_memory_used
      /\ mem' = [a \in DOMAIN mem |->
                   IF a - dst \in 0..3 /\ before(a - dst) THEN mem[src + a - dst] ELSE mem[a]]
      /\ IF ends THEN Return(args.dst) ELSE GoOn(4)
  BY DEF CopyWord, mallocVars
<1>2. /\ Buffer \in Nat /\ Buffer >= 4 /\ mem \in Memory /\ args.function = "strcpy" /\ args.mem \in Memory
      /\ args.dst \in 0..3 /\ args.src \in Buffer..(Buffer + 3)
      /\ src - args.src = dst - args.dst
      /\ e \in args.src..(args.src + Buffer - 4) /\ args.mem[e] = 0
      /\ \A b \in args.src..(e - 1) : args.mem[b] # 0
      /\ src \in args.src..e
      /\ dst \in 0..(Buffer - 4) /\ src \in Buffer..(2 * Buffer - 4)
  BY <1>1, Pointers
<1> HIDE DEF e
<1>3. \A j \in 0..3 : src + j \in 0..(2 * Buffer - 1) /\ mem[src + j] = args.mem[src + j]
                      /\ mem[src + j] \in Char
  <2> TAKE j \in 0..3
  <2>1. src + j \in 0..(2 * Buffer - 1) /\ src + j \in src..(2 * Buffer - 1)
    BY <1>2
  <2>2. mem[src + j] = args.mem[src + j]
    BY <1>1, <2>1, SourceKept
  <2>3. mem[src + j] \in Char
    BY <1>2, <2>1 DEF Memory
  <2> QED BY <2>1, <2>2, <2>3
<1>4. ends <=> \E j \in 0..3 : mem[src + j] = 0
  BY <1>2, LoadedBytes
<1> HIDE DEF ends
<1>5. ends => e - src \in 0..3
  <2> SUFFICES ASSUME ends PROVE e - src \in 0..3
    OBVIOUS
  <2>1. PICK j \in 0..3 : mem[src + j] = 0
    BY <1>4
  <2>2. ~(src + j \in args.src..(e - 1))
    BY <1>2, <1>3, <2>1
  <2>3. args.src \in Int /\ e \in Int /\ src \in Int /\ args.src <= src /\ src <= e
    BY <1>2
  <2>4. e <= src + j
    BY <2>2, <2>3
  <2> QED BY <2>3, <2>4
<1>6. ~ends => e - src >= 4
  <2> SUFFICES ASSUME ~ends, e - src \in 0..3 PROVE FALSE
    BY <1>2
  <2>1. mem[src + (e - src)] # 0
    BY <1>4
  <2>2. src + (e - src) = e
    BY <1>2
  <2> QED BY <1>2, <1>3, <2>1, <2>2
<1> DEFINE top == IF ends THEN e - src ELSE 3
<1>7. top \in 0..3 /\ src + top <= e
  BY <1>2, <1>5, <1>6
<1>8. ASSUME NEW k \in 0..3 PROVE before(k) <=> k <= top
  <2>1. CASE ~ends
    BY <2>1
  <2>2. CASE ends /\ k <= top
    <3>1. ASSUME NEW j \in 0..(k - 1) PROVE mem[src + j] # 0
      <4>1. src + j \in args.src..(e - 1) /\ j \in 0..3
        BY <1>2, <1>5, <2>2
      <4> QED BY <1>2, <1>3, <4>1
    <3> QED BY <2>2, <3>1
  <2>3. CASE ends /\ k > top
    <3>1. e - src \in 0..(k - 1) /\ e - src \in 0..3 /\ src + (e - src) = e
      BY <1>2, <1>5, <2>3
    <3>2. mem[src + (e - src)] = 0
      BY <1>2, <1>3, <3>1
    <3> QED BY <2>3, <3>1, <3>2
  <2> QED BY <1>7, <2>1, <2>2, <2>3
<1> HIDE DEF before, top
<1>9. mem' \in Memory
  <2>1. ASSUME NEW a \in 0..(2 * Buffer - 1)
        PROVE  (IF a - dst \in 0..3 /\ before(a - dst) THEN mem[src + a - dst] ELSE mem[a]) \in Char
    <3>1. CASE a - dst \in 0..3
      <4>1. mem[src + (a - dst)] \in Char /\ src + (a - dst) = src + a - dst
        BY <1>2, <1>3, <3>1
      <4> QED BY <1>2, <2>1, <4>1 DEF Memory
    <3> QED BY <1>2, <2>1, <3>1 DEF Memory
  <2> QED BY <1>1, <1>2, <2>1 DEF Memory
<1>10. \A a \in 0..(2 * Buffer - 1) :
        mem'[a] = IF a - args.dst \in 0..(src + top - args.src)
                  THEN args.mem[args.src + a - args.dst] ELSE args.mem[a]
  <2> SUFFICES ASSUME NEW a \in 0..(2 * Buffer - 1)
               PROVE  mem'[a] = IF a - args.dst \in 0..(src + top - args.src)
                                THEN args.mem[args.src + a - args.dst] ELSE args.mem[a]
    OBVIOUS
  <2>1. mem'[a] = IF a - dst \in 0..3 /\ before(a - dst) THEN mem[src + a - dst] ELSE mem[a]
    BY <1>1, <1>2 DEF Memory
  <2>2. CASE a - dst \in 0..top
    <3>1. a - dst \in 0..3 /\ before(a - dst)
      BY <1>7, <1>8, <2>2
    <3>2. src + a - dst = src + (a - dst) /\ src + a - dst = args.src + a - args.dst
      BY <1>2
    <3>3. mem'[a] = args.mem[args.src + a - args.dst]
      BY <1>3, <2>1, <3>1, <3>2
    <3>4. a - args.dst \in 0..(src + top - args.src)
      BY <1>2, <1>7, <2>2
    <3> QED BY <3>3, <3>4
  <2>3. CASE ~(a - dst \in 0..top)
    <3>1. ~(a - dst \in 0..3 /\ before(a - dst))
      BY <1>2, <1>7, <1>8, <2>3
    <3>2. mem'[a] = mem[a]
      BY <2>1, <3>1
    <3>3. a - args.dst \in 0..(src + top - args.src) <=> a - args.dst \in 0..(src - args.src - 1)
      BY <1>2, <1>7, <2>3
    <3>4. mem[a] = IF a - args.dst \in 0..(src - args.src - 1)
                   THEN args.mem[args.src + a - args.dst] ELSE args.mem[a]
      BY <1>1 DEF StringInv, UnderWay
    <3> QED BY <3>2, <3>3, <3>4
  <2> QED BY <2>2, <2>3
<1>11. Called'
  BY <1>1 DEF StringInv, Called
<1>12. End(args.mem, args.src)' = e
  BY <1>1 DEF e, End
<1>13. CASE ends
  <2>1. lib_pc' = "returned" /\ result' = args.dst /\ dst' = dst /\ src' = src
    BY <1>1, <1>13 DEF Return
  <2>2. LibTypeOK'
    <3>1. dst' \in 0..(Buffer - 1) /\ src' \in Buffer..(2 * Buffer - 1) /\ result' \in -1..(Buffer - 1)
      BY <1>2, <2>1
    <3>2. heap_memory_used' \in Nat
      BY <1>1 DEF StringInv, LibTypeOK
    <3> QED BY <1>9, <2>1, <3>1, <3>2 DEF LibTypeOK, Memory
  <2>3. StringsAsSpecified'
    <3>1. DOMAIN mem' = 0..(2 * Buffer - 1)
      BY <1>9 DEF Memory
    <3>2. src + top - args.src = e - args.src
      BY <1>2, <1>5, <1>13 DEF top
    <3> QED BY <1>1, <1>2, <1>10, <1>12, <2>1, <3>1, <3>2 DEF StringsAsSpecified
  <2> QED BY <1>11, <2>1, <2>2, <2>3 DEF StringInv, UnderWay
<1>14. CASE ~ends
  <2>1. lib_pc' = lib_pc /\ result' = result /\ dst' = dst + 4 /\ src' = src + 4
    BY <1>1, <1>14 DEF GoOn
  <2>2. src + 4 <= e
    BY <1>2, <1>6, <1>14
  <2>3. LibTypeOK'
    <3>1. dst' \in 0..(Buffer - 1) /\ src' \in Buffer..(2 * Buffer - 1)
      BY <1>2, <2>1, <2>2
    <3> QED BY <1>1, <1>9, <2>1, <3>1 DEF LibTypeOK, StringInv, Memory
  <2>4. UnderWay'
    <3>1. src' - args.src - 1 = src + top - args.src /\ src' - args.src = dst' - args.dst
      BY <1>2, <1>14, <2>1 DEF top
    <3>2. src' \in args.src..e
      BY <1>2, <2>1, <2>2
    <3> QED BY <1>1, <1>2, <1>10, <1>12, <2>1, <3>1, <3>2 DEF UnderWay
  <2> QED BY <1>1, <1>11, <2>1, <2>3, <2>4 DEF StringInv, StringsAsSpecified
<1> QED BY <1>13, <1>14

\* strcmp: the string compared with, and that the bytes behind the pointers agree.
LEMMA Comparing ==
  ASSUME StringInv, lib_pc = "strcmp"
  PROVE  /\ mem = args.mem
         /\ End(mem, args.dst) \in args.dst..(args.dst + Buffer - 4) /\ mem[End(mem, args.dst)] = 0
         /\ \A b \in args.dst..(End(mem, args.dst) - 1) : mem[b] # 0
         /\ dst <= End(mem, args.dst)
         /\ \A n \in 0..(src - args.src - 1) : mem[args.dst + n] = mem[args.src + n]
<1>1. /\ mem = args.mem /\ mem \in Memory /\ args.dst \in 0..3 /\ StringAt(mem, args.dst)
      /\ dst <= End(mem, args.dst)
      /\ \A n \in 0..(src - args.src - 1) : mem[args.dst + n] = mem[args.src + n]
  BY Pointers DEF StringInv, Called, UnderWay
<1> QED BY <1>1, EndOfString

\* A comparison that ends n bytes further on, at bytes that decide it.
LEMMA Decided ==
  ASSUME StringInv, lib_pc = "strcmp", NEW n \in Nat,
         dst + n <= 2 * Buffer - 1,
         \A j \in 0..(n - 1) : mem[dst + j] = mem[src + j] /\ mem[dst + j] # 0,
         NEW r, r = (IF mem[dst + n] = mem[src + n] THEN 0 ELSE Order(mem[dst + n], mem[src + n])),
         mem[dst + n] # mem[src + n] \/ mem[dst + n] = 0
  PROVE  Compares(mem, args.dst, args.src, r)
<1> DEFINE k == src - args.src + n
           e == End(mem, args.dst)
<1>1. /\ Buffer \in Nat /\ args.dst \in 0..3 /\ args.src \in Buffer..(Buffer + 3)
      /\ src - args.src = dst - args.dst /\ dst \in 0..(Buffer - 1) /\ src \in Buffer..(2 * Buffer - 1)
      /\ src >= args.src
  BY Pointers
<1>2. /\ e \in args.dst..(args.dst + Buffer - 4) /\ mem[e] = 0 /\ dst <= e
      /\ \A b \in 0..(src - args.src - 1) : mem[args.dst + b] = mem[args.src + b]
  BY Comparing
<1> HIDE DEF e
<1>3. dst + n <= e
  <2> SUFFICES ASSUME dst + n > e PROVE FALSE
    BY <1>1, <1>2
  <2>1. e - dst \in 0..(n - 1) /\ dst + (e - dst) = e
    BY <1>1, <1>2
  <2> QED BY <1>2, <2>1
<1>4. k \in 0..(e - args.dst) /\ args.dst + k = dst + n /\ args.src + k = src + n
  BY <1>1, <1>2, <1>3
<1>5. ASSUME NEW b \in 0..(k - 1) PROVE mem[args.dst + b] = mem[args.src + b]
  <2>1. CASE b < src - args.src
    BY <1>1, <1>2, <2>1
  <2>2. CASE b >= src - args.src
    <3> DEFINE j == b - (src - args.src)
    <3>1. j \in 0..(n - 1) /\ dst + j = args.dst + b /\ src + j = args.src + b
      BY <1>1, <2>2
    <3> HIDE DEF j
    <3>2. mem[dst + j] = mem[src + j]
      BY <3>1
    <3> QED BY <3>1, <3>2
  <2> QED BY <1>1, <2>1, <2>2
<1>6. IF mem[args.dst + k] = mem[args.src + k] THEN mem[args.dst + k] = 0 /\ r = 0
      ELSE r = IF mem[args.dst + k] < mem[args.src + k] THEN -1 ELSE 1
  BY <1>4 DEF Order
<1> HIDE DEF k
<1> QED BY <1>4, <1>5, <1>6 DEF Compares, e

LEMMA CompareReturns ==
  ASSUME StringInv, lib_pc = "strcmp", NEW r \in -1..1, Return(r),
         Compares(mem, args.dst, args.src, r), UNCHANGED <<mem, args, mallocVars>>
  PROVE  StringInv'
<1>1. /\ lib_pc' = "returned" /\ result' = r /\ dst' = dst /\ src' = src
      /\ mem' = mem /\ args' = args /\ heap_memory_used' = heap_memory_used
  BY DEF Return, mallocVars
<1>2. args.function = "strcmp" /\ mem = args.mem /\ Buffer >= 4 /\ Buffer \in Nat
  BY Pointers, Comparing
<1>3. LibTypeOK'
  BY <1>1, <1>2 DEF LibTypeOK, StringInv
<1>4. Called'
  BY <1>1 DEF StringInv, Called
<1>5. StringsAsSpecified'
  <2>1. Compares(mem', args'.dst, args'.src, result')
    BY <1>1
  <2> QED BY <1>1, <1>2, <2>1 DEF StringsAsSpecified
<1> QED BY <1>1, <1>3, <1>4, <1>5 DEF StringInv, UnderWay

LEMMA CompareGoesOn ==
  ASSUME StringInv, lib_pc = "strcmp", NEW n \in Nat, src + n <= 2 * Buffer, GoOn(n),
         \A j \in 0..(n - 1) : mem[dst + j] = mem[src + j] /\ mem[dst + j] # 0,
         UNCHANGED <<mem, args, mallocVars>>
  PROVE  StringInv'
<1> DEFINE e == End(args.mem, args.src)
           f == End(mem, args.dst)
<1>1. /\ lib_pc' = lib_pc /\ result' = result /\ dst' = dst + n /\ src' = src + n
      /\ mem' = mem /\ args' = args /\ heap_memory_used' = heap_memory_used
  BY DEF GoOn, mallocVars
<1>2. /\ Buffer \in Nat /\ Buffer >= 4 /\ args.function = "strcmp"
      /\ args.dst \in 0..3 /\ args.src \in Buffer..(Buffer + 3)
      /\ src - args.src = dst - args.dst /\ dst \in 0..(Buffer - 1) /\ src \in Buffer..(2 * Buffer - 1)
      /\ e \in args.src..(args.src + Buffer - 4) /\ args.mem[e] = 0 /\ src \in args.src..e
  BY Pointers
<1>3. /\ mem = args.mem /\ f \in args.dst..(args.dst + Buffer - 4) /\ mem[f] = 0 /\ dst <= f
      /\ \A b \in 0..(src - args.src - 1) : mem[args.dst + b] = mem[args.src + b]
  BY Comparing
<1>4. e' = e /\ f' = f
  BY <1>1 DEF End
<1> HIDE DEF e, f
<1>5. src + n <= e
  <2> SUFFICES ASSUME src + n > e PROVE FALSE
    BY <1>2
  <2>1. e - src \in 0..(n - 1) /\ src + (e - src) = e
    BY <1>2
  <2> QED BY <1>2, <1>3, <2>1
<1>6. dst + n <= f
  <2> SUFFICES ASSUME dst + n > f PROVE FALSE
    BY <1>2, <1>3
  <2>1. f - dst \in 0..(n - 1) /\ dst + (f - dst) = f
    BY <1>2, <1>3
  <2> QED BY <1>3, <2>1
<1>7. ASSUME NEW b \in 0..(src + n - args.src - 1) PROVE mem[args.dst + b] = mem[args.src + b]
  <2>1. CASE b < src - args.src
    BY <1>2, <1>3, <2>1
  <2>2. CASE b >= src - args.src
    <3> DEFINE j == b - (src - args.src)
    <3>1. j \in 0..(n - 1) /\ dst + j = args.dst + b /\ src + j = args.src + b
      BY <1>2, <2>2
    <3> HIDE DEF j
    <3>2. mem[dst + j] = mem[src + j]
      BY <3>1
    <3> QED BY <3>1, <3>2
  <2> QED BY <1>2, <2>1, <2>2
<1>8. LibTypeOK'
  <2>1. dst' \in 0..(Buffer - 1) /\ src' \in Buffer..(2 * Buffer - 1)
    BY <1>1, <1>2, <1>3, <1>5, <1>6
  <2> QED BY <1>1, <2>1 DEF LibTypeOK, StringInv
<1>9. Called'
  BY <1>1 DEF StringInv, Called
<1>10. UnderWay'
  <2>1. src' - args.src = dst' - args.dst /\ src' \in args.src..e /\ dst' <= f
    BY <1>1, <1>2, <1>5, <1>6
  <2>2. End(args.mem, args.src)' = e /\ End(mem, args.dst)' = f
    BY <1>4 DEF e, f
  <2> QED BY <1>1, <1>2, <1>3, <1>7, <2>1, <2>2 DEF UnderWay
<1> QED BY <1>1, <1>8, <1>9, <1>10 DEF StringInv, StringsAsSpecified

LEMMA CompareCharStep == StringInv /\ CompareChar => StringInv'
<1> SUFFICES ASSUME StringInv, CompareChar PROVE StringInv'
  OBVIOUS
<1>1. lib_pc = "strcmp" /\ UNCHANGED <<mem, args, mallocVars>>
  BY DEF CompareChar
<1>2. /\ Buffer \in Nat /\ mem \in Memory
      /\ dst \in 0..(Buffer - 1) /\ src \in Buffer..(2 * Buffer - 1)
  BY <1>1, Pointers
<1>3. dst + 0 = dst /\ src + 0 = src /\ dst + 0 <= 2 * Buffer - 1
  BY <1>2
<1>4. CASE mem[dst] # mem[src]
  <2>1. Return(Order(mem[dst], mem[src])) /\ Order(mem[dst], mem[src]) \in -1..1
    BY <1>4 DEF CompareChar, Order
  <2>2. Compares(mem, args.dst, args.src, Order(mem[dst], mem[src]))
    <3> DEFINE r == Order(mem[dst], mem[src])
    <3>1. r = IF mem[dst + 0] = mem[src + 0] THEN 0 ELSE Order(mem[dst + 0], mem[src + 0])
      BY <1>3, <1>4
    <3>2. \A j \in 0..(0 - 1) : mem[dst + j] = mem[src + j] /\ mem[dst + j] # 0
      OBVIOUS
    <3>3. mem[dst + 0] # mem[src + 0] \/ mem[dst + 0] = 0
      BY <1>3, <1>4
    <3> HIDE DEF r
    <3>4. Compares(mem, args.dst, args.src, r)
      BY <1>1, <1>3, <3>1, <3>2, <3>3, Decided
    <3> QED BY <3>4 DEF r
  <2> QED BY <1>1, <2>1, <2>2, CompareReturns
<1>5. CASE mem[dst] = mem[src] /\ mem[dst] = 0
  <2>1. Return(0)
    BY <1>5 DEF CompareChar
  <2>2. Compares(mem, args.dst, args.src, 0)
    <3>1. 0 = IF mem[dst + 0] = mem[src + 0] THEN 0 ELSE Order(mem[dst + 0], mem[src + 0])
      BY <1>3, <1>5
    <3>2. \A j \in 0..(0 - 1) : mem[dst + j] = mem[src + j] /\ mem[dst + j] # 0
      OBVIOUS
    <3>3. mem[dst + 0] # mem[src + 0] \/ mem[dst + 0] = 0
      BY <1>3, <1>5
    <3> QED BY <1>1, <1>3, <3>1, <3>2, <3>3, Decided
  <2> QED BY <1>1, <2>1, <2>2, CompareReturns
<1>6. CASE mem[dst] = mem[src] /\ mem[dst] # 0
  <2>1. GoOn(1)
    BY <1>6 DEF CompareChar
  <2>2. src + 1 <= 2 * Buffer /\ \A j \in 0..(1 - 1) : mem[dst + j] = mem[src + j] /\ mem[dst + j] # 0
    BY <1>2, <1>3, <1>6
  <2> QED BY <1>1, <2>1, <2>2, CompareGoesOn
<1> QED BY <1>4, <1>5, <1>6

LEMMA CompareWordStep == StringInv /\ CompareWord => StringInv'
<1> SUFFICES ASSUME StringInv, CompareWord PROVE StringInv'
  OBVIOUS
<1>1. lib_pc = "strcmp" /\ Aligned /\ UNCHANGED <<mem, args, mallocVars>>
  BY DEF CompareWord
<1>2. /\ Buffer \in Nat /\ mem \in Memory
      /\ dst \in 0..(Buffer - 4) /\ src \in Buffer..(2 * Buffer - 4)
  BY <1>1, Pointers
<1> DEFINE decides(n) == mem[dst + n] # mem[src + n] \/ mem[dst + n] = 0
<1>3. HasZero(Load(mem, dst)) <=> \E n \in 0..3 : mem[dst + n] = 0
  BY <1>2, LoadedBytes
<1>4. Load(mem, dst) = Load(mem, src) <=> \A n \in 0..3 : mem[dst + n] = mem[src + n]
  BY <1>2, LoadedBytes
<1>5. ASSUME \E n \in 0..3 : decides(n)
      PROVE  \E n \in 0..3 : decides(n) /\ \A j \in 0..(n - 1) : ~decides(j)
  <2>1. decides(0) \/ decides(1) \/ decides(2) \/ decides(3)
    BY <1>5
  <2> HIDE DEF decides
  <2>2. CASE decides(0)
    BY <2>2
  <2>3. CASE ~decides(0) /\ decides(1)
    BY <2>3
  <2>4. CASE ~decides(0) /\ ~decides(1) /\ decides(2)
    BY <2>4
  <2>5. CASE ~decides(0) /\ ~decides(1) /\ ~decides(2) /\ decides(3)
    BY <2>5
  <2> QED BY <2>1, <2>2, <2>3, <2>4, <2>5
<1>6. ASSUME NEW n \in 0..3, decides(n), \A j \in 0..(n - 1) : ~decides(j),
             NEW r, r = IF mem[dst + n] = mem[src + n] THEN 0 ELSE Order(mem[dst + n], mem[src + n])
      PROVE  Compares(mem, args.dst, args.src, r) /\ r \in -1..1
  <2>1. n \in Nat /\ dst + n <= 2 * Buffer - 1
    BY <1>2
  <2>2. \A j \in 0..(n - 1) : mem[dst + j] = mem[src + j] /\ mem[dst + j] # 0
    BY <1>6
  <2>3. Compares(mem, args.dst, args.src, r)
    BY <1>1, <1>6, <2>1, <2>2, Decided
  <2>4. r \in -1..1
    BY <1>6 DEF Order
  <2> QED BY <2>3, <2>4
<1>7. CASE Load(mem, dst) # Load(mem, src)
  <2>1. Return(CompareBytes)
    BY <1>7 DEF CompareWord
  <2> DEFINE first == CHOOSE n \in 0..3 : decides(n) /\ \A j \in 0..(n - 1) : ~decides(j)
             r == IF mem[dst + first] = mem[src + first] THEN 0
                  ELSE Order(mem[dst + first], mem[src + first])
  <2>2. CompareBytes = r
    BY DEF CompareBytes
  <2>3. \E n \in 0..3 : decides(n)
    BY <1>4, <1>7
  <2>4. first \in 0..3 /\ decides(first) /\ \A j \in 0..(first - 1) : ~decides(j)
    BY <1>5, <2>3
  <2> HIDE DEF first
  <2>5. Compares(mem, args.dst, args.src, r) /\ r \in -1..1
    BY <1>6, <2>4
  <2> HIDE DEF r
  <2> QED BY <1>1, <2>1, <2>2, <2>5, CompareReturns
<1>8. CASE Load(mem, dst) = Load(mem, src) /\ HasZero(Load(mem, dst))
  <2>1. Return(0)
    BY <1>8 DEF CompareWord
  <2>2. \E n \in 0..3 : decides(n)
    BY <1>3, <1>8
  <2>3. PICK n \in 0..3 : decides(n) /\ \A j \in 0..(n - 1) : ~decides(j)
    BY <1>5, <2>2
  <2>4. mem[dst + n] = mem[src + n]
    BY <1>4, <1>8
  <2>5. Compares(mem, args.dst, args.src, 0)
    BY <1>6, <2>3, <2>4
  <2> QED BY <1>1, <2>1, <2>5, CompareReturns
<1>9. CASE Load(mem, dst) = Load(mem, src) /\ ~HasZero(Load(mem, dst))
  <2>1. GoOn(4)
    BY <1>9 DEF CompareWord
  <2>2. \A j \in 0..(4 - 1) : mem[dst + j] = mem[src + j] /\ mem[dst + j] # 0
    BY <1>3, <1>4, <1>9
  <2>3. src + 4 <= 2 * Buffer
    BY <1>2
  <2> QED BY <1>1, <2>1, <2>2, <2>3, CompareGoesOn
<1> QED BY <1>7, <1>8, <1>9

\* A string placed in the memory is there, and the rest is as before.
LEMMA PlacedString ==
  ASSUME NEW m \in Memory, NEW str \in Strings, NEW at \in (0..3) \union (Buffer..(Buffer + 3))
  PROVE  /\ Place(m, at, str) \in Memory
         /\ StringAt(Place(m, at, str), at)
         /\ \A a \in 0..(2 * Buffer - 1) : ~(a - at \in 0..Len(str)) => Place(m, at, str)[a] = m[a]
<1> DEFINE p == Place(m, at, str)
<1>1. /\ Buffer \in Nat /\ Buffer >= 4 /\ str \in Seq(1..(CharMod - 1)) /\ Len(str) + 4 <= Buffer
      /\ Len(str) \in Nat
  BY StringsAssumption
<1>2. /\ DOMAIN p = 0..(2 * Buffer - 1)
      /\ \A a \in 0..(2 * Buffer - 1) :
           p[a] = IF a - at \in 0..(Len(str) - 1) THEN str[a - at + 1]
                  ELSE IF a - at = Len(str) THEN 0 ELSE m[a]
  BY DEF Place, Memory
<1>3. \A a \in 0..(2 * Buffer - 1) :
        a - at \in 0..(Len(str) - 1) => str[a - at + 1] \in 1..(CharMod - 1)
  <2>1. \A k \in 1..Len(str) : str[k] \in 1..(CharMod - 1)
    BY <1>1, ElementOfSeq
  <2>2. ASSUME NEW a \in 0..(2 * Buffer - 1), a - at \in 0..(Len(str) - 1)
        PROVE  a - at + 1 \in 1..Len(str)
    BY <1>1, <2>2
  <2> QED BY <2>1, <2>2
<1>4. \A a \in 0..(2 * Buffer - 1) : p[a] \in Char
  BY <1>2, <1>3, Chars DEF Char, Memory
<1>5. p \in Memory
  BY <1>2, <1>4 DEF Memory, Place
<1>6. at + Len(str) \in at..(at + Buffer - 4) /\ at + Len(str) \in 0..(2 * Buffer - 1)
  BY <1>1
<1>7. p[at + Len(str)] = 0
  BY <1>1, <1>2, <1>6
<1>8. ASSUME NEW b \in at..(at + Len(str) - 1) PROVE p[b] # 0
  <2>1. b \in 0..(2 * Buffer - 1) /\ b - at \in 0..(Len(str) - 1)
    BY <1>1
  <2> QED BY <1>2, <1>3, <2>1
<1>9. StringAt(p, at)
  BY <1>6, <1>7, <1>8 DEF StringAt
<1>10. \A a \in 0..(2 * Buffer - 1) : ~(a - at \in 0..Len(str)) => p[a] = m[a]
  BY <1>1, <1>2
<1> QED BY <1>5, <1>9, <1>10

LEMMA BlankMemory == Blank \in Memory
BY Chars DEF Blank, Memory, Char

\* A call with strings in place.
LEMMA CallStarts ==
  ASSUME NEW function \in {"strcpy", "strcmp", "malloc"}, NEW m \in Memory,
         NEW d \in 0..3, NEW s \in Buffer..(Buffer + 3), LibCalled(function, m, d, s),
         function # "malloc" => StringAt(m, s), function = "strcmp" => StringAt(m, d)
  PROVE  StringInv
<1>1. Buffer \in Nat /\ Buffer >= 4
  BY StringsAssumption
<1>2. /\ lib_pc = function /\ mem = m /\ dst = d /\ src = s /\ result = 0 /\ heap_memory_used = 0
      /\ args = [function |-> function, mem |-> m, dst |-> d, src |-> s]
  BY DEF LibCalled
<1>3. LibTypeOK
  BY <1>1, <1>2 DEF LibTypeOK, Memory
<1>4. Called
  BY <1>2 DEF Called
<1>5. UnderWay
  <2> SUFFICES ASSUME function \in {"strcpy", "strcmp"} PROVE UnderWay
    BY <1>2 DEF UnderWay
  <2>1. End(m, s) \in s..(s + Buffer - 4)
    BY EndOfString
  <2>2. function = "strcmp" => End(m, d) \in d..(d + Buffer - 4)
    BY EndOfString
  <2>3. s - s = 0 /\ d - d = 0 /\ s \in s..End(m, s) /\ 0..(s - s - 1) = {}
    BY <1>1, <2>1
  <2>4. function = "strcmp" => d <= End(m, d)
    BY <1>1, <2>2
  <2> QED BY <1>2, <2>3, <2>4 DEF UnderWay
<1> QED BY <1>2, <1>3, <1>4, <1>5 DEF StringInv, StringsAsSpecified

LEMMA StringStart == LibInit \/ LibCalled("malloc", Blank, 0, Buffer) => StringInv
<1>1. Buffer \in Nat /\ Buffer >= 4
  BY StringsAssumption
<1>2. ASSUME LibCalled("malloc", Blank, 0, Buffer) PROVE StringInv
  BY <1>1, <1>2, BlankMemory, CallStarts
<1>3. ASSUME NEW d \in 0..3, NEW s \in Buffer..(Buffer + 3), NEW str2 \in Strings,
             LibCalled("strcpy", Place(Blank, s, str2), d, s)
      PROVE  StringInv
  <2>1. Place(Blank, s, str2) \in Memory /\ StringAt(Place(Blank, s, str2), s)
    BY BlankMemory, PlacedString
  <2> QED BY <1>3, <2>1, CallStarts
<1>4. ASSUME NEW d \in 0..3, NEW s \in Buffer..(Buffer + 3), NEW str1 \in Strings, NEW str2 \in Strings,
             LibCalled("strcmp", Place(Place(Blank, s, str2), d, str1), d, s)
      PROVE  StringInv
  <2> DEFINE m == Place(Blank, s, str2)
             p == Place(m, d, str1)
  <2>1. m \in Memory /\ StringAt(m, s)
    BY BlankMemory, PlacedString
  <2> HIDE DEF m
  <2>2. p \in Memory /\ StringAt(p, d)
    BY <2>1, PlacedString
  <2>3. \A a \in 0..(2 * Buffer - 1) : ~(a - d \in 0..Len(str1)) => p[a] = m[a]
    BY <2>1, PlacedString
  <2>4. Len(str1) \in Nat /\ Len(str1) + 4 <= Buffer
    BY StringsAssumption
  <2> HIDE DEF p
  <2>5. \A a \in Buffer..(2 * Buffer - 1) : p[a] = m[a]
    BY <1>1, <2>3, <2>4
  <2>6. StringAt(p, s)
    <3>1. PICK e \in s..(s + Buffer - 4) : m[e] = 0 /\ \A b \in s..(e - 1) : m[b] # 0
      BY <2>1 DEF StringAt
    <3>2. p[e] = 0 /\ \A b \in s..(e - 1) : p[b] # 0
      BY <1>1, <2>5, <3>1
    <3> QED BY <3>2 DEF StringAt
  <2>7. LibCalled("strcmp", p, d, s)
    BY <1>4 DEF p, m
  <2> QED BY <2>2, <2>6, <2>7, CallStarts
<1> QED BY <1>2, <1>3, <1>4 DEF LibInit

LEMMA StringsKept == StringInv /\ UNCHANGED libVars => StringInv'
<1> SUFFICES ASSUME StringInv, UNCHANGED libVars PROVE StringInv'
  OBVIOUS
<1>1. UNCHANGED <<lib_pc, mem, dst, src, args, result, heap_memory_used, blocks>>
  BY DEF libVars, strVars, mallocVars
<1>2. LibTypeOK' /\ Called' /\ UnderWay'
  BY <1>1 DEF StringInv, LibTypeOK, Called, UnderWay, End
<1>3. StringsAsSpecified'
  <2>1. End(args.mem, args.src)' = End(args.mem, args.src)
    BY <1>1 DEF End
  <2>2. Compares(mem', args'.dst, args'.src, result') <=> Compares(mem, args.dst, args.src, result)
    BY <1>1
  <2> QED BY <1>1, <2>1, <2>2 DEF StringInv, StringsAsSpecified
<1> QED BY <1>2, <1>3 DEF StringInv

LEMMA StringStep == StringInv /\ LibNext => StringInv'
<1> SUFFICES ASSUME StringInv, LibNext PROVE StringInv'
  OBVIOUS
<1>1. ASSUME NEW size \in Sizes, Malloc(size) PROVE StringInv'
  <2>1. /\ lib_pc = "malloc" /\ lib_pc' \in {"malloc", "ebreak"}
        /\ UNCHANGED <<mem, dst, src, args, result>> /\ heap_memory_used' = heap_memory_used + size
    BY <1>1 DEF Malloc, strVars
  <2>2. size \in Nat
    BY HeapAssumption
  <2>3. LibTypeOK' /\ Called'
    BY <2>1, <2>2 DEF StringInv, LibTypeOK, Called
  <2> QED BY <2>1, <2>3 DEF StringInv, UnderWay, StringsAsSpecified
<1> QED BY <1>1, CopyCharStep, CopyWordStep, CompareCharStep, CompareWordStep, StringsKept
        DEF LibNext, LibEnds
=============================================================================
