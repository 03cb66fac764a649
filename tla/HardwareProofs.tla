--------------------------- MODULE HardwareProofs ---------------------------
(***************************************************************************)
(* Hardware that needs no other: the rounded-up divisor of the UART, which *)
(* from 19 cycles per bit on puts every sample in its bit, whatever the    *)
(* two frequencies; the byte lanes of the memory, whatever the registers   *)
(* hold; and what dsqa of the floating point unit computes, for every      *)
(* width of mantissa and exponent.                                         *)
(***************************************************************************)
EXTENDS BaudDivisor, ByteLanes, DarkFpu, WellFoundedInduction, TLAPS

-----------------------------------------------------------------------------
(* The divisor.                                                            *)

RateInv ==
  /\ clk_freq \in Nat /\ uart_freq \in Nat \ {0}
  /\ clk_freq >= 19 * uart_freq
  /\ bit \in 0..8

(* The divisor is the ratio of the frequencies rounded up.                 *)
LEMMA DivisorRoundsUp ==
  ASSUME NEW c \in Nat, NEW u \in Nat \ {0}, c >= 1
  PROVE  /\ BIT_CLK(c, u) \in Nat
         /\ c <= BIT_CLK(c, u) * u
         /\ BIT_CLK(c, u) * u <= c + u - 1
<1> DEFINE q == (c - 1) \div u
<1>1. q \in Nat /\ q * u <= c - 1 /\ c - 1 < q * u + u
  BY SMT
<1>2. BIT_CLK(c, u) = q + 1
  BY DEF BIT_CLK
<1>3. (q + 1) * u = q * u + u
  BY <1>1, SMT
<1>. QED
  BY <1>1, <1>2, <1>3, SMT

(* The samples, for a ratio of at least 19.                                *)
LEMMA SamplePlace ==
  ASSUME RateInv PROVE SampleWithinBit
<1> DEFINE c == clk_freq
           u == uart_freq
           B == BIT_CLK(c, u)
           P == B * u
           M == (B \div 2) * u
<1>1. c \in Nat /\ u \in Nat \ {0} /\ c >= 19 * u /\ bit \in 0..8
  BY DEF RateInv
<1>2. B \in Nat /\ c <= P /\ P <= c + u - 1
  BY <1>1, DivisorRoundsUp
<1> HIDE DEF B
<1>3. B \div 2 \in Nat /\ 2 * (B \div 2) <= B /\ B <= 2 * (B \div 2) + 1
  BY <1>2, SMT
<1>4. P \in Nat /\ M \in Nat /\ 2 * M <= P /\ P <= 2 * M + u
  <2>1. P \in Nat /\ M \in Nat
    BY <1>1, <1>2, <1>3, SMT
  <2>2. (2 * (B \div 2)) * u <= B * u
    BY <1>1, <1>2, <1>3, SMT
  <2>3. B * u <= (2 * (B \div 2) + 1) * u
    BY <1>1, <1>2, <1>3, SMT
  <2>. QED
    BY <1>1, <1>2, <1>3, <2>1, <2>2, <2>3, SMT
<1>5. SampleCycle * u = P + M + bit * P
  <2>1. SampleCycle = B + (B \div 2) + bit * B
    BY DEF SampleCycle, ONE_AND_HALF_BIT_CLK, B
  <2>. QED
    BY <1>1, <1>2, <1>3, <2>1, SMT
<1> HIDE DEF P, M, c, u
<1>6. (bit + 1) * c < P + M + bit * P /\ P + M + bit * P < (bit + 2) * c
  BY <1>1, <1>2, <1>4, SMT
<1>. QED
  BY <1>5, <1>6 DEF SampleWithinBit, c, u

(* A board clocked at 19 or more times its baud rate samples every bit of  *)
(* a frame sent at exactly that rate within the bit (uart.v:33-34).        *)
THEOREM RateSuffices ==
  ASSUME \A rate \in Rates : rate[1] >= 19 * rate[2]
  PROVE  Spec => []SampleWithinBit
<1>1. Init => RateInv
  BY RatesAssumption DEF Init, RateInv
<1>2. RateInv /\ [Next]_vars => RateInv'
  BY RatesAssumption DEF Next, Build, Sample, vars, RateInv
<1>3. RateInv => SampleWithinBit
  BY SamplePlace
<1>. QED
  BY <1>1, <1>2, <1>3, PTL DEF Spec

-----------------------------------------------------------------------------
(* The byte lanes.                                                         *)

(* The word is what the program has stored, and what has been read of it   *)
(* stays what it was while the core is halted.                             *)
LaneInv ==
  /\ LaneTypeOK
  /\ word = stored
  /\ lane_pc \in {"halted", "loaded"} => do = stored
  /\ lane_pc = "loaded" => DATAI = FromLanes(do, DLEN, place)

\* The lanes an aligned access selects are those of its bytes.
LEMMA SelectedLanes ==
  ASSUME NEW len \in {1, 2, 4}, NEW p \in Lanes, <<len, p>> \in AlignedAccess
  PROVE  XBE(len, p) = {l \in Lanes : l - p \in 0..(len - 1)}
<1>1. CASE len = 1
  BY <1>1 DEF XBE, Lanes
<1>2. CASE len = 2
  <2>1. p \in {0, 2}
    BY <1>2 DEF AlignedAccess, Lanes
  <2>2. CASE p = 0
    BY <1>2, <2>2 DEF XBE, Lanes
  <2>3. CASE p = 2
    BY <1>2, <2>3 DEF XBE, Lanes
  <2> QED BY <2>1, <2>2, <2>3
<1>3. CASE len = 4
  <2>1. p = 0
    BY <1>3 DEF AlignedAccess, Lanes
  <2> QED BY <1>3, <2>1 DEF XBE, Lanes
<1> QED BY <1>1, <1>2, <1>3

LEMMA LaneInvInit == LaneInit => LaneInv
  BY DEF LaneInit, LaneInv, LaneTypeOK, Silent, Lanes, AlignedAccess

\* Each action keeps the invariant; only a store changes the word.
LEMMA LaneInvNext == LaneInv /\ [LaneNext]_laneVars => LaneInv'
<1> SUFFICES ASSUME LaneInv, [LaneNext]_laneVars PROVE LaneInv'
  OBVIOUS
<1>1. ASSUME NEW len \in {1, 2, 4}, NEW p \in Lanes, <<len, p>> \in AlignedAccess,
             NEW reg \in Registers, Store(reg, len, p)
      PROVE  LaneInv'
  <2>1. \A l \in Lanes : l \in XBE(len, p) <=> l - p \in 0..(len - 1)
    BY <1>1, SelectedLanes
  <2>2. word' = stored'
    BY <1>1, <2>1 DEF Store, XATAO, LaneInv
  <2>3. stored' \in [Lanes -> Nat]
    <3>1. \A l \in Lanes : l - p \in 0..(len - 1) => reg[l - p] \in Nat
      BY <1>1, RegisterAssumption DEF Lanes
    <3> QED BY <1>1, <3>1 DEF Store, LaneInv, LaneTypeOK
  <2> QED BY <1>1, <2>2, <2>3 DEF Store, LaneInv, LaneTypeOK
<1>2. ASSUME NEW len \in {1, 2, 4}, NEW p \in Lanes, <<len, p>> \in AlignedAccess, ReadWord(len, p)
      PROVE  LaneInv'
  BY <1>2 DEF ReadWord, LaneInv, LaneTypeOK
<1>3. CASE Take
  <2>1. DLEN \in {1, 2, 4} /\ place \in Lanes /\ place % DLEN = 0
    BY DEF LaneInv, LaneTypeOK, AlignedAccess
  <2>2. \A l \in Lanes : l < DLEN => l + place \in Lanes
    BY <2>1 DEF Lanes
  <2>3. DATAI' \in [Lanes -> Nat]
    BY <1>3, <2>2 DEF Take, FromLanes, LaneInv, LaneTypeOK
  <2> QED BY <1>3, <2>3 DEF Take, LaneInv, LaneTypeOK
<1>4. CASE Use
  BY <1>4 DEF Use, LaneInv, LaneTypeOK, Silent, Lanes, AlignedAccess
<1>5. CASE UNCHANGED laneVars
  BY <1>5 DEF laneVars, LaneInv, LaneTypeOK
<1> QED BY <1>1, <1>2, <1>3, <1>4, <1>5 DEF LaneNext

(* Loads return what was stored at their places, for any registers         *)
(* (darkdemux.v:18-38, ram32.v:39).                                        *)
THEOREM LanesCorrect == LaneSpec => []LoadsWhatWasStored
<1>1. LaneInv => LoadsWhatWasStored
  BY DEF LaneInv, LoadsWhatWasStored, FromLanes
<1> QED BY <1>1, LaneInvInit, LaneInvNext, PTL DEF LaneSpec

-----------------------------------------------------------------------------
(* Powers of two.                                                          *)

LEMMA LeastOf ==
  ASSUME NEW T, T \subseteq Nat, T # {}
  PROVE  \E x \in T : \A y \in T : x <= y
<1> DEFINE R == OpToRel(<, Nat)
<1>1. IsWellFoundedOn(R, Nat)
  BY NatLessThanWellFounded
<1>2. \A x, y \in Nat : <<y, x>> \in R <=> y < x
  BY DEF OpToRel
<1> HIDE DEF R
<1>3. PICK x \in T : \A y \in T : ~ (<<y, x>> \in R)
  BY <1>1, WFMin
<1>4. \A y \in T : y \in Nat /\ ~ (y < x)
  BY <1>2, <1>3
<1> QED BY <1>4

\* A function that doubles from 1 on, up to n.
Doubles(f, n) == f \in [0..n -> Nat] /\ f[0] = 1 /\ \A i \in 1..n : f[i] = 2 * f[i - 1]

LEMMA DoublingExists == \A n \in Nat : \E f : Doubles(f, n)
<1> DEFINE T == {n \in Nat : ~ \E f : Doubles(f, n)}
<1>1. SUFFICES ASSUME T # {} PROVE FALSE
  OBVIOUS
<1>2. PICK n \in T : \A m \in T : n <= m
  BY <1>1, LeastOf
<1>3. n # 0
  <2> DEFINE f == [i \in 0..0 |-> 1]
  <2>1. Doubles(f, 0)
    BY DEF Doubles
  <2> QED BY <2>1
<1>4. PICK g : Doubles(g, n - 1)
  BY <1>2, <1>3
<1> DEFINE f == [i \in 0..n |-> IF i = n THEN 2 * g[n - 1] ELSE g[i]]
<1>5. Doubles(f, n)
  BY <1>3, <1>4 DEF Doubles
<1> QED BY <1>5

LEMMA DoublingUnique ==
  ASSUME NEW n \in Nat, NEW m \in Nat, m <= n, NEW f, NEW g, Doubles(f, n), Doubles(g, m)
  PROVE  \A i \in 0..m : f[i] = g[i]
<1> DEFINE T == {i \in 0..m : f[i] # g[i]}
<1>1. SUFFICES ASSUME T # {} PROVE FALSE
  OBVIOUS
<1>2. PICK i \in T : \A j \in T : i <= j
  <2>1. T \subseteq Nat
    OBVIOUS
  <2> HIDE DEF T
  <2> QED BY <1>1, <2>1, LeastOf
<1>3. i # 0
  BY DEF Doubles
<1>4. f[i - 1] = g[i - 1]
  BY <1>2, <1>3
<1> QED BY <1>3, <1>4 DEF Doubles

LEMMA Pow2Unfolds ==
  /\ Pow2[0] = 1
  /\ \A n \in Nat : Pow2[n + 1] = 2 * Pow2[n] /\ Pow2[n] \in Nat
<1> DEFINE D(n) == CHOOSE f : Doubles(f, n)
           F == [n \in Nat |-> D(n)[n]]
<1>1. \A n \in Nat : Doubles(D(n), n)
  BY DoublingExists
<1>2. \A n \in Nat : F[n] = D(n)[n]
  OBVIOUS
<1> HIDE DEF D
<1>3. F[0] = 1
  BY <1>1, <1>2 DEF Doubles
<1>4. ASSUME NEW n \in Nat, n # 0 PROVE F[n] = 2 * F[n - 1]
  <2>1. n - 1 \in Nat /\ n - 1 <= n /\ Doubles(D(n), n) /\ Doubles(D(n - 1), n - 1)
    BY <1>1, <1>4
  <2>2. D(n)[n - 1] = D(n - 1)[n - 1]
    BY <2>1, DoublingUnique
  <2> QED BY <1>2, <1>4, <2>1, <2>2 DEF Doubles
<1>5. F = [n \in Nat |-> IF n = 0 THEN 1 ELSE 2 * F[n - 1]]
  BY <1>3, <1>4
<1>6. Pow2 = CHOOSE g : g = [n \in Nat |-> IF n = 0 THEN 1 ELSE 2 * g[n - 1]]
  BY DEF Pow2
<1> HIDE DEF F
<1>7. Pow2 = [n \in Nat |-> IF n = 0 THEN 1 ELSE 2 * Pow2[n - 1]]
  BY <1>5, <1>6
<1>8. Pow2[0] = 1 /\ \A n \in Nat : Pow2[n + 1] = 2 * Pow2[n]
  BY <1>7
<1>9. \A n \in Nat : Pow2[n] \in Nat
  <2> DEFINE T == {n \in Nat : Pow2[n] \notin Nat}
  <2>1. SUFFICES ASSUME T # {} PROVE FALSE
    OBVIOUS
  <2>2. PICK n \in T : \A m \in T : n <= m
    BY <2>1, LeastOf
  <2>3. n # 0
    BY <1>8
  <2>4. Pow2[n - 1] \in Nat /\ n - 1 \in Nat
    BY <2>2, <2>3
  <2> QED BY <1>8, <2>4
<1> QED BY <1>8, <1>9

LEMMA Pow2Positive == \A n \in Nat : Pow2[n] >= 1
<1> DEFINE T == {n \in Nat : ~ (Pow2[n] >= 1)}
<1>1. SUFFICES ASSUME T # {} PROVE FALSE
  OBVIOUS
<1>2. PICK n \in T : \A m \in T : n <= m
  BY <1>1, LeastOf
<1>3. n # 0
  BY Pow2Unfolds
<1>4. Pow2[n - 1] >= 1 /\ n - 1 \in Nat
  BY <1>2, <1>3
<1> QED BY Pow2Unfolds, <1>4

LEMMA Pow2Adds == \A m, n \in Nat : Pow2[m + n] = Pow2[m] * Pow2[n]
<1> SUFFICES ASSUME NEW m \in Nat PROVE \A n \in Nat : Pow2[m + n] = Pow2[m] * Pow2[n]
  OBVIOUS
<1> DEFINE T == {n \in Nat : Pow2[m + n] # Pow2[m] * Pow2[n]}
<1>1. SUFFICES ASSUME T # {} PROVE FALSE
  OBVIOUS
<1>2. PICK n \in T : \A k \in T : n <= k
  BY <1>1, LeastOf
<1>3. n # 0
  BY Pow2Unfolds
<1>4. n - 1 \in Nat /\ Pow2[m + (n - 1)] = Pow2[m] * Pow2[n - 1]
  BY <1>2, <1>3
<1>5. Pow2[m + n] = 2 * Pow2[m + (n - 1)] /\ Pow2[n] = 2 * Pow2[n - 1]
  <2>1. m + n = (m + (n - 1)) + 1 /\ n = (n - 1) + 1
    BY <1>4
  <2>2. m + (n - 1) \in Nat
    BY <1>4
  <2> QED BY <1>4, <2>1, <2>2, Pow2Unfolds
<1>6. Pow2[m] \in Nat /\ Pow2[n - 1] \in Nat
  BY <1>4, Pow2Unfolds
<1>7. \A a, b \in Nat : 2 * (a * b) = a * (2 * b)
  OBVIOUS
<1> QED BY <1>4, <1>5, <1>6, <1>7

LEMMA Pow2Grows == \A m, n \in Nat : m <= n => Pow2[m] <= Pow2[n]
<1> SUFFICES ASSUME NEW m \in Nat, NEW n \in Nat, m <= n PROVE Pow2[m] <= Pow2[n]
  OBVIOUS
<1>1. n - m \in Nat /\ n = m + (n - m)
  OBVIOUS
<1>2. Pow2[n] = Pow2[m] * Pow2[n - m]
  BY <1>1, Pow2Adds
<1>3. Pow2[m] \in Nat /\ Pow2[n - m] \in Nat /\ Pow2[n - m] >= 1
  BY <1>1, Pow2Unfolds, Pow2Positive
<1>4. \A a, b \in Nat : b >= 1 => a <= a * b
  OBVIOUS
<1> QED BY <1>2, <1>3, <1>4

LEMMA Pow2Halves == \A n \in Nat : n >= 1 => Pow2[n] = 2 * Pow2[n - 1] /\ Pow2[n - 1] \in Nat
<1> SUFFICES ASSUME NEW n \in Nat, n >= 1 PROVE Pow2[n] = 2 * Pow2[n - 1] /\ Pow2[n - 1] \in Nat
  OBVIOUS
<1>1. n - 1 \in Nat /\ (n - 1) + 1 = n
  OBVIOUS
<1> QED BY <1>1, Pow2Unfolds

\* What the units are wide.
ManMod == Pow2[BITS]
ExpMod == Pow2[EXP_BITS]

LEMMA FpuSizes ==
  /\ BITS \in Nat /\ BITS >= 2
  /\ Implicit \in Nat /\ Implicit >= 2 /\ ManMod = 2 * Implicit
  /\ ManMod \in Nat /\ ManMod >= 4 /\ Pow2[2 * BITS] = ManMod * ManMod /\ ManMod * ManMod >= 4 * ManMod
  /\ ExpMod \in Nat /\ ExpMod >= 4 /\ Bias \in Nat /\ Bias + Bias + 2 = ExpMod
<1>1. BITS \in Nat /\ BITS >= 2 /\ EXP_BITS \in Nat /\ EXP_BITS >= 2
  BY FpuAssumption
<1>2. /\ Pow2[BITS] = 2 * Pow2[BITS - 1] /\ Pow2[BITS - 1] \in Nat
      /\ Pow2[EXP_BITS] = 2 * Pow2[EXP_BITS - 1] /\ Pow2[EXP_BITS - 1] \in Nat
  BY <1>1, Pow2Halves
<1>3. Pow2[0] = 1 /\ Pow2[1] = 2
  <2>1. Pow2[0] = 1 /\ Pow2[0 + 1] = 2 * Pow2[0]
    BY Pow2Unfolds
  <2> QED BY <2>1
<1>4. Pow2[BITS - 1] >= 2 /\ Pow2[EXP_BITS - 1] >= 2
  <2>1. BITS - 1 \in Nat /\ EXP_BITS - 1 \in Nat /\ 1 <= BITS - 1 /\ 1 <= EXP_BITS - 1
    BY <1>1
  <2>2. Pow2[1] <= Pow2[BITS - 1] /\ Pow2[1] <= Pow2[EXP_BITS - 1]
    BY <2>1, Pow2Grows
  <2> QED BY <1>3, <2>2
<1>5. Pow2[2 * BITS] = ManMod * ManMod
  <2>1. 2 * BITS = BITS + BITS
    BY <1>1
  <2> QED BY <1>1, <2>1, Pow2Adds DEF ManMod
<1>6. \A m \in Nat : m >= 4 => m * m >= 4 * m
  OBVIOUS
<1>7. ManMod \in Nat /\ ManMod >= 4
  BY <1>2, <1>4 DEF ManMod
<1> QED BY <1>1, <1>2, <1>4, <1>5, <1>6, <1>7 DEF ManMod, ExpMod, Implicit, Bias

-----------------------------------------------------------------------------
(* The adder, as a function of what it adds.                               *)

\* A number shifted right by k places, rounded by the last bit shifted out.
Rounded(n, k) == ((2 * n) \div Pow2[k]) \div 2 + (((2 * n) \div Pow2[k]) % 2)

TopOf(x, y) == IF y.exp > x.exp THEN y.exp ELSE x.exp
ManAt(n, top) == Rounded(n.man, top - n.exp)

Added(x, y) ==
  LET xs == ManAt(x, TopOf(x, y))
      ys == ManAt(y, TopOf(x, y))
  IN Number(IF x.sgn = y.sgn \/ ~(xs < ys) THEN x.sgn ELSE y.sgn, TopOf(x, y),
            IF x.sgn = y.sgn THEN xs + ys ELSE IF xs < ys THEN ys - xs ELSE xs - ys)

Carried(r) ==
  IF (r.man \div ManMod) % 2 = 1 THEN Number(r.sgn, r.exp + 1, r.man \div 2) ELSE r

\* What the registers of the adder hold of a sum.
AdderAt(s, x, y) ==
  /\ s.state = "SHIFT" => s.x = x.man /\ s.y = y.man /\ s.gx = 0 /\ s.gy = 0
  /\ s.state = "ROUND" =>
       /\ s.x + s.gx = ManAt(x, TopOf(x, y)) /\ s.y + s.gy = ManAt(y, TopOf(x, y))
       /\ s.r.exp = TopOf(x, y)
  /\ s.state = "SUMDIFF" =>
       /\ s.x = ManAt(x, TopOf(x, y)) /\ s.y = ManAt(y, TopOf(x, y))
       /\ s.r.exp = TopOf(x, y)
  /\ s.state = "NORM" => s.r = Added(x, y)
  /\ s.state = "DONE" => s.r = Carried(Added(x, y))

-----------------------------------------------------------------------------
(* A dsqa, from what the program gave it.                                  *)

Negated(n) == [n EXCEPT !.sgn = 1 - @]
Difference == Carried(Added(WithImplicit(f1), Negated(WithImplicit(f2))))
Product ==
  Number(0, 2 * Difference.exp - (Bias + BITS - 1), Difference.man * Difference.man)
Total == Carried(Added(Product, WithImplicit(acc)))

\* In the same units as DsqaAccurate: what is to be computed, and what the difference loses.
Greatest == IF f1.exp > f2.exp THEN f1.exp ELSE f2.exp
LastPlace == Pow2[Greatest]
TrueDifference == Magnitude(Value(f1) - Value(f2))
Exact == Value(acc) * Square + TrueDifference * TrueDifference
Lost == 3 * TrueDifference * LastPlace + 3 * LastPlace * LastPlace

\* No result of this call has a greater exponent.
Room ==
  LET square == 2 * Greatest + 3 - Bias
  IN (IF acc.exp > square THEN acc.exp ELSE square) + 1

\* A number on its way to the result: below Implicit it has lost nothing since the difference.
NearResult(n) ==
  /\ n.sgn = 0
  /\ n.man # 0 => n.man * Pow2[n.exp] >= ManMod
  /\ n.man * Pow2[n.exp] < Pow2[BITS + Room]
  /\ Magnitude(n.man * Pow2[n.exp] * Square - Exact)
       <= Lost + (IF n.man < Implicit THEN 0 ELSE Pow2[n.exp] * Square)

Finished(n) == (n.man = 0 /\ n.exp = 0) \/ n.man \in Implicit..(ManMod - 1)

\* A number the program holds: zero, or with room for the tests to come.
Held(n, left) ==
  /\ n.sgn = 0
  /\ n.exp = 0 => n.man = 0
  /\ n.exp # 0 => n.exp + left < ExpMod

\* What the registers of both modules hold of a call.
UnitAt(u, s) ==
  /\ IF u.state \in {"SD_AB", "SD_CD"} THEN u.sd_cs ELSE ~u.sd_cs /\ s.state = "IDLE"
  /\ u.state = "IMPCT" => u.a = f1 /\ u.b = f2 /\ u.c = Zero /\ u.d = acc
  /\ u.state \in {"SD_AB", "EXP", "MUL", "SD_CD"} => u.d = WithImplicit(acc)
  /\ u.state = "SD_AB" =>
       /\ u.sd = "AB" /\ u.a = WithImplicit(f1) /\ u.b = WithImplicit(f2) /\ u.c = Zero
       /\ AdderAt(s, WithImplicit(f1), Negated(WithImplicit(f2)))
  /\ u.state = "EXP" =>
       /\ u.a.man = Difference.man /\ u.b.man = Difference.man
       /\ u.c = Number(0, Difference.exp, 0)
  /\ u.state = "MUL" =>
       /\ u.c.sgn = 0 /\ u.c.exp = Product.exp
       /\ u.c.man + u.a.man * u.b.man = Product.man
  /\ u.state = "SD_CD" =>
       /\ u.sd = "CD" /\ u.c = Product
       /\ AdderAt(s, Product, WithImplicit(acc))
  /\ u.state \in {"NORM", "DONE"} => NearResult(u.c)
  /\ u.state = "DONE" => Finished(u.c)

\* What the program knows of its numbers.
ProgramAt ==
  /\ Held(acc, Tests - tests)
  /\ fpu.state # "IDLE" => fpu_pc = "dsqa"
  /\ fpu_pc # "main" => tests < Tests /\ f1 \in Inputs /\ f2 \in Inputs
  /\ fpu_pc = "compare" =>
       /\ Held(f3, Tests - (tests + 1))
       /\ Magnitude(Value(f3) * Square - Exact) <= Lost + Pow2[f3.exp] * Square

DsqaInv == UnitAt(fpu, sumdiff) /\ ProgramAt

LEMMA RoundedIsNear ==
  ASSUME NEW n \in Nat, NEW k \in Nat
  PROVE  /\ Rounded(n, k) \in 0..n
         /\ 2 * (Rounded(n, k) * Pow2[k]) - 2 * n \in (-Pow2[k])..Pow2[k]
         /\ k = 0 => Rounded(n, k) = n
<1>1. CASE k = 0
  <2>1. (2 * n) \div 1 = 2 * n /\ (2 * n) \div 2 = n /\ (2 * n) % 2 = 0
    OBVIOUS
  <2>2. Pow2[0] = 1
    BY Pow2Unfolds
  <2> QED BY <1>1, <2>1, <2>2 DEF Rounded
<1>2. CASE k # 0
  <2> DEFINE h == Pow2[k - 1]
             s == (2 * n) \div Pow2[k]
  <2>1. Pow2[k] = 2 * h /\ h \in Nat /\ h >= 1
    BY <1>2, Pow2Halves, Pow2Positive
  <2>2. s \in Nat /\ s * (2 * h) <= 2 * n /\ 2 * n < s * (2 * h) + 2 * h
    <3>1. \A a \in Nat, b \in Nat \ {0} :
            a \div b \in Nat /\ (a \div b) * b <= a /\ a < (a \div b) * b + b
      OBVIOUS
    <3>2. 2 * n \in Nat /\ 2 * h \in Nat \ {0}
      BY <2>1
    <3> HIDE DEF h
    <3> QED BY <2>1, <3>1, <3>2
  <2> HIDE DEF s, h
  <2> DEFINE p == s * h
  <2>3. p \in Nat /\ s * (2 * h) = 2 * p
    BY <2>1, <2>2
  <2>4. p <= n /\ n < p + h
    <3> HIDE DEF p
    <3> QED BY <2>1, <2>2, <2>3
  <2> DEFINE t == s \div 2
             g == s % 2
  <2>5. t \in Nat /\ g \in {0, 1} /\ s = 2 * t + g
    BY <2>2
  <2>6. Rounded(n, k) = t + g
    BY DEF Rounded, s
  <2> HIDE DEF t, g
  <2>7. (t + g) * (2 * h) = p + g * h
    <3>1. (t + g) * (2 * h) = (2 * t + g) * h + g * h
      BY <2>1, <2>5
    <3> QED BY <2>5, <3>1
  <2>8. g * h = IF g = 0 THEN 0 ELSE h
    BY <2>1, <2>5
  <2>9. s <= p
    BY <2>1, <2>2
  <2> HIDE DEF p
  <2>10. t + g \in 0..n
    <3>1. t + g <= s
      BY <2>5
    <3> QED BY <2>2, <2>3, <2>4, <2>5, <2>9, <3>1
  <2>11. 2 * ((t + g) * (2 * h)) - 2 * n \in (-(2 * h))..(2 * h)
    <3> DEFINE q == (t + g) * (2 * h)
    <3>1. q = IF g = 0 THEN p ELSE p + h
      BY <2>1, <2>3, <2>5, <2>7, <2>8
    <3>2. 2 * q - 2 * n \in (-(2 * h))..(2 * h)
      <4> HIDE DEF q
      <4> QED BY <2>1, <2>3, <2>4, <3>1
    <3> QED BY <3>2
  <2>12. Rounded(n, k) * Pow2[k] = (t + g) * (2 * h)
    BY <2>1, <2>6
  <2>13. 2 * (Rounded(n, k) * Pow2[k]) - 2 * n \in (-Pow2[k])..Pow2[k]
    <3> DEFINE q == (t + g) * (2 * h)
               r == Rounded(n, k) * Pow2[k]
               e == Pow2[k]
    <3>1. r = q /\ q \in Int /\ e = 2 * h /\ e \in Nat /\ 2 * q - 2 * n \in (-(2 * h))..(2 * h)
      BY <2>1, <2>5, <2>11, <2>12
    <3>2. 2 * r - 2 * n \in (-e)..e
      <4> HIDE DEF q, r, e
      <4> QED BY <2>1, <3>1
    <3> QED BY <3>2
  <2> QED BY <1>2, <2>6, <2>10, <2>13
<1> QED BY <1>1, <1>2

-----------------------------------------------------------------------------
(* Types.                                                                  *)

FpuStates == {"IDLE", "IMPCT", "SD_AB", "EXP", "MUL", "SD_CD", "NORM", "DONE"}
SumdiffStates == {"IDLE", "SHIFT", "ROUND", "SUMDIFF", "NORM", "DONE"}
Wides == Numbers(0..(Pow2[2 * BITS] - 1))
Narrows == Numbers(0..(Pow2[BITS] - 1))
Stored == Numbers(0..(Implicit - 1))

FpuRegs == [state : FpuStates, sd_cs : BOOLEAN, sd : {"AB", "CD"},
            a : Wides, b : Narrows, c : Wides, d : Narrows]
SumdiffRegs == [state : SumdiffStates, x : 0..(Pow2[2 * BITS] - 1), gx : {0, 1},
                y : 0..(Pow2[BITS] - 1), gy : {0, 1}, r : Wides]

ProgramTypes ==
  /\ acc \in Stored /\ f1 \in Stored /\ f2 \in Stored /\ f3 \in Stored
  /\ fpu_pc \in {"main", "dsqa", "compare"} /\ tests \in 0..Tests
  /\ fpu_pc # "main" => tests < Tests

\* The implicit bit is set in a number that does not have it yet.
FpuTypes ==
  /\ fpu \in FpuRegs /\ sumdiff \in SumdiffRegs /\ ProgramTypes
  /\ fpu.state = "IMPCT" => fpu.a \in Stored /\ fpu.b \in Stored /\ fpu.d \in Stored

LEMMA TypesSuffice == FpuTypes => FpuTypeOK
<1> SUFFICES ASSUME FpuTypes PROVE FpuTypeOK
  OBVIOUS
<1>1. fpu \in FpuRegs /\ sumdiff \in SumdiffRegs /\ ProgramTypes
  BY DEF FpuTypes
<1> QED BY <1>1 DEF FpuTypeOK, FpuRegs, SumdiffRegs, ProgramTypes, FpuStates, SumdiffStates,
                    Wides, Narrows, Stored

\* What the modules cut off, and what numbers they store.
LEMMA CutOff ==
  /\ \A n \in Int : /\ Wide(n) \in 0..(Pow2[2 * BITS] - 1) /\ Narrow(n) \in 0..(Pow2[BITS] - 1)
                    /\ Exp(n) \in 0..(Pow2[EXP_BITS] - 1) /\ n % Implicit \in 0..(Implicit - 1)
  /\ \A n \in 0..(Pow2[2 * BITS] - 1) : Wide(n) = n
  /\ \A n \in 0..(Pow2[BITS] - 1) : Narrow(n) = n
  /\ \A n \in 0..(Pow2[EXP_BITS] - 1) : Exp(n) = n
<1>1. \A d \in Nat : d >= 1 => \A n \in Int : n % d \in 0..(d - 1)
  OBVIOUS
<1>2. \A d \in Nat : d >= 1 => \A n \in 0..(d - 1) : n % d = n
  OBVIOUS
<1>3. /\ Pow2[2 * BITS] \in Nat /\ Pow2[2 * BITS] >= 1
      /\ Pow2[BITS] \in Nat /\ Pow2[BITS] >= 1
      /\ Pow2[EXP_BITS] \in Nat /\ Pow2[EXP_BITS] >= 1
      /\ Implicit \in Nat /\ Implicit >= 1
  <2>1. 2 * BITS \in Nat /\ BITS \in Nat /\ EXP_BITS \in Nat
    BY FpuAssumption
  <2> QED BY <2>1, Pow2Unfolds, Pow2Positive, FpuSizes
<1> QED BY <1>1, <1>2, <1>3 DEF Wide, Narrow, Exp

LEMMA Below ==
  \A w \in Nat : /\ 0..(w - 1) \subseteq Nat
                 /\ \A n \in 0..(w - 1) : 0..n \subseteq 0..(w - 1) /\ n \div 2 \in 0..(w - 1)
                 /\ \A n, m \in 0..(w - 1) : m <= n => n - m \in 0..(w - 1)
<1> SUFFICES ASSUME NEW w \in Nat
             PROVE  /\ 0..(w - 1) \subseteq Nat
                    /\ \A n \in 0..(w - 1) : 0..n \subseteq 0..(w - 1) /\ n \div 2 \in 0..(w - 1)
                    /\ \A n, m \in 0..(w - 1) : m <= n => n - m \in 0..(w - 1)
  OBVIOUS
<1>1. \A n \in Nat : n \div 2 \in 0..n
  OBVIOUS
<1> QED BY <1>1

LEMMA Widths ==
  /\ Pow2[2 * BITS] \in Nat /\ Pow2[2 * BITS] >= Pow2[BITS]
  /\ Pow2[BITS] \in Nat /\ Pow2[BITS] >= 4 /\ Pow2[EXP_BITS] \in Nat /\ Pow2[EXP_BITS] >= 4
  /\ Implicit \in Nat /\ Implicit >= 2 /\ Pow2[BITS] = 2 * Implicit
<1>1. \A m \in Nat : m >= 4 => m * m >= m /\ m * m \in Nat
  OBVIOUS
<1> QED BY FpuSizes, <1>1 DEF ManMod, ExpMod

LEMMA NumberFields ==
  /\ \A men, n : n \in Numbers(men) <=>
       /\ n = Number(n.sgn, n.exp, n.man)
       /\ n.sgn \in {0, 1} /\ n.exp \in 0..(ExpMod - 1) /\ n.man \in men
  /\ \A men, s, e, m : Number(s, e, m) \in Numbers(men) <=>
       s \in {0, 1} /\ e \in 0..(ExpMod - 1) /\ m \in men
  /\ \A s, e, m : /\ Number(s, e, m).sgn = s /\ Number(s, e, m).exp = e
                  /\ Number(s, e, m).man = m
BY DEF Number, Numbers, ExpMod

LEMMA StoredFits ==
  /\ Zero \in Stored /\ Stored \subseteq Narrows /\ Narrows \subseteq Wides
  /\ \A n \in Stored : WithImplicit(n) \in Narrows
<1>1. /\ Implicit \in Nat /\ Implicit >= 2 /\ Pow2[BITS] = 2 * Implicit
      /\ Pow2[2 * BITS] \in Nat /\ Pow2[2 * BITS] >= Pow2[BITS]
      /\ Pow2[EXP_BITS] \in Nat /\ Pow2[EXP_BITS] >= 4
  BY Widths
<1>2. Zero \in Stored
  BY <1>1 DEF Zero, Number, Stored, Numbers
<1>3. Stored \subseteq Narrows /\ Narrows \subseteq Wides
  BY <1>1 DEF Stored, Narrows, Wides, Numbers
<1>4. ASSUME NEW n \in Stored PROVE WithImplicit(n) \in Narrows
  BY <1>1 DEF WithImplicit, Stored, Narrows, Numbers
<1> QED BY <1>2, <1>3, <1>4

LEMMA OperandTypes ==
  ASSUME fpu \in FpuRegs
  PROVE  SD_x \in Wides /\ SD_y \in Narrows
<1>1. fpu.a \in Wides /\ fpu.b \in Narrows /\ fpu.c \in Wides /\ fpu.d \in Narrows
  BY DEF FpuRegs
<1>2. [fpu.b EXCEPT !.sgn = 1 - @] \in Narrows
  BY <1>1 DEF Narrows, Numbers
<1> QED BY <1>1, <1>2 DEF SD_x, SD_y

\* A shift of a register with its guard bit by a number of places.
LEMMA ShiftedFits ==
  ASSUME NEW n \in Nat, NEW g \in {0, 1}, NEW k \in Nat
  PROVE  /\ Shifted(n, g, k) \div 2 \in 0..n /\ Shifted(n, g, k) % 2 \in {0, 1}
<1> DEFINE p == Pow2[k]
           w == 2 * n + g
           s == w \div p
<1>1. p \in Nat /\ p >= 1 /\ w \in Nat
  BY Pow2Unfolds, Pow2Positive
<1>2. s \in Nat /\ s <= w
  <2>1. \A a \in Nat, b \in Nat : b >= 1 => a \div b \in Nat /\ a \div b <= a
    <3> SUFFICES ASSUME NEW a \in Nat, NEW b \in Nat, b >= 1 PROVE a \div b \in Nat /\ a \div b <= a
      OBVIOUS
    <3>1. a \div b \in Nat /\ (a \div b) * b <= a
      OBVIOUS
    <3>2. \A q \in Nat : q <= q * b
      OBVIOUS
    <3> QED BY <3>1, <3>2
  <2> HIDE DEF p, w
  <2> QED BY <1>1, <2>1
<1>3. Shifted(n, g, k) = s
  BY DEF Shifted
<1>4. w <= 2 * n + 1
  OBVIOUS
<1>5. \A a \in Nat : a <= 2 * n + 1 => a \div 2 \in 0..n /\ a % 2 \in {0, 1}
  OBVIOUS
<1>6. s \in Nat /\ s <= 2 * n + 1
  <2> HIDE DEF s, w
  <2> QED BY <1>1, <1>2, <1>4
<1> HIDE DEF s, w
<1> QED BY <1>3, <1>5, <1>6

LEMMA SumdiffTypes ==
  ASSUME fpu \in FpuRegs, sumdiff \in SumdiffRegs
  PROVE  Sumdiff \in SumdiffRegs
<1> DEFINE W == 0..(Pow2[2 * BITS] - 1)
           N == 0..(Pow2[BITS] - 1)
           E == 0..(Pow2[EXP_BITS] - 1)
<1>1. /\ SD_x.man \in W /\ SD_x.exp \in E /\ SD_x.sgn \in {0, 1}
      /\ SD_y.man \in N /\ SD_y.exp \in E /\ SD_y.sgn \in {0, 1}
  BY OperandTypes DEF Wides, Narrows, Numbers
<1>2. /\ sumdiff.state \in SumdiffStates /\ sumdiff.x \in W /\ sumdiff.y \in N
      /\ sumdiff.gx \in {0, 1} /\ sumdiff.gy \in {0, 1} /\ sumdiff.r \in Wides
      /\ sumdiff = [state |-> sumdiff.state, x |-> sumdiff.x, gx |-> sumdiff.gx,
                    y |-> sumdiff.y, gy |-> sumdiff.gy, r |-> sumdiff.r]
  BY DEF SumdiffRegs
<1>3. /\ sumdiff.r.sgn \in {0, 1} /\ sumdiff.r.exp \in E /\ sumdiff.r.man \in W
  BY <1>2 DEF Wides, Numbers
<1>4. /\ W \subseteq Nat /\ N \subseteq Nat /\ E \subseteq Nat /\ N \subseteq W
      /\ \A n \in W : 0..n \subseteq W /\ n \div 2 \in W
      /\ \A n \in N : 0..n \subseteq N
  BY Widths, Below
<1>5. \A n \in Int : Wide(n) \in W /\ Narrow(n) \in N /\ Exp(n) \in E
  BY CutOff
<1>6. \A s \in {0, 1}, e \in E, m \in W : Number(s, e, m) \in Wides
  BY DEF Number, Wides, Numbers
<1>7. SumdiffRegs = [state : SumdiffStates, x : W, gx : {0, 1}, y : N, gy : {0, 1}, r : Wides]
  BY DEF SumdiffRegs
<1>8. \A n, m \in W : m <= n => n - m \in W
  BY Widths, Below
<1>9. \A n \in W, m \in W : /\ n < m => m - n \in W
                           /\ ~ (n < m) => n - m \in W
  BY <1>4, <1>8
<1>9a. /\ sumdiff.x \in Nat /\ sumdiff.y \in Nat /\ sumdiff.y \in W
       /\ sumdiff.r.exp \in Nat /\ sumdiff.r.exp + 1 \in Int
       /\ sumdiff.x + sumdiff.gx \in Int /\ sumdiff.y + sumdiff.gy \in Int
       /\ sumdiff.x + sumdiff.y \in Int
  BY <1>2, <1>3, <1>4
<1> HIDE DEF W, N, E
<1>10. [sumdiff EXCEPT !.state = "SHIFT", !.x = SD_x.man, !.y = SD_y.man, !.gx = 0, !.gy = 0] \in SumdiffRegs
  BY <1>1, <1>2, <1>7 DEF SumdiffStates
<1>11. SumdiffShift \in SumdiffRegs
  <2> DEFINE up == SD_y.exp - SD_x.exp
             x == Shifted(sumdiff.x, sumdiff.gx, up)
             y == Shifted(sumdiff.y, sumdiff.gy, -up)
  <2>1. SD_x.exp \in Nat /\ SD_y.exp \in Nat /\ sumdiff.x \in Nat /\ sumdiff.y \in Nat
    BY <1>1, <1>2, <1>4
  <2>2. CASE up > 0
    <3>1. up \in Nat
      BY <2>1, <2>2
    <3>2. x \div 2 \in W /\ x % 2 \in {0, 1}
      <4>1. x \div 2 \in 0..sumdiff.x /\ x % 2 \in {0, 1}
        BY <1>2, <2>1, <3>1, ShiftedFits
      <4> QED BY <1>2, <1>4, <4>1
    <3>3. SumdiffShift = [sumdiff EXCEPT !.state = "ROUND", !.x = x \div 2, !.gx = x % 2, !.r.exp = SD_y.exp]
      BY <2>2 DEF SumdiffShift
    <3>4. [sumdiff.r EXCEPT !.exp = SD_y.exp] \in Wides
      BY <1>1, <1>2 DEF Wides, Numbers, E
    <3> HIDE DEF x
    <3> QED BY <1>2, <1>7, <3>2, <3>3, <3>4 DEF SumdiffStates
  <2>3. CASE ~ (up > 0)
    <3>1. -up \in Nat
      BY <2>1, <2>3
    <3>2. y \div 2 \in N /\ y % 2 \in {0, 1}
      <4>1. y \div 2 \in 0..sumdiff.y /\ y % 2 \in {0, 1}
        BY <1>2, <2>1, <3>1, ShiftedFits
      <4> QED BY <1>2, <1>4, <4>1
    <3>3. SumdiffShift = [sumdiff EXCEPT !.state = "ROUND", !.y = y \div 2, !.gy = y % 2, !.r.exp = SD_x.exp]
      BY <2>3 DEF SumdiffShift
    <3>4. [sumdiff.r EXCEPT !.exp = SD_x.exp] \in Wides
      BY <1>1, <1>2 DEF Wides, Numbers, E
    <3> HIDE DEF y
    <3> QED BY <1>2, <1>7, <3>2, <3>3, <3>4 DEF SumdiffStates
  <2> QED BY <2>2, <2>3
<1>12. SumdiffRound \in SumdiffRegs
  <2>1. Wide(sumdiff.x + sumdiff.gx) \in W /\ Narrow(sumdiff.y + sumdiff.gy) \in N
    BY <1>5, <1>9a
  <2> QED BY <1>2, <1>7, <2>1 DEF SumdiffRound, SumdiffStates
<1>13. SumdiffAdd \in SumdiffRegs
  <2> DEFINE x == sumdiff.x
             y == sumdiff.y
             s == IF SD_x.sgn = SD_y.sgn \/ ~(x < y) THEN SD_x.sgn ELSE SD_y.sgn
             m == IF SD_x.sgn = SD_y.sgn THEN Wide(x + y) ELSE IF x < y THEN y - x ELSE x - y
  <2>1. /\ Wide(x + y) \in W
        /\ x < y => y - x \in W
        /\ ~ (x < y) => x - y \in W
    BY <1>2, <1>5, <1>9, <1>9a
  <2>2. m \in W
    BY <2>1
  <2>3. s \in {0, 1}
    BY <1>1
  <2>4. Number(s, sumdiff.r.exp, m) \in Wides
    BY <1>3, <1>6, <2>2, <2>3
  <2>5. SumdiffAdd = [sumdiff EXCEPT !.state = "NORM", !.r = Number(s, sumdiff.r.exp, m)]
    BY <1>2 DEF SumdiffAdd
  <2> HIDE DEF s, m
  <2> QED BY <1>2, <1>7, <2>4, <2>5 DEF SumdiffStates
<1>14. SumdiffNorm \in SumdiffRegs
  <2>1. Exp(sumdiff.r.exp + 1) \in E /\ sumdiff.r.man \div 2 \in W
    BY <1>3, <1>4, <1>5, <1>9a
  <2>2. Number(sumdiff.r.sgn, Exp(sumdiff.r.exp + 1), sumdiff.r.man \div 2) \in Wides
    BY <1>3, <1>6, <2>1
  <2> QED BY <1>2, <1>7, <2>2 DEF SumdiffNorm, SumdiffStates
<1>15. [sumdiff EXCEPT !.state = "IDLE"] \in SumdiffRegs
  BY <1>2, <1>7 DEF SumdiffStates
<1> QED BY <1>2, <1>10, <1>11, <1>12, <1>13, <1>14, <1>15 DEF Sumdiff, sd_ready

LEMMA FpuTypesStep ==
  ASSUME FpuTypes, NEW cs \in BOOLEAN
  PROVE  Fpu(cs) \in FpuRegs
<1> DEFINE W == 0..(Pow2[2 * BITS] - 1)
           E == 0..(Pow2[EXP_BITS] - 1)
<1>1. /\ fpu.state \in FpuStates /\ fpu.sd_cs \in BOOLEAN /\ fpu.sd \in {"AB", "CD"}
      /\ fpu.a \in Wides /\ fpu.b \in Narrows /\ fpu.c \in Wides /\ fpu.d \in Narrows
      /\ fpu = [state |-> fpu.state, sd_cs |-> fpu.sd_cs, sd |-> fpu.sd,
                a |-> fpu.a, b |-> fpu.b, c |-> fpu.c, d |-> fpu.d]
  BY DEF FpuTypes, FpuRegs
<1>2. /\ fpu.a.man \in W /\ fpu.b.man \in 0..(Pow2[BITS] - 1) /\ fpu.c.man \in W
      /\ fpu.c.exp \in E /\ fpu.c.sgn \in {0, 1}
  BY <1>1 DEF Wides, Narrows, Numbers
<1>3. /\ W \subseteq Nat /\ E \subseteq Nat /\ 0..(Pow2[BITS] - 1) \subseteq Nat
      /\ \A n \in W : n \div 2 \in W
      /\ \A n \in 0..(Pow2[BITS] - 1) : n \div 2 \in 0..(Pow2[BITS] - 1)
  BY Widths, Below
<1>4. \A n \in Int : Wide(n) \in W /\ Narrow(n) \in 0..(Pow2[BITS] - 1) /\ Exp(n) \in E
  BY CutOff
<1>5. \A s \in {0, 1}, e \in E, m \in W : Number(s, e, m) \in Wides
  BY DEF Number, Wides, Numbers
<1>6. sumdiff.r \in Wides /\ f1 \in Stored /\ f2 \in Stored /\ acc \in Stored
  BY DEF FpuTypes, SumdiffRegs, ProgramTypes
<1>7. sumdiff.r.man \in W /\ sumdiff.r.exp \in E
  BY <1>6 DEF Wides, Numbers
<1>8. \A n \in Wides, m \in W : [n EXCEPT !.man = m] \in Wides
  BY DEF Wides, Numbers
<1>9. \A n \in Narrows, m \in 0..(Pow2[BITS] - 1) : [n EXCEPT !.man = m] \in Narrows
  BY DEF Narrows, Numbers
<1>10. \A n \in Wides, e \in E : [n EXCEPT !.exp = e] \in Wides
  BY DEF Wides, Numbers
<1>11. 0 \in E /\ BITS \in Int /\ Bias \in Int
  BY FpuSizes DEF ExpMod
<1>11a. /\ fpu.a.man \in Nat /\ fpu.c.man \in Nat /\ fpu.c.exp \in Nat /\ sumdiff.r.man \in Int
        /\ 2 * fpu.a.man \in Int /\ fpu.c.man + fpu.a.man \in Int
        /\ fpu.c.exp + 1 \in Int /\ fpu.c.exp - 1 \in Int
        /\ 2 * fpu.c.exp - (Bias + BITS - 1) \in Int
  BY <1>2, <1>3, <1>7, <1>11
<1> HIDE DEF W, E
<1>12. FpuMul \in FpuRegs
  <2> DEFINE last == fpu.b.man \div 2 = 0
             c == IF fpu.b.man % 2 = 1 THEN Wide(fpu.c.man + fpu.a.man) ELSE fpu.c.man
  <2>1. c \in W
    BY <1>2, <1>4, <1>11a
  <2>2. Wide(2 * fpu.a.man) \in W /\ fpu.b.man \div 2 \in 0..(Pow2[BITS] - 1)
    BY <1>2, <1>3, <1>4, <1>11a
  <2>3. [fpu.c EXCEPT !.man = c] \in Wides /\ [fpu.a EXCEPT !.man = Wide(2 * @)] \in Wides
    BY <1>1, <1>8, <2>1, <2>2
  <2>4. [fpu.b EXCEPT !.man = @ \div 2] \in Narrows
    BY <1>1, <1>9, <2>2
  <2>5. FpuMul = [fpu EXCEPT !.c = [fpu.c EXCEPT !.man = c], !.a = [fpu.a EXCEPT !.man = Wide(2 * @)],
                             !.b = [fpu.b EXCEPT !.man = @ \div 2],
                             !.state = IF last THEN "SD_CD" ELSE @, !.sd_cs = last,
                             !.sd = IF last THEN "CD" ELSE @]
    BY <1>1 DEF FpuMul
  <2>6. last \in BOOLEAN
    OBVIOUS
  <2> HIDE DEF c, last
  <2> QED BY <1>1, <2>3, <2>4, <2>5, <2>6 DEF FpuRegs, FpuStates
<1>13. CASE fpu.state = "IDLE" /\ cs
  <2>1. /\ Zero \in Wides /\ f1 \in Wides /\ f2 \in Narrows /\ acc \in Narrows
    BY <1>6, StoredFits
  <2>2. Fpu(cs) = [fpu EXCEPT !.state = "IMPCT", !.a = f1, !.b = f2, !.c = Zero, !.d = acc]
    BY <1>13 DEF Fpu
  <2> QED BY <1>1, <1>6, <2>1, <2>2 DEF FpuRegs, FpuStates
<1>14. CASE fpu.state = "IMPCT"
  <2>1. WithImplicit(fpu.b) \in Narrows /\ WithImplicit(fpu.a) \in Wides /\ WithImplicit(fpu.d) \in Narrows
    BY <1>14, StoredFits DEF FpuTypes
  <2>2. Fpu(cs) = [fpu EXCEPT !.state = "SD_AB", !.sd_cs = TRUE, !.sd = "AB",
                     !.a = WithImplicit(@), !.b = WithImplicit(@), !.d = WithImplicit(@)]
    BY <1>14 DEF Fpu
  <2> QED BY <1>1, <2>1, <2>2 DEF FpuRegs, FpuStates
<1>15. CASE fpu.state = "SD_AB" /\ sd_ready
  <2>1. Narrow(sumdiff.r.man) \in 0..(Pow2[BITS] - 1)
    BY <1>4, <1>11a
  <2>2. /\ [fpu.a EXCEPT !.man = sumdiff.r.man] \in Wides
        /\ [fpu.b EXCEPT !.man = Narrow(sumdiff.r.man)] \in Narrows
        /\ [fpu.c EXCEPT !.exp = sumdiff.r.exp] \in Wides
    BY <1>1, <1>7, <1>8, <1>9, <1>10, <2>1
  <2>3. Fpu(cs) = [fpu EXCEPT !.state = "EXP", !.sd_cs = FALSE,
                     !.a = [fpu.a EXCEPT !.man = sumdiff.r.man],
                     !.b = [fpu.b EXCEPT !.man = Narrow(sumdiff.r.man)],
                     !.c = [fpu.c EXCEPT !.exp = sumdiff.r.exp]]
    BY <1>1, <1>15 DEF Fpu
  <2> QED BY <1>1, <2>2, <2>3 DEF FpuRegs, FpuStates
<1>16. CASE fpu.state = "EXP"
  <2>1. Exp(2 * fpu.c.exp - (Bias + BITS - 1)) \in E
    BY <1>4, <1>11a
  <2>2. [fpu.c EXCEPT !.exp = Exp(2 * @ - (Bias + BITS - 1))] \in Wides
    BY <1>1, <1>10, <2>1
  <2>3. Fpu(cs) = [fpu EXCEPT !.state = "MUL", !.c = [fpu.c EXCEPT !.exp = Exp(2 * @ - (Bias + BITS - 1))]]
    BY <1>1, <1>16 DEF Fpu
  <2> QED BY <1>1, <2>2, <2>3 DEF FpuRegs, FpuStates
<1>17. CASE fpu.state = "MUL"
  BY <1>12, <1>17 DEF Fpu
<1>18. CASE fpu.state = "SD_CD" /\ sd_ready
  BY <1>1, <1>6, <1>18 DEF Fpu, FpuRegs, FpuStates
<1>19. CASE fpu.state = "NORM"
  <2>1. Exp(fpu.c.exp + 1) \in E /\ Exp(fpu.c.exp - 1) \in E /\ fpu.c.man \div 2 \in W
    BY <1>2, <1>3, <1>4, <1>11a
  <2>2. fpu.c.man \in 1..(Implicit - 1) => 2 * fpu.c.man \in W
    BY Widths DEF W
  <2>3. /\ [fpu.c EXCEPT !.exp = 0] \in Wides
        /\ Number(fpu.c.sgn, Exp(fpu.c.exp + 1), fpu.c.man \div 2) \in Wides
        /\ fpu.c.man \in 1..(Implicit - 1) =>
             Number(fpu.c.sgn, Exp(fpu.c.exp - 1), 2 * fpu.c.man) \in Wides
    BY <1>1, <1>2, <1>5, <1>10, <1>11, <2>1, <2>2
  <2>4. Fpu(cs) = FpuNorm
    BY <1>19 DEF Fpu
  <2>5. \/ FpuNorm = [fpu EXCEPT !.state = "DONE", !.c = [fpu.c EXCEPT !.exp = 0]]
        \/ FpuNorm = [fpu EXCEPT !.c = Number(fpu.c.sgn, Exp(fpu.c.exp + 1), fpu.c.man \div 2)]
        \/ /\ fpu.c.man \in 1..(Implicit - 1)
           /\ FpuNorm = [fpu EXCEPT !.c = Number(fpu.c.sgn, Exp(fpu.c.exp - 1), 2 * fpu.c.man)]
        \/ FpuNorm = [fpu EXCEPT !.state = "DONE"]
    BY <1>1 DEF FpuNorm
  <2> QED BY <1>1, <2>3, <2>4, <2>5 DEF FpuRegs, FpuStates
<1>20. CASE fpu.state = "DONE" /\ cs
  BY <1>1, <1>20 DEF Fpu, FpuRegs, FpuStates
<1>21. CASE /\ fpu.state \notin {"IMPCT", "EXP", "MUL", "NORM"}
            /\ ~ (fpu.state = "IDLE" /\ cs) /\ ~ (fpu.state = "SD_AB" /\ sd_ready)
            /\ ~ (fpu.state = "SD_CD" /\ sd_ready) /\ ~ (fpu.state = "DONE" /\ cs)
  <2>1. Fpu(cs) = fpu
    BY <1>21 DEF Fpu
  <2> QED BY <1>1, <2>1 DEF FpuRegs
<1> QED BY <1>13, <1>14, <1>15, <1>16, <1>17, <1>18, <1>19, <1>20, <1>21

LEMMA ImplicitComesNext ==
  ASSUME FpuTypes, NEW cs \in BOOLEAN, Fpu(cs).state = "IMPCT"
  PROVE  Fpu(cs).a \in Stored /\ Fpu(cs).b \in Stored /\ Fpu(cs).d \in Stored
<1>1. fpu \in FpuRegs /\ f1 \in Stored /\ f2 \in Stored /\ acc \in Stored
  BY DEF FpuTypes, ProgramTypes
<1>2. CASE fpu.state = "IDLE" /\ cs
  BY <1>1, <1>2 DEF Fpu, FpuRegs
<1>3. CASE fpu.state # "IDLE"
  BY <1>1, <1>3 DEF Fpu, FpuRegs, FpuMul, FpuNorm
<1>4. CASE fpu.state = "IDLE" /\ ~ cs
  BY <1>1, <1>4 DEF Fpu, FpuRegs
<1> QED BY <1>2, <1>3, <1>4

LEMMA EdgeTypes ==
  ASSUME FpuTypes, NEW cs \in BOOLEAN, Edge(cs), ProgramTypes'
  PROVE  FpuTypes'
<1>1. fpu' = Fpu(cs) /\ sumdiff' = Sumdiff
  BY DEF Edge
<1>2. Fpu(cs) \in FpuRegs /\ Sumdiff \in SumdiffRegs
  BY FpuTypesStep, SumdiffTypes DEF FpuTypes
<1>3. fpu'.state = "IMPCT" => fpu'.a \in Stored /\ fpu'.b \in Stored /\ fpu'.d \in Stored
  BY <1>1, ImplicitComesNext
<1> QED BY <1>1, <1>2, <1>3 DEF FpuTypes

LEMMA FpuTypesKept == FpuTypes /\ UNCHANGED fpuVars => FpuTypes'
BY DEF FpuTypes, ProgramTypes, fpuVars, programVars

LEMMA FpuTypesStart == FpuInit => FpuTypes
<1> SUFFICES ASSUME FpuInit PROVE FpuTypes
  OBVIOUS
<1>1. Zero \in Stored /\ Zero \in Narrows /\ Zero \in Wides
  BY StoredFits
<1>2. 0 \in 0..(Pow2[2 * BITS] - 1) /\ 0 \in 0..(Pow2[BITS] - 1) /\ 0 \in 0..Tests
  BY Widths, FpuAssumption
<1>3. fpu \in FpuRegs /\ sumdiff \in SumdiffRegs /\ fpu.state = "IDLE"
  BY <1>1, <1>2 DEF FpuInit, FpuRegs, SumdiffRegs, FpuStates, SumdiffStates
<1> QED BY <1>1, <1>2, <1>3 DEF FpuInit, FpuTypes, ProgramTypes

\* Every step stores numbers of the widths of its registers, a reset of the core in a dsqa too.
LEMMA FpuTypesNext == FpuTypes /\ FpuNext => FpuTypes'
<1> SUFFICES ASSUME FpuTypes, FpuNext PROVE FpuTypes'
  OBVIOUS
<1>1. /\ acc \in Stored /\ f1 \in Stored /\ f2 \in Stored /\ f3 \in Stored
      /\ fpu_pc \in {"main", "dsqa", "compare"} /\ tests \in 0..Tests
      /\ fpu_pc # "main" => tests < Tests
  BY DEF FpuTypes, ProgramTypes
<1>2. Tests \in Nat /\ Inputs \subseteq Stored
  BY FpuAssumption DEF Stored
<1>3. CASE Draw
  <2>1. ProgramTypes'
    BY <1>1, <1>2, <1>3 DEF Draw, ProgramTypes
  <2> QED BY <1>3, <2>1, EdgeTypes DEF Draw
<1>4. CASE dsqa
  <2>1. CPR_RDW \in Stored
    <3>1. fpu.c \in Wides
      BY DEF FpuTypes, FpuRegs
    <3>2. fpu.c.man \in Int
      BY <3>1, Widths DEF Wides, Numbers
    <3>3. fpu.c.man % Implicit \in 0..(Implicit - 1)
      BY <3>2, CutOff
    <3> QED BY <3>1, <3>3 DEF CPR_RDW, Wides, Stored, Numbers
  <2>2. ProgramTypes'
    BY <1>1, <1>4, <2>1 DEF dsqa, ProgramTypes
  <2> QED BY <1>4, <2>2, EdgeTypes DEF dsqa
<1>5. CASE Compare
  <2>1. ProgramTypes'
    BY <1>1, <1>2, <1>5 DEF Compare, ProgramTypes
  <2> QED BY <1>5, <2>1, EdgeTypes DEF Compare
<1>6. CASE FpuIdle
  <2>1. ProgramTypes'
    BY <1>1, <1>6 DEF FpuIdle, programVars, ProgramTypes
  <2> QED BY <1>6, <2>1, EdgeTypes DEF FpuIdle
<1>7. CASE CoreReset
  <2>1. ProgramTypes'
    BY <1>2, <1>7, StoredFits DEF CoreReset, ProgramTypes
  <2> QED BY <1>7, <2>1, EdgeTypes DEF CoreReset
<1> QED BY <1>3, <1>4, <1>5, <1>6, <1>7 DEF FpuNext

-----------------------------------------------------------------------------
(* What the adder computes, and how near it comes.                         *)

LEMMA AlignedIsNear ==
  ASSUME NEW n, n.man \in Nat, n.exp \in Nat, NEW top \in Nat, n.exp <= top
  PROVE  /\ ManAt(n, top) \in 0..n.man
         /\ 2 * (ManAt(n, top) * Pow2[top]) - 2 * (n.man * Pow2[n.exp]) \in (-Pow2[top])..Pow2[top]
         /\ top = n.exp => ManAt(n, top) = n.man
<1> DEFINE k == top - n.exp
           a == ManAt(n, top)
           q == Pow2[n.exp]
           h == Pow2[k]
           m == n.man
<1>1. k \in Nat /\ top = n.exp + k /\ (top = n.exp => k = 0)
  OBVIOUS
<1>2. a = Rounded(m, k)
  BY DEF ManAt
<1>3. a \in 0..m /\ 2 * (a * h) - 2 * m \in (-h)..h /\ (k = 0 => a = m)
  BY <1>1, <1>2, RoundedIsNear
<1>4. Pow2[top] = q * h /\ q \in Nat /\ h \in Nat
  <2>1. Pow2[n.exp + k] = q * h
    <3> HIDE DEF k
    <3> QED BY <1>1, Pow2Adds
  <2>2. Pow2[top] = Pow2[n.exp + k]
    BY <1>1
  <2> QED BY <1>1, <2>1, <2>2, Pow2Unfolds
<1>5. 2 * (a * (q * h)) - 2 * (m * q) \in (-(q * h))..(q * h)
  <2> DEFINE z == a * h
             d == 2 * z - 2 * m
  <2>1. z \in Nat /\ m \in Nat /\ d \in (-h)..h
    BY <1>3, <1>4
  <2>2. a * (q * h) = q * z
    BY <1>3, <1>4
  <2>3. 2 * (q * z) - 2 * (m * q) = q * d
    <3> HIDE DEF z
    <3> QED BY <1>4, <2>1
  <2>4. q * d \in (-(q * h))..(q * h)
    <3>1. \A u \in Nat, v \in Nat : \A w \in (-v)..v : u * w \in (-(u * v))..(u * v)
      <4> SUFFICES ASSUME NEW u \in Nat, NEW v \in Nat, NEW w \in (-v)..v
                   PROVE  u * w \in (-(u * v))..(u * v)
        OBVIOUS
      <4>1. u * (v - w) >= 0 /\ u * (v + w) >= 0
        OBVIOUS
      <4>2. u * (v - w) = u * v - u * w /\ u * (v + w) = u * v + u * w /\ u * v \in Int /\ u * w \in Int
        OBVIOUS
      <4> QED BY <4>1, <4>2
    <3> HIDE DEF d
    <3> QED BY <1>4, <2>1, <3>1
  <2> QED BY <2>2, <2>3, <2>4
<1> QED BY <1>1, <1>3, <1>4, <1>5

\* Operands whose sum the registers hold.
Fits(x, y) ==
  /\ x \in Wides /\ y \in Narrows
  /\ x.man + y.man < Pow2[2 * BITS] /\ TopOf(x, y) + 1 < ExpMod

LEMMA OperandBounds ==
  ASSUME NEW x, NEW y, Fits(x, y)
  PROVE  /\ x.man \in Nat /\ x.exp \in Nat /\ y.man \in Nat /\ y.exp \in Nat /\ TopOf(x, y) \in Nat
         /\ x.sgn \in {0, 1} /\ y.sgn \in {0, 1}
         /\ x.exp <= TopOf(x, y) /\ y.exp <= TopOf(x, y)
         /\ (TopOf(x, y) = x.exp \/ TopOf(x, y) = y.exp)
         /\ y.man < Pow2[BITS]
<1>1. Pow2[2 * BITS] \in Nat /\ Pow2[BITS] \in Nat /\ Pow2[EXP_BITS] \in Nat
  BY Widths
<1>2. /\ x.man \in 0..(Pow2[2 * BITS] - 1) /\ x.exp \in 0..(Pow2[EXP_BITS] - 1) /\ x.sgn \in {0, 1}
      /\ y.man \in 0..(Pow2[BITS] - 1) /\ y.exp \in 0..(Pow2[EXP_BITS] - 1) /\ y.sgn \in {0, 1}
  BY DEF Fits, Wides, Narrows, Numbers
<1> QED BY <1>1, <1>2 DEF TopOf

LEMMA AlignedOperands ==
  ASSUME NEW x, NEW y, Fits(x, y)
  PROVE  /\ ManAt(x, TopOf(x, y)) \in 0..x.man /\ ManAt(y, TopOf(x, y)) \in 0..y.man
         /\ x.exp = TopOf(x, y) => ManAt(x, TopOf(x, y)) = x.man
         /\ y.exp = TopOf(x, y) => ManAt(y, TopOf(x, y)) = y.man
BY OperandBounds, AlignedIsNear

\* An edge of the adder leads on to the sum.
LEMMA AdderStep ==
  ASSUME FpuTypes, NEW x, NEW y, SD_x = x, SD_y = y, Fits(x, y), AdderAt(sumdiff, x, y)
  PROVE  AdderAt(Sumdiff, x, y)
<1> DEFINE t == TopOf(x, y)
           xs == ManAt(x, t)
           ys == ManAt(y, t)
<1>1. /\ sumdiff.state \in SumdiffStates /\ sumdiff.x \in Nat /\ sumdiff.y \in Nat
      /\ sumdiff.gx \in {0, 1} /\ sumdiff.gy \in {0, 1}
      /\ sumdiff = [state |-> sumdiff.state, x |-> sumdiff.x, gx |-> sumdiff.gx,
                    y |-> sumdiff.y, gy |-> sumdiff.gy, r |-> sumdiff.r]
      /\ sumdiff.r = Number(sumdiff.r.sgn, sumdiff.r.exp, sumdiff.r.man)
  BY Widths DEF FpuTypes, SumdiffRegs, Wides, Numbers, Number
<1>2. /\ x.man \in Nat /\ x.exp \in Nat /\ y.man \in Nat /\ y.exp \in Nat /\ t \in Nat
      /\ x.exp <= t /\ y.exp <= t /\ y.man < Pow2[BITS]
  BY OperandBounds
<1>3. /\ xs \in 0..x.man /\ ys \in 0..y.man
      /\ x.exp = t => xs = x.man
      /\ y.exp = t => ys = y.man
  BY AlignedOperands
<1>4. Pow2[2 * BITS] \in Nat /\ Pow2[BITS] \in Nat /\ ExpMod \in Nat /\ Pow2[2 * BITS] >= Pow2[BITS]
  BY Widths, FpuSizes
<1>5. x.man + y.man < Pow2[2 * BITS] /\ t + 1 < ExpMod
  BY DEF Fits
<1>6. Wide(xs) = xs /\ Wide(xs + ys) = xs + ys /\ Narrow(ys) = ys /\ Exp(t + 1) = t + 1
  <2>1. /\ xs \in 0..(Pow2[2 * BITS] - 1) /\ xs + ys \in 0..(Pow2[2 * BITS] - 1)
        /\ ys \in 0..(Pow2[BITS] - 1) /\ t + 1 \in 0..(ExpMod - 1)
    <3> HIDE DEF xs, ys, t
    <3> QED BY <1>2, <1>3, <1>4, <1>5
  <2> HIDE DEF xs, ys, t
  <2> QED BY <2>1, CutOff DEF ExpMod
<1>7. CASE sumdiff.state = "IDLE"
  BY <1>1, <1>7 DEF Sumdiff, AdderAt, sd_ready
<1>8. CASE sumdiff.state = "SHIFT"
  <2> DEFINE up == y.exp - x.exp
  <2>1. sumdiff.x = x.man /\ sumdiff.y = y.man /\ sumdiff.gx = 0 /\ sumdiff.gy = 0
    BY <1>8 DEF AdderAt
  <2>2. Sumdiff = SumdiffShift
    BY <1>8 DEF Sumdiff, sd_ready
  <2>3. CASE up > 0
    <3>1. t = y.exp /\ up = t - x.exp /\ ys = y.man
      BY <1>2, <1>3, <2>3 DEF TopOf
    <3> DEFINE s == Shifted(x.man, 0, up)
    <3>2. s = (2 * x.man) \div Pow2[up]
      BY <1>2 DEF Shifted
    <3>3. xs = (s \div 2) + (s % 2)
      BY <3>1, <3>2 DEF ManAt, Rounded
    <3>4. SumdiffShift = [sumdiff EXCEPT !.state = "ROUND", !.x = s \div 2, !.gx = s % 2, !.r.exp = t]
      BY <2>1, <2>3, <3>1 DEF SumdiffShift
    <3>5. /\ Sumdiff.state = "ROUND" /\ Sumdiff.x = s \div 2 /\ Sumdiff.gx = s % 2
          /\ Sumdiff.y = y.man /\ Sumdiff.gy = 0 /\ Sumdiff.r.exp = t
      <4> HIDE DEF s, t
      <4> QED BY <1>1, <2>1, <2>2, <3>4 DEF Number
    <3> HIDE DEF s, xs, ys, t
    <3> QED BY <1>2, <3>1, <3>3, <3>5 DEF AdderAt, xs, ys, t
  <2>4. CASE ~ (up > 0)
    <3>1. t = x.exp /\ -up = t - y.exp /\ xs = x.man
      BY <1>2, <1>3, <2>4 DEF TopOf
    <3> DEFINE s == Shifted(y.man, 0, -up)
    <3>2. s = (2 * y.man) \div Pow2[-up]
      BY <1>2 DEF Shifted
    <3>3. ys = (s \div 2) + (s % 2)
      BY <3>1, <3>2 DEF ManAt, Rounded
    <3>4. SumdiffShift = [sumdiff EXCEPT !.state = "ROUND", !.y = s \div 2, !.gy = s % 2, !.r.exp = t]
      BY <2>1, <2>4, <3>1 DEF SumdiffShift
    <3>5. /\ Sumdiff.state = "ROUND" /\ Sumdiff.y = s \div 2 /\ Sumdiff.gy = s % 2
          /\ Sumdiff.x = x.man /\ Sumdiff.gx = 0 /\ Sumdiff.r.exp = t
      <4> HIDE DEF s, t
      <4> QED BY <1>1, <2>1, <2>2, <3>4 DEF Number
    <3> HIDE DEF s, xs, ys, t
    <3> QED BY <1>2, <3>1, <3>3, <3>5 DEF AdderAt, xs, ys, t
  <2> QED BY <2>3, <2>4
<1>9. CASE sumdiff.state = "ROUND"
  <2>1. sumdiff.x + sumdiff.gx = xs /\ sumdiff.y + sumdiff.gy = ys /\ sumdiff.r.exp = t
    BY <1>9 DEF AdderAt
  <2>2. Sumdiff = SumdiffRound
    BY <1>9 DEF Sumdiff, sd_ready
  <2>3. SumdiffRound = [sumdiff EXCEPT !.state = "SUMDIFF", !.x = xs, !.y = ys]
    <3> HIDE DEF xs, ys
    <3> QED BY <1>1, <1>6, <2>1 DEF SumdiffRound
  <2> HIDE DEF xs, ys, t
  <2>4. Sumdiff.state = "SUMDIFF" /\ Sumdiff.x = xs /\ Sumdiff.y = ys /\ Sumdiff.r.exp = t
    BY <1>1, <2>1, <2>2, <2>3
  <2> QED BY <2>4 DEF AdderAt, xs, ys, t
<1>10. CASE sumdiff.state = "SUMDIFF"
  <2>1. sumdiff.x = xs /\ sumdiff.y = ys /\ sumdiff.r.exp = t
    BY <1>10 DEF AdderAt
  <2>2. Sumdiff = SumdiffAdd
    BY <1>10 DEF Sumdiff, sd_ready
  <2>3. Added(x, y) = Number(IF x.sgn = y.sgn \/ ~(xs < ys) THEN x.sgn ELSE y.sgn, t,
            IF x.sgn = y.sgn THEN xs + ys ELSE IF xs < ys THEN ys - xs ELSE xs - ys)
    BY DEF Added
  <2>4. Sumdiff.state = "NORM" /\ Sumdiff.r = Added(x, y)
    <3> HIDE DEF xs, ys, t
    <3> QED BY <1>1, <1>6, <2>1, <2>2, <2>3 DEF SumdiffAdd
  <2> QED BY <2>4 DEF AdderAt
<1>11. CASE sumdiff.state = "NORM"
  <2>1. sumdiff.r = Added(x, y)
    BY <1>11 DEF AdderAt
  <2>2. Sumdiff = SumdiffNorm
    BY <1>11 DEF Sumdiff, sd_ready
  <2>3. Added(x, y).exp = t
    BY DEF Added, Number
  <2>4. Sumdiff.state = "DONE" /\ Sumdiff.r = Carried(Added(x, y))
    <3> HIDE DEF t
    <3> QED BY <1>1, <1>6, <2>1, <2>2, <2>3 DEF SumdiffNorm, Carried, ManMod
  <2> QED BY <2>4 DEF AdderAt
<1>12. CASE sumdiff.state = "DONE"
  <2>1. Sumdiff = [sumdiff EXCEPT !.state = "IDLE"] \/ Sumdiff = sumdiff
    BY <1>12 DEF Sumdiff, sd_ready
  <2> QED BY <1>1, <1>12, <2>1 DEF AdderAt
<1> QED BY <1>1, <1>7, <1>8, <1>9, <1>10, <1>11, <1>12 DEF SumdiffStates

\* The magnitude of a sum or difference of two numbers, in their common unit.
Combined(x, y) ==
  LET u == x.man * Pow2[x.exp]
      v == y.man * Pow2[y.exp]
  IN IF x.sgn = y.sgn THEN u + v ELSE Magnitude(u - v)

\* Only one operand is shifted, and it is rounded: the sum is off by half its place at most.
LEMMA AddedIsNear ==
  ASSUME NEW x, NEW y, Fits(x, y)
  PROVE  /\ Added(x, y).exp = TopOf(x, y) /\ Added(x, y).man \in 0..(x.man + y.man)
         /\ Combined(x, y) \in Nat
         /\ 2 * (Added(x, y).man * Pow2[TopOf(x, y)]) - 2 * Combined(x, y)
              \in (-Pow2[TopOf(x, y)])..Pow2[TopOf(x, y)]
<1> DEFINE t == TopOf(x, y)
           xs == ManAt(x, t)
           ys == ManAt(y, t)
           p == Pow2[t]
           u == x.man * Pow2[x.exp]
           v == y.man * Pow2[y.exp]
           a == Added(x, y)
           xp == xs * p
           yp == ys * p
           m == IF x.sgn = y.sgn THEN xs + ys ELSE IF xs < ys THEN ys - xs ELSE xs - ys
<1>1. /\ x.man \in Nat /\ x.exp \in Nat /\ y.man \in Nat /\ y.exp \in Nat /\ t \in Nat
      /\ x.exp <= t /\ y.exp <= t /\ (t = x.exp \/ t = y.exp)
  BY OperandBounds
<1>2. p \in Nat /\ p >= 1 /\ u \in Nat /\ v \in Nat
  BY <1>1, Pow2Unfolds, Pow2Positive
<1>3. /\ xs \in 0..x.man /\ 2 * xp - 2 * u \in (-p)..p
      /\ ys \in 0..y.man /\ 2 * yp - 2 * v \in (-p)..p
      /\ (t = x.exp => xs = x.man) /\ (t = y.exp => ys = y.man)
  <2> HIDE DEF t
  <2> QED BY <1>1, AlignedIsNear
<1>4. xp = u \/ yp = v
  BY <1>1, <1>3
<1>5. a.exp = t /\ a.man = m
  BY DEF Added, Number
<1>6. Combined(x, y) = IF x.sgn = y.sgn THEN u + v ELSE Magnitude(u - v)
  BY DEF Combined
<1>7. xp \in Nat /\ yp \in Nat /\ xs \in Nat /\ ys \in Nat
  BY <1>2, <1>3
<1>8. m \in 0..(x.man + y.man)
  <2> HIDE DEF xs, ys, t
  <2> QED BY <1>1, <1>3
<1>9. m * p = IF x.sgn = y.sgn THEN xp + yp ELSE Magnitude(xp - yp)
  <2>1. /\ (xs + ys) * p = xp + yp /\ (ys - xs) * p = yp - xp /\ (xs - ys) * p = xp - yp
    <3> HIDE DEF xs, ys, p
    <3> QED BY <1>2, <1>7
  <2>2. xs < ys => xp < yp
    <3>1. \A i, j, k \in Nat : i < j /\ k >= 1 => i * k < j * k
      <4> SUFFICES ASSUME NEW i \in Nat, NEW j \in Nat, NEW k \in Nat, i < j, k >= 1
                   PROVE  i * k < j * k
        OBVIOUS
      <4>1. (j - i) * k >= 1 /\ (j - i) * k = j * k - i * k
        OBVIOUS
      <4> QED BY <4>1
    <3> HIDE DEF xs, ys, p
    <3> QED BY <1>2, <1>7, <3>1
  <2>3. ys <= xs => yp <= xp
    <3>1. \A i, j, k \in Nat : i <= j => i * k <= j * k
      <4> SUFFICES ASSUME NEW i \in Nat, NEW j \in Nat, NEW k \in Nat, i <= j
                   PROVE  i * k <= j * k
        OBVIOUS
      <4>1. (j - i) * k >= 0 /\ (j - i) * k = j * k - i * k
        OBVIOUS
      <4> QED BY <4>1
    <3> HIDE DEF xs, ys, p
    <3> QED BY <1>2, <1>7, <3>1
  <2> HIDE DEF xp, yp
  <2>4. CASE x.sgn = y.sgn
    BY <2>1, <2>4
  <2>5. CASE x.sgn # y.sgn /\ xs < ys
    <3>1. m = ys - xs
      BY <2>5
    <3>2. Magnitude(xp - yp) = yp - xp
      BY <1>7, <2>2, <2>5 DEF Magnitude
    <3> HIDE DEF m
    <3> QED BY <2>1, <2>5, <3>1, <3>2
  <2>6. CASE x.sgn # y.sgn /\ ~ (xs < ys)
    <3>1. m = xs - ys
      BY <2>6
    <3>2. Magnitude(xp - yp) = xp - yp
      <4> HIDE DEF xs, ys
      <4> QED BY <1>7, <2>3, <2>6 DEF Magnitude
    <3> HIDE DEF m
    <3> QED BY <2>1, <2>6, <3>1, <3>2
  <2> QED BY <2>4, <2>5, <2>6
<1>10. /\ Combined(x, y) \in Nat
       /\ 2 * (m * p) - 2 * Combined(x, y) \in (-p)..p
  <2> DEFINE z == m * p
  <2>1. z = IF x.sgn = y.sgn THEN xp + yp ELSE Magnitude(xp - yp)
    BY <1>9
  <2>2. 2 * z - 2 * Combined(x, y) \in (-p)..p /\ Combined(x, y) \in Nat
    <3> HIDE DEF z, xp, yp, u, v, p
    <3> QED BY <1>2, <1>3, <1>4, <1>6, <1>7, <2>1 DEF Magnitude
  <2> QED BY <2>2
<1> QED BY <1>5, <1>8, <1>10

\* A carry costs one place of the sum more.
LEMMA CarriedIsNear ==
  ASSUME NEW r, r.man \in Nat, r.exp \in Nat, r = Number(r.sgn, r.exp, r.man)
  PROVE  LET c == Carried(r)
             p == Pow2[r.exp]
         IN \/ c = r /\ (r.man < 2 * ManMod => r.man < ManMod)
            \/ /\ c = Number(r.sgn, r.exp + 1, r.man \div 2)
               /\ r.man >= ManMod /\ c.man >= Implicit
               /\ r.man < 2 * ManMod => c.man < ManMod
               /\ c.man * Pow2[c.exp] \in (r.man * p - p)..(r.man * p)
<1> DEFINE c == Carried(r)
           p == Pow2[r.exp]
           h == r.man \div ManMod
           m == r.man
<1>1. /\ ManMod \in Nat /\ ManMod >= 4 /\ ManMod = 2 * Implicit /\ Implicit \in Nat
      /\ p \in Nat /\ p >= 1 /\ Pow2[r.exp + 1] = 2 * p
  BY FpuSizes, Pow2Unfolds, Pow2Positive
<1>2. h \in Nat /\ h * ManMod <= m /\ m < h * ManMod + ManMod
  <2>1. \A a \in Nat, b \in Nat \ {0} :
          a \div b \in Nat /\ (a \div b) * b <= a /\ a < (a \div b) * b + b
    OBVIOUS
  <2>2. m \in Nat /\ ManMod \in Nat \ {0}
    BY <1>1
  <2> QED BY <2>1, <2>2
<1>3. h = 0 => m < ManMod
  BY <1>1, <1>2
<1>4. h >= 1 => m >= ManMod
  <2>1. h >= 1 => h * ManMod >= ManMod
    <3> HIDE DEF h
    <3> QED BY <1>1, <1>2
  <2> DEFINE z == h * ManMod
  <2>2. z \in Nat
    BY <1>1, <1>2
  <2>3. h >= 1 => z >= ManMod /\ z <= m
    BY <1>2, <2>1
  <2> HIDE DEF z, h
  <2> QED BY <1>1, <2>2, <2>3
<1>5. h >= 2 => m >= 2 * ManMod
  <2>1. h >= 2 => h * ManMod >= 2 * ManMod
    <3> HIDE DEF h
    <3> QED BY <1>1, <1>2
  <2> DEFINE z == h * ManMod
  <2>2. z \in Nat
    BY <1>1, <1>2
  <2>3. h >= 2 => z >= 2 * ManMod /\ z <= m
    BY <1>2, <2>1
  <2> HIDE DEF z, h
  <2> QED BY <1>1, <2>2, <2>3
<1>6. CASE h % 2 = 1
  <2>1. c = Number(r.sgn, r.exp + 1, m \div 2)
    BY <1>6 DEF Carried
  <2>2. h >= 1
    <3> HIDE DEF h
    <3> QED BY <1>2, <1>6
  <2>3. m >= ManMod
    BY <1>4, <2>2
  <2> DEFINE s == m \div 2
  <2>4. s \in Nat /\ (m = 2 * s \/ m = 2 * s + 1)
    <3>1. \A n \in Nat : n \div 2 \in Nat /\ (n = 2 * (n \div 2) \/ n = 2 * (n \div 2) + 1)
      OBVIOUS
    <3> QED BY <3>1
  <2>5. c.man = s /\ c.exp = r.exp + 1
    BY <2>1 DEF Number
  <2> HIDE DEF s
  <2>6. s >= Implicit /\ (m < 2 * ManMod => s < ManMod)
    BY <1>1, <2>3, <2>4
  <2>7. s * (2 * p) \in (m * p - p)..(m * p)
    <3>1. s * (2 * p) = (2 * s) * p /\ (2 * s + 1) * p = (2 * s) * p + p
      BY <1>1, <2>4
    <3>2. m * p = s * (2 * p) \/ m * p = s * (2 * p) + p
      BY <2>4, <3>1
    <3>3. s * (2 * p) \in Int
      BY <1>1, <2>4
    <3> DEFINE y == s * (2 * p)
               z == m * p
    <3>4. (z = y \/ z = y + p) /\ y \in Int
      BY <3>2, <3>3
    <3>5. y \in (z - p)..z
      <4> HIDE DEF y, z
      <4> QED BY <1>1, <3>4
    <3> QED BY <3>5
  <2> QED BY <1>1, <2>1, <2>3, <2>5, <2>6, <2>7
<1>7. CASE h % 2 # 1
  <2>1. c = r
    BY <1>7 DEF Carried
  <2>2. h = 0 \/ h >= 2
    <3> HIDE DEF h
    <3> QED BY <1>2, <1>7
  <2>3. m < 2 * ManMod => m < ManMod
    BY <1>1, <1>2, <1>3, <1>5, <2>2
  <2> QED BY <2>1, <2>3
<1> QED BY <1>6, <1>7

-----------------------------------------------------------------------------
(* The difference of the inputs and its square.                            *)

LEMMA InputBounds ==
  ASSUME NEW n \in Inputs
  PROVE  /\ n \in Stored /\ n.exp \in Nat /\ n.man \in Nat /\ n.sgn \in {0, 1}
         /\ 2 * n.exp >= Bias + 2 * BITS - 1
         /\ 2 * n.exp + 3 - Bias + Tests < ExpMod /\ n.exp + 1 < ExpMod
<1>1. n \in Stored
  BY FpuAssumption DEF Stored
<1>2. Implicit \in Nat /\ Pow2[EXP_BITS] \in Nat
  BY Widths
<1>3. n.exp \in Nat /\ n.man \in Nat /\ n.sgn \in {0, 1}
  BY <1>1, <1>2 DEF Stored, Numbers
<1> QED BY <1>1, <1>3, FpuAssumption DEF ExpMod

LEMMA SignedValue ==
  ASSUME NEW n \in Stored
  PROVE  /\ WithImplicit(n).man \in Nat /\ WithImplicit(n).exp = n.exp /\ WithImplicit(n).sgn = n.sgn
         /\ WithImplicit(n).man < ManMod
         /\ WithImplicit(n).man * Pow2[n.exp] \in Nat
         /\ Value(n) = IF n.sgn = 1 THEN -(WithImplicit(n).man * Pow2[n.exp])
                       ELSE WithImplicit(n).man * Pow2[n.exp]
<1> DEFINE m == WithImplicit(n).man
           p == Pow2[n.exp]
<1>1. Implicit \in Nat /\ Pow2[BITS] \in Nat /\ Pow2[EXP_BITS] \in Nat
  BY Widths
<1>2. WithImplicit(n) \in Narrows
  BY StoredFits
<1>3. m \in Nat /\ m < ManMod
  BY <1>1, <1>2 DEF Narrows, Numbers, ManMod
<1>4. n.exp \in Nat /\ n.sgn \in {0, 1}
  BY <1>1 DEF Stored, Numbers
<1>5. WithImplicit(n).exp = n.exp /\ WithImplicit(n).sgn = n.sgn
  BY DEF WithImplicit, Stored, Numbers
<1>6. p \in Nat
  BY <1>4, Pow2Unfolds
<1>7. m * p \in Nat
  BY <1>3, <1>6
<1>8. Value(n) = (IF n.sgn = 1 THEN -1 ELSE 1) * m * p
  BY DEF Value
<1>9. \A i, j \in Nat : -1 * i * j = -(i * j) /\ 1 * i * j = i * j
  OBVIOUS
<1> HIDE DEF m, p
<1>10. Value(n) = IF n.sgn = 1 THEN -(m * p) ELSE m * p
  BY <1>3, <1>6, <1>8, <1>9
<1> QED BY <1>3, <1>5, <1>7, <1>10 DEF m, p

LEMMA InputsFit ==
  ASSUME f1 \in Inputs, f2 \in Inputs
  PROVE  LET x == WithImplicit(f1)
             y == Negated(WithImplicit(f2))
         IN /\ Fits(x, y) /\ TopOf(x, y) = Greatest
            /\ x.man + y.man < 2 * ManMod
            /\ Combined(x, y) = TrueDifference
<1> DEFINE x == WithImplicit(f1)
           w == WithImplicit(f2)
           y == Negated(w)
<1>1. f1 \in Stored /\ f2 \in Stored /\ f1.exp \in Nat /\ f2.exp \in Nat /\ f1.exp + 1 < ExpMod /\ f2.exp + 1 < ExpMod
      /\ f1.sgn \in {0, 1} /\ f2.sgn \in {0, 1}
  BY InputBounds
<1>2. x \in Narrows /\ w \in Narrows /\ x \in Wides
  BY <1>1, StoredFits
<1>3. y \in Narrows /\ y.man = w.man /\ y.exp = w.exp /\ y.sgn = 1 - w.sgn
  BY <1>2 DEF Negated, Narrows, Numbers
<1>4. /\ x.man \in Nat /\ x.man < ManMod /\ x.exp = f1.exp /\ x.sgn = f1.sgn
      /\ w.man \in Nat /\ w.man < ManMod /\ w.exp = f2.exp /\ w.sgn = f2.sgn
  BY <1>1, SignedValue
<1>5. /\ ManMod \in Nat /\ ManMod >= 4 /\ Pow2[2 * BITS] = ManMod * ManMod /\ ManMod * ManMod >= 4 * ManMod
  BY FpuSizes
<1>6. TopOf(x, y) = Greatest
  BY <1>1, <1>3, <1>4 DEF TopOf, Greatest
<1>7. TopOf(x, y) + 1 < ExpMod
  BY <1>1, <1>6 DEF Greatest
<1>8. x.man + y.man < 2 * ManMod
  <2> HIDE DEF x, y, w
  <2> QED BY <1>3, <1>4, <1>5
<1>9. x.man + y.man < Pow2[2 * BITS]
  <2> DEFINE s == ManMod * ManMod
  <2>1. s \in Nat /\ s >= 4 * ManMod /\ Pow2[2 * BITS] = s
    BY <1>5
  <2> HIDE DEF s, x, y, w
  <2> QED BY <1>3, <1>4, <1>5, <1>8, <2>1
<1>10. Fits(x, y)
  BY <1>2, <1>3, <1>7, <1>9 DEF Fits
<1>11. Combined(x, y) = TrueDifference
  <2> DEFINE u == x.man * Pow2[f1.exp]
             v == w.man * Pow2[f2.exp]
  <2>1. /\ u \in Nat /\ v \in Nat
        /\ Value(f1) = IF f1.sgn = 1 THEN -u ELSE u
        /\ Value(f2) = IF f2.sgn = 1 THEN -v ELSE v
    BY <1>1, SignedValue
  <2>2. Combined(x, y) = IF x.sgn = y.sgn THEN u + v ELSE Magnitude(u - v)
    BY <1>3, <1>4 DEF Combined
  <2>3. y.sgn = 1 - f2.sgn /\ x.sgn = f1.sgn
    BY <1>3, <1>4
  <2>4. TrueDifference = Magnitude(Value(f1) - Value(f2))
    BY DEF TrueDifference
  <2> HIDE DEF u, v, x, y, w
  <2>5. CASE f1.sgn = 0 /\ f2.sgn = 0
    BY <2>1, <2>2, <2>3, <2>4, <2>5 DEF Magnitude
  <2>6. CASE f1.sgn = 0 /\ f2.sgn = 1
    BY <2>1, <2>2, <2>3, <2>4, <2>6 DEF Magnitude
  <2>7. CASE f1.sgn = 1 /\ f2.sgn = 0
    BY <2>1, <2>2, <2>3, <2>4, <2>7 DEF Magnitude
  <2>8. CASE f1.sgn = 1 /\ f2.sgn = 1
    BY <2>1, <2>2, <2>3, <2>4, <2>8 DEF Magnitude
  <2> QED BY <1>1, <2>5, <2>6, <2>7, <2>8
<1> QED BY <1>6, <1>8, <1>10, <1>11

LEMMA DifferenceIsNear ==
  ASSUME f1 \in Inputs, f2 \in Inputs
  PROVE  /\ Difference.man \in Nat /\ Difference.man < ManMod /\ TrueDifference \in Nat
         /\ Greatest \in Nat
         /\ LET a == Difference.man * Pow2[Difference.exp]
            IN \/ /\ Difference.exp = Greatest
                  /\ 2 * a - 2 * TrueDifference \in (-LastPlace)..LastPlace
               \/ /\ Difference.exp = Greatest + 1 /\ Difference.man >= Implicit
                  /\ 2 * a - 2 * TrueDifference \in (-(3 * LastPlace))..LastPlace
<1> DEFINE x == WithImplicit(f1)
           y == Negated(WithImplicit(f2))
           r == Added(x, y)
           c == Carried(r)
           t == Greatest
           p == LastPlace
           z == r.man * p
<1>1. Fits(x, y) /\ TopOf(x, y) = t /\ x.man + y.man < 2 * ManMod /\ Combined(x, y) = TrueDifference
  BY InputsFit
<1>2. t \in Nat /\ x.man \in Nat /\ y.man \in Nat
  <2> HIDE DEF x, y, t
  <2> QED BY <1>1, OperandBounds
<1>3. p = Pow2[t] /\ p \in Nat
  BY <1>2, Pow2Unfolds DEF LastPlace
<1>4. /\ r.exp = t /\ r.man \in 0..(x.man + y.man) /\ TrueDifference \in Nat
      /\ 2 * z - 2 * TrueDifference \in (-p)..p
  <2> HIDE DEF x, y, t, p
  <2> QED BY <1>1, <1>3, AddedIsNear
<1>5. r = Number(r.sgn, r.exp, r.man)
  BY DEF Added, Number
<1>6. r.man \in Nat /\ r.man < 2 * ManMod /\ ManMod \in Nat
  <2> HIDE DEF x, y, r
  <2> QED BY <1>1, <1>2, <1>4, FpuSizes
<1>7. Difference = c
  BY DEF Difference
<1> HIDE DEF x, y, r, t, p
<1>8. \/ c = r /\ r.man < ManMod
      \/ /\ c = Number(r.sgn, r.exp + 1, r.man \div 2)
         /\ c.man >= Implicit /\ c.man < ManMod
         /\ c.man * Pow2[c.exp] \in (z - p)..z
  BY <1>2, <1>3, <1>4, <1>5, <1>6, CarriedIsNear
<1>9. z \in Int
  BY <1>3, <1>6
<1>10. CASE c = r /\ r.man < ManMod
  BY <1>2, <1>3, <1>4, <1>6, <1>7, <1>10 DEF t, p
<1>11. CASE /\ c = Number(r.sgn, r.exp + 1, r.man \div 2)
            /\ c.man >= Implicit /\ c.man < ManMod
            /\ c.man * Pow2[c.exp] \in (z - p)..z
  <2> DEFINE a == c.man * Pow2[c.exp]
  <2>1. a \in (z - p)..z /\ c.exp = t + 1 /\ c.man \in Nat
    BY <1>4, <1>6, <1>11 DEF Number
  <2>2. 2 * a - 2 * TrueDifference \in (-(3 * p))..p
    <3> HIDE DEF a, z
    <3> QED BY <1>3, <1>4, <1>9, <2>1
  <2> QED BY <1>2, <1>4, <1>7, <1>11, <2>1, <2>2 DEF t, p
<1> QED BY <1>8, <1>10, <1>11

LEMMA ProductIsSquare ==
  ASSUME f1 \in Inputs, f2 \in Inputs
  PROVE  LET a == Difference.man * Pow2[Difference.exp]
         IN /\ Product.sgn = 0 /\ Product.man = Difference.man * Difference.man /\ Product.man \in Nat
            /\ Product.exp \in Nat /\ Product.exp >= BITS
            /\ Product.exp = 2 * Difference.exp - (Bias + BITS - 1)
            /\ Product.exp + BITS = 2 * Difference.exp + 1 - Bias
            /\ Product.exp + BITS <= 2 * Greatest + 3 - Bias
            /\ Difference.exp \in Nat /\ a \in Nat
            /\ Product.man * Pow2[Product.exp] * Square = a * a
            /\ Pow2[Product.exp] * Square = Pow2[Difference.exp] * Pow2[Difference.exp]
            /\ \A w \in Nat : w < ManMod => Product.man + w < Pow2[2 * BITS]
<1> DEFINE m == Difference.man
           e == Difference.exp
           q == Pow2[e]
           a == m * q
           k == 2 * e - (Bias + BITS - 1)
<1>1. /\ m \in Nat /\ m < ManMod /\ Greatest \in Nat /\ (e = Greatest \/ e = Greatest + 1)
  BY DifferenceIsNear
<1>2. /\ BITS \in Nat /\ BITS >= 2 /\ Bias \in Nat /\ ManMod \in Nat /\ Pow2[2 * BITS] = ManMod * ManMod
  BY FpuSizes
<1>3. 2 * Greatest >= Bias + 2 * BITS - 1
  <2>1. Greatest = f1.exp \/ Greatest = f2.exp
    BY DEF Greatest
  <2> QED BY <2>1, InputBounds
<1>4. e \in Nat /\ k \in Nat /\ k >= BITS /\ k + BITS = 2 * e + 1 - Bias /\ k + BITS <= 2 * Greatest + 3 - Bias
  <2> HIDE DEF e
  <2> QED BY <1>1, <1>2, <1>3
<1>5. Product = Number(0, k, m * m)
  BY DEF Product
<1>6. Product.sgn = 0 /\ Product.exp = k /\ Product.man = m * m
  BY <1>5 DEF Number
<1>7. m * m \in Nat /\ q \in Nat /\ a \in Nat
  <2>1. m * m \in Nat
    BY <1>1
  <2>2. q \in Nat
    BY <1>4, Pow2Unfolds
  <2>3. \A i, j \in Nat : i * j \in Nat
    OBVIOUS
  <2> QED BY <1>1, <2>1, <2>2, <2>3
<1>8. Pow2[k] * Square = q * q
  <2>1. Bias + BITS - 1 \in Nat /\ k + (Bias + BITS - 1) = e + e
    <3> HIDE DEF e
    <3> QED BY <1>2, <1>4
  <2>2. Pow2[k + (Bias + BITS - 1)] = Pow2[k] * Square
    <3> DEFINE b == Bias + BITS - 1
    <3>1. Pow2[k + b] = Pow2[k] * Pow2[b]
      <4> HIDE DEF k, b
      <4> QED BY <1>4, <2>1, Pow2Adds DEF b
    <3> QED BY <3>1 DEF Square
  <2>3. Pow2[e + e] = q * q
    <3> HIDE DEF e
    <3> QED BY <1>4, Pow2Adds
  <2> QED BY <2>1, <2>2, <2>3
<1>9. (m * m) * Pow2[k] * Square = a * a
  <2>1. Pow2[k] \in Nat /\ Square \in Nat
    <3>1. Bias + BITS - 1 \in Nat
      BY <1>2
    <3> HIDE DEF k
    <3> QED BY <1>4, <3>1, Pow2Unfolds DEF Square
  <2>2. \A i, j, l, n \in Nat : j * l = n * n => (i * i) * j * l = (i * n) * (i * n)
    <3> SUFFICES ASSUME NEW i \in Nat, NEW j \in Nat, NEW l \in Nat, NEW n \in Nat, j * l = n * n
                 PROVE  (i * i) * j * l = (i * n) * (i * n)
      OBVIOUS
    <3>1. (i * i) * j * l = (i * i) * (j * l)
      OBVIOUS
    <3>2. (i * n) * (i * n) = (i * i) * (n * n)
      OBVIOUS
    <3> QED BY <3>1, <3>2
  <2> HIDE DEF m, q, k
  <2> QED BY <1>1, <1>7, <1>8, <2>1, <2>2
<1>10. ASSUME NEW w \in Nat, w < ManMod PROVE m * m + w < ManMod * ManMod
  <2>1. \A i, n \in Nat : i < n => i * i + n <= n * n
    <3> SUFFICES ASSUME NEW i \in Nat, NEW n \in Nat, i < n PROVE i * i + n <= n * n
      OBVIOUS
    <3>1. (n - i) * n >= n
      <4>1. \A d \in Nat : d >= 1 => d * n >= n
        OBVIOUS
      <4> QED BY <4>1
    <3>2. i * n >= i * i
      <4>1. i * (n - i) >= 0 /\ i * (n - i) = i * n - i * i
        OBVIOUS
      <4> QED BY <4>1
    <3>3. (n - i) * n = n * n - i * n
      OBVIOUS
    <3>4. n * n \in Nat /\ i * n \in Nat /\ i * i \in Nat
      OBVIOUS
    <3> QED BY <3>1, <3>2, <3>3, <3>4
  <2>2. m * m + ManMod <= ManMod * ManMod
    <3> HIDE DEF m
    <3> QED BY <1>1, <1>2, <2>1
  <2>3. m * m \in Nat /\ ManMod * ManMod \in Nat
    BY <1>1, <1>2
  <2> DEFINE s == m * m
             n == ManMod * ManMod
  <2>4. s + w < n
    <3>1. s \in Nat /\ n \in Nat /\ s + ManMod <= n
      BY <2>2, <2>3
    <3> HIDE DEF s, n
    <3> QED BY <1>2, <1>10, <3>1
  <2> QED BY <2>4
<1> QED BY <1>2, <1>4, <1>6, <1>7, <1>8, <1>9, <1>10

\* The square of a number near the difference.
LEMMA SquaresNear ==
  ASSUME NEW a \in Nat, NEW d \in Nat, NEW p \in Nat, NEW n \in Nat,
         2 * a - 2 * d \in (-(n * p))..(n * p)
  PROVE  4 * (a * a) - 4 * (d * d) \in (-(4 * n * (d * p) + n * n * (p * p)))..(4 * n * (d * p) + n * n * (p * p))
<1> DEFINE g == 2 * a - 2 * d
           b == n * p
<1>1. b \in Nat /\ g \in (-b)..b
  OBVIOUS
<1>2. 4 * (a * a) - 4 * (d * d) = g * (g + 4 * d)
  <2>1. (2 * a - 2 * d) * (2 * a + 2 * d) = 4 * (a * a) - 4 * (d * d)
    OBVIOUS
  <2>2. g + 4 * d = 2 * a + 2 * d
    OBVIOUS
  <2> QED BY <2>1, <2>2
<1>3. g * (g + 4 * d) \in (-(b * (b + 4 * d)))..(b * (b + 4 * d))
  <2> HIDE DEF g, b
  <2>1. g * (g + 4 * d) = g * g + 4 * (g * d) /\ b * (b + 4 * d) = b * b + 4 * (b * d)
    BY <1>1
  <2>2. g * g \in 0..(b * b)
    <3>1. (b - g) * (b + g) >= 0 /\ (b - g) * (b + g) = b * b - g * g
      BY <1>1
    <3>2. g * g >= 0 /\ g * g \in Int /\ b * b \in Int
      BY <1>1
    <3> QED BY <3>1, <3>2
  <2>3. g * d \in (-(b * d))..(b * d)
    <3>1. (b - g) * d >= 0 /\ (b - g) * d = b * d - g * d
      BY <1>1
    <3>2. (b + g) * d >= 0 /\ (b + g) * d = b * d + g * d
      BY <1>1
    <3>3. b * d \in Int /\ g * d \in Int
      BY <1>1
    <3> QED BY <3>1, <3>2, <3>3
  <2> DEFINE gg == g * g
             bb == b * b
             gd == g * d
             bd == b * d
  <2>4. gg \in 0..bb /\ gd \in (-bd)..bd /\ bb \in Nat /\ bd \in Nat
    BY <1>1, <2>2, <2>3
  <2>5. gg + 4 * gd \in (-(bb + 4 * bd))..(bb + 4 * bd)
    <3> HIDE DEF gg, bb, gd, bd
    <3> QED BY <2>4
  <2> QED BY <2>1, <2>5
<1>4. b * (b + 4 * d) = 4 * n * (d * p) + n * n * (p * p)
  <2>1. b * (b + 4 * d) = b * b + 4 * (b * d)
    OBVIOUS
  <2>2. b * b = n * n * (p * p)
    OBVIOUS
  <2>3. 4 * (b * d) = 4 * n * (d * p)
    OBVIOUS
  <2> QED BY <2>1, <2>2, <2>3
<1> QED BY <1>2, <1>3, <1>4

LEMMA SquareIsNear ==
  ASSUME f1 \in Inputs, f2 \in Inputs
  PROVE  LET a == Difference.man * Pow2[Difference.exp]
             d == TrueDifference
             p == LastPlace
             e == 4 * (a * a) - 4 * (d * d)
         IN /\ d * d \in Nat /\ d * p \in Nat /\ p * p \in Nat /\ a * a \in Nat
            /\ Lost = 3 * (d * p) + 3 * (p * p)
            /\ e \in (-(12 * (d * p) + 9 * (p * p)))..(12 * (d * p) + 9 * (p * p))
            /\ Difference.exp = Greatest => e \in (-(4 * (d * p) + p * p))..(4 * (d * p) + p * p)
<1> DEFINE a == Difference.man * Pow2[Difference.exp]
           d == TrueDifference
           p == LastPlace
<1>1. /\ d \in Nat /\ Greatest \in Nat
      /\ \/ Difference.exp = Greatest /\ 2 * a - 2 * d \in (-p)..p
         \/ Difference.exp = Greatest + 1 /\ 2 * a - 2 * d \in (-(3 * p))..p
  BY DifferenceIsNear
<1>2. p \in Nat
  BY <1>1, Pow2Unfolds DEF LastPlace
<1>3. a \in Nat
  BY ProductIsSquare
<1>4. Lost = 3 * d * p + 3 * p * p
  BY DEF Lost
<1> HIDE DEF a, d, p
<1>5. 3 * d * p + 3 * p * p = 3 * (d * p) + 3 * (p * p)
  BY <1>1, <1>2
<1>6. d * d \in Nat /\ d * p \in Nat /\ p * p \in Nat /\ a * a \in Nat
  BY <1>1, <1>2, <1>3
<1> DEFINE e == 4 * (a * a) - 4 * (d * d)
           dp == d * p
           pp == p * p
<1>7. 2 * a - 2 * d \in (-(3 * p))..(3 * p)
  BY <1>1, <1>2, <1>3
<1>8. e \in (-(12 * dp + 9 * pp))..(12 * dp + 9 * pp)
  <2>1. e \in (-(4 * 3 * dp + 3 * 3 * pp))..(4 * 3 * dp + 3 * 3 * pp)
    BY <1>1, <1>2, <1>3, <1>7, SquaresNear
  <2>2. 4 * 3 * dp = 12 * dp /\ 3 * 3 * pp = 9 * pp
    <3> HIDE DEF dp, pp
    <3> QED BY <1>6 DEF dp, pp
  <2> HIDE DEF e, dp, pp
  <2> QED BY <2>1, <2>2
<1>9. ASSUME Difference.exp = Greatest PROVE e \in (-(4 * dp + pp))..(4 * dp + pp)
  <2>1. 2 * a - 2 * d \in (-(1 * p))..(1 * p)
    BY <1>1, <1>2, <1>9
  <2>2. e \in (-(4 * 1 * dp + 1 * 1 * pp))..(4 * 1 * dp + 1 * 1 * pp)
    BY <1>1, <1>2, <1>3, <2>1, SquaresNear
  <2>3. 4 * 1 * dp = 4 * dp /\ 1 * 1 * pp = pp
    BY <1>6
  <2> HIDE DEF e, dp, pp
  <2> QED BY <2>2, <2>3
<1> QED BY <1>4, <1>5, <1>6, <1>8, <1>9 DEF a, d, p

-----------------------------------------------------------------------------
(* The sum with the accumulator.                                           *)

\* What a call is given.
Given ==
  /\ f1 \in Inputs /\ f2 \in Inputs
  /\ acc \in Stored /\ Held(acc, Tests - tests) /\ tests \in Nat /\ tests < Tests

LEMMA RoomIsLeft ==
  ASSUME Given
  PROVE  /\ Room \in Nat /\ Room >= 1 /\ Room + (Tests - (tests + 1)) < ExpMod /\ Room < ExpMod
         /\ Product.exp + BITS + 1 <= Room /\ acc.exp + 1 <= Room /\ acc.exp \in Nat
<1> DEFINE s == 2 * Greatest + 3 - Bias
           a == acc.exp
<1>1. /\ Product.exp + BITS <= s /\ Product.exp \in Nat /\ Greatest \in Nat
  BY ProductIsSquare, DifferenceIsNear DEF Given
<1>2. Bias \in Nat /\ ExpMod \in Nat /\ BITS \in Nat /\ Tests \in Nat /\ tests \in Nat /\ tests < Tests
  BY FpuSizes, FpuAssumption DEF Given
<1>3. s + Tests < ExpMod
  <2>1. Greatest = f1.exp \/ Greatest = f2.exp
    BY DEF Greatest
  <2> QED BY <2>1, InputBounds DEF Given
<1>4. a \in Nat
  BY Widths DEF Given, Stored, Numbers
<1>5. a = 0 \/ a + (Tests - tests) < ExpMod
  BY DEF Given, Held
<1>6. s \in Nat
  <2>1. s \in Int
    BY <1>1, <1>2
  <2> HIDE DEF s
  <2> QED BY <1>1, <1>2, <2>1
<1>7. Room = (IF a > s THEN a ELSE s) + 1
  BY DEF Room
<1> HIDE DEF s, a
<1>8. Room \in Nat /\ Room >= 1 /\ a + 1 <= Room /\ s + 1 <= Room
  BY <1>4, <1>6, <1>7
<1>9. Room + (Tests - (tests + 1)) < ExpMod
  <2>1. CASE a > s
    BY <1>2, <1>4, <1>5, <1>6, <1>7, <2>1
  <2>2. CASE ~ (a > s)
    BY <1>2, <1>3, <1>4, <1>6, <1>7, <2>2
  <2> QED BY <2>1, <2>2
<1>10. Room < ExpMod
  BY <1>2, <1>8, <1>9
<1>11. Product.exp + BITS + 1 <= Room
  BY <1>1, <1>2, <1>6, <1>8
<1> QED BY <1>4, <1>8, <1>9, <1>10, <1>11 DEF a

LEMMA AccumulatorFits ==
  ASSUME Given
  PROVE  LET y == WithImplicit(acc)
         IN /\ Fits(Product, y) /\ Product.sgn = 0 /\ y.sgn = 0
            /\ y.man \in Nat /\ y.man < ManMod /\ y.exp = acc.exp
            /\ acc.exp # 0 => y.man >= Implicit
            /\ acc.exp = 0 => y.man = 0
            /\ Value(acc) = y.man * Pow2[y.exp] /\ Value(acc) \in Nat
            /\ TopOf(Product, y) + 1 <= Room
<1> DEFINE y == WithImplicit(acc)
<1>1. acc \in Stored /\ Held(acc, Tests - tests)
  BY DEF Given
<1>2. acc.man \in Nat /\ Implicit \in Nat
  BY <1>1, Widths DEF Stored, Numbers
<1>3. /\ acc.sgn = 0
      /\ acc.exp = 0 => acc.man = 0
  BY <1>1 DEF Held
<1>4. /\ y.man \in Nat /\ y.exp = acc.exp /\ y.sgn = 0 /\ y.man < ManMod
      /\ Value(acc) = y.man * Pow2[acc.exp] /\ Value(acc) \in Nat
  BY <1>1, <1>3, SignedValue
<1>5. y.man = IF acc.exp = 0 THEN acc.man ELSE acc.man + Implicit
  BY <1>1 DEF WithImplicit, Stored, Numbers
<1>6. y \in Narrows
  BY <1>1, StoredFits
<1>7. /\ Product.sgn = 0 /\ Product.man \in Nat /\ Product.exp \in Nat
      /\ \A w \in Nat : w < ManMod => Product.man + w < Pow2[2 * BITS]
  BY ProductIsSquare DEF Given
<1>8. /\ Room \in Nat /\ Room < ExpMod /\ Product.exp + BITS + 1 <= Room /\ acc.exp + 1 <= Room /\ acc.exp \in Nat
  BY RoomIsLeft
<1>9. BITS \in Nat /\ ExpMod \in Nat /\ Pow2[2 * BITS] \in Nat
  BY FpuSizes, Widths
<1> HIDE DEF y
<1>10. TopOf(Product, y) + 1 <= Room /\ TopOf(Product, y) + 1 < ExpMod
  BY <1>4, <1>7, <1>8, <1>9 DEF TopOf
<1>11. Product.man + y.man < Pow2[2 * BITS]
  BY <1>4, <1>7
<1>12. Product \in Wides
  <2>1. Product.man \in 0..(Pow2[2 * BITS] - 1)
    BY <1>4, <1>7, <1>9, <1>11
  <2>2. Product.exp \in 0..(ExpMod - 1)
    BY <1>7, <1>8, <1>9
  <2>3. Product = Number(Product.sgn, Product.exp, Product.man)
    BY DEF Product, Number
  <2> QED BY <1>7, <2>1, <2>2, <2>3, NumberFields DEF Wides
<1>13. Fits(Product, y)
  BY <1>6, <1>10, <1>11, <1>12 DEF Fits
<1> QED BY <1>2, <1>3, <1>4, <1>5, <1>7, <1>10, <1>13 DEF y

\* The sum before its carry: near the exact one, and in the room left.
LEMMA SumIsNear ==
  ASSUME Given
  PROVE  LET y == WithImplicit(acc)
             t == TopOf(Product, y)
             r == Added(Product, y)
             z == r.man * Pow2[t]
             u == Product.man * Pow2[Product.exp]
         IN /\ r.sgn = 0 /\ r.exp = t /\ t \in Nat /\ t >= BITS /\ r.man \in Nat
            /\ r = Number(r.sgn, r.exp, r.man)
            /\ u \in Nat /\ z \in Nat
            /\ 2 * z - 2 * (u + Value(acc)) \in (-Pow2[t])..Pow2[t]
            /\ z < Pow2[BITS + Room]
            /\ r.man < Implicit => t = Product.exp /\ Difference.exp = Greatest
<1> DEFINE x == Product
           y == WithImplicit(acc)
           t == TopOf(x, y)
           r == Added(x, y)
           p == Pow2[t]
           z == r.man * p
           u == x.man * Pow2[x.exp]
           v == Value(acc)
<1>1. /\ Fits(x, y) /\ x.sgn = 0 /\ y.sgn = 0 /\ y.man \in Nat /\ y.man < ManMod /\ y.exp = acc.exp
      /\ acc.exp # 0 => y.man >= Implicit
      /\ acc.exp = 0 => y.man = 0
      /\ v = y.man * Pow2[y.exp] /\ v \in Nat /\ t + 1 <= Room
  BY AccumulatorFits
<1>2. /\ x.man \in Nat /\ x.exp \in Nat /\ x.exp >= BITS
      /\ x.man = Difference.man * Difference.man
      /\ \A w \in Nat : w < ManMod => x.man + w < Pow2[2 * BITS]
  BY ProductIsSquare DEF Given
<1>3. Room \in Nat /\ x.exp + BITS + 1 <= Room /\ acc.exp \in Nat
  BY RoomIsLeft
<1>4. BITS \in Nat /\ BITS >= 2 /\ ManMod \in Nat /\ Implicit \in Nat /\ Implicit >= 2
  BY FpuSizes
<1>5. t \in Nat /\ x.exp <= t /\ (t = x.exp \/ t = acc.exp) /\ (t = x.exp \/ acc.exp > x.exp)
  BY <1>1, <1>2, <1>3 DEF TopOf
<1>6. t >= BITS
  <2> HIDE DEF t
  <2> QED BY <1>2, <1>4, <1>5
<1>7. Combined(x, y) = u + v /\ u \in Nat
  <2>1. Pow2[x.exp] \in Nat
    BY <1>2, Pow2Unfolds
  <2>2. u \in Nat
    <3>1. \A i, j \in Nat : i * j \in Nat
      OBVIOUS
    <3> QED BY <1>2, <2>1, <3>1
  <2> QED BY <1>1, <2>2 DEF Combined
<1>8. p \in Nat /\ p >= 1
  BY <1>5, Pow2Unfolds, Pow2Positive
<1>9. /\ r.exp = t /\ r.man \in 0..(x.man + y.man)
      /\ 2 * z - 2 * (u + v) \in (-p)..p
  <2>1. /\ r.exp = t /\ r.man \in 0..(x.man + y.man)
        /\ 2 * (r.man * p) - 2 * Combined(x, y) \in (-p)..p
    BY <1>1, AddedIsNear
  <2> HIDE DEF p, r, u, v, t
  <2> QED BY <1>7, <2>1
<1>10. r.sgn = 0 /\ r = Number(r.sgn, r.exp, r.man) /\ r.man = ManAt(x, t) + ManAt(y, t)
  BY <1>1 DEF Added, Number
<1>11. r.man \in Nat /\ r.man <= x.man + y.man
  BY <1>1, <1>2, <1>9
<1>12. z \in Nat
  <2>1. \A i, j \in Nat : i * j \in Nat
    OBVIOUS
  <2> HIDE DEF r, p
  <2> QED BY <1>8, <1>11, <2>1
<1>13. z < Pow2[BITS + Room]
  <2> DEFINE n == BITS + Room
             b == Pow2[n - 1]
  <2>1. b \in Nat /\ Pow2[n] = 2 * b /\ n - 1 \in Nat
    <3>1. n \in Nat /\ n >= 1 /\ n - 1 \in Nat
      BY <1>3, <1>4
    <3> HIDE DEF n
    <3> QED BY <3>1, Pow2Halves
  <2>2. CASE t = x.exp
    <3>1. r.man + 1 <= Pow2[2 * BITS] /\ Pow2[2 * BITS] \in Nat
      <4>1. x.man + y.man < Pow2[2 * BITS] /\ Pow2[2 * BITS] \in Nat
        BY <1>1, <1>2, Widths
      <4> HIDE DEF x, y, r
      <4> QED BY <1>1, <1>2, <1>11, <4>1
    <3>2. Pow2[2 * BITS] * p = Pow2[2 * BITS + t]
      <4>1. 2 * BITS \in Nat
        BY <1>4
      <4> HIDE DEF t
      <4> QED BY <1>5, <4>1, Pow2Adds
    <3>3. Pow2[2 * BITS + t] <= Pow2[BITS + Room]
      <4>1. 2 * BITS + t <= BITS + Room /\ 2 * BITS + t \in Nat /\ BITS + Room \in Nat
        <5> HIDE DEF t, x
        <5> QED BY <1>3, <1>4, <1>5, <2>2
      <4> QED BY <4>1, Pow2Grows
    <3>4. z + p <= Pow2[2 * BITS] * p
      <4>1. \A i, j, k \in Nat : i + 1 <= j => i * k + k <= j * k
        <5> SUFFICES ASSUME NEW i \in Nat, NEW j \in Nat, NEW k \in Nat, i + 1 <= j
                     PROVE  i * k + k <= j * k
          OBVIOUS
        <5>1. (j - (i + 1)) * k >= 0 /\ (j - (i + 1)) * k = j * k - (i * k + k)
          OBVIOUS
        <5> QED BY <5>1
      <4> HIDE DEF p, r
      <4> QED BY <1>8, <1>11, <3>1, <4>1
    <3> DEFINE w == Pow2[2 * BITS + t]
    <3>5. z + p <= w /\ w <= Pow2[BITS + Room] /\ w \in Nat
      <4>1. 2 * BITS + t \in Nat
        BY <1>4, <1>5
      <4> QED BY <3>2, <3>3, <3>4, <4>1, Pow2Unfolds
    <3> HIDE DEF w, z, p
    <3> QED BY <1>8, <1>12, <2>1, <3>5
  <2>3. CASE t = acc.exp
    <3>1. u < b
      <4> DEFINE q == Pow2[x.exp]
                 s == Pow2[2 * BITS]
      <4>1. x.man < s /\ s \in Nat /\ q \in Nat /\ q >= 1
        <5>1. x.man + 0 < s
          BY <1>2, FpuSizes
        <5>2. x.man + 0 = x.man /\ s \in Nat /\ q \in Nat /\ q >= 1
          BY <1>2, Widths, Pow2Unfolds, Pow2Positive
        <5> QED BY <5>1, <5>2
      <4>2. s * q = Pow2[2 * BITS + x.exp]
        <5>1. 2 * BITS \in Nat
          BY <1>4
        <5> QED BY <1>2, <5>1, Pow2Adds
      <4>3. s * q <= b
        <5>1. 2 * BITS + x.exp \in Nat /\ 2 * BITS + x.exp <= n - 1
          <6> HIDE DEF x
          <6> QED BY <1>2, <1>3, <1>4
        <5> HIDE DEF n
        <5> QED BY <2>1, <4>2, <5>1, Pow2Grows
      <4>4. \A i, j, k \in Nat : i < j /\ k >= 1 => i * k < j * k
        <5> SUFFICES ASSUME NEW i \in Nat, NEW j \in Nat, NEW k \in Nat, i < j, k >= 1
                     PROVE  i * k < j * k
          OBVIOUS
        <5>1. (j - i) * k >= 1 /\ (j - i) * k = j * k - i * k
          OBVIOUS
        <5> QED BY <5>1
      <4>5. u < s * q
        <5>1. u = x.man * q
          OBVIOUS
        <5> HIDE DEF s, q, x, u
        <5> QED BY <1>2, <4>1, <4>4, <5>1
      <4>6. s * q \in Nat
        <5> HIDE DEF s, q
        <5> QED BY <4>1
      <4> DEFINE w == s * q
      <4> HIDE DEF w, u, b
      <4> QED BY <1>7, <2>1, <4>3, <4>5, <4>6 DEF w
    <3>2. v + p <= b
      <4>1. v = y.man * p
        BY <1>1, <2>3
      <4>2. ManMod * p = Pow2[BITS + t]
        <5> HIDE DEF t
        <5> QED BY <1>4, <1>5, Pow2Adds DEF ManMod
      <4>3. ManMod * p <= b
        <5>1. BITS + t \in Nat /\ BITS + t <= n - 1
          <6> HIDE DEF t
          <6> QED BY <1>1, <1>3, <1>4, <1>5
        <5> HIDE DEF n
        <5> QED BY <2>1, <4>2, <5>1, Pow2Grows
      <4>4. \A i, j, k \in Nat : i < j => i * k + k <= j * k
        <5> SUFFICES ASSUME NEW i \in Nat, NEW j \in Nat, NEW k \in Nat, i < j
                     PROVE  i * k + k <= j * k
          OBVIOUS
        <5>1. (j - (i + 1)) * k >= 0 /\ (j - (i + 1)) * k = j * k - (i * k + k)
          OBVIOUS
        <5> QED BY <5>1
      <4>5. v + p <= ManMod * p
        <5> HIDE DEF p, y, v
        <5> QED BY <1>1, <1>4, <1>8, <4>1, <4>4
      <4>6. ManMod * p \in Nat
        BY <1>4, <1>8
      <4> DEFINE w == ManMod * p
      <4> HIDE DEF w, v, p, b
      <4> QED BY <1>1, <1>8, <2>1, <4>3, <4>5, <4>6 DEF w
    <3> HIDE DEF z, u, v, p, b
    <3> QED BY <1>1, <1>7, <1>8, <1>9, <1>12, <2>1, <3>1, <3>2
  <2> QED BY <1>5, <2>2, <2>3
<1>14. ASSUME r.man < Implicit PROVE t = x.exp /\ Difference.exp = Greatest
  <2>1. ManAt(x, t) \in 0..x.man /\ ManAt(y, t) \in 0..y.man
        /\ (x.exp = t => ManAt(x, t) = x.man) /\ (y.exp = t => ManAt(y, t) = y.man)
    BY <1>1, AlignedOperands
  <2>2. t = x.exp
    <3> SUFFICES ASSUME t # x.exp PROVE FALSE
      OBVIOUS
    <3>1. t = acc.exp /\ acc.exp # 0
      <4> HIDE DEF t, x
      <4> QED BY <1>2, <1>3, <1>5
    <3>2. ManAt(y, t) >= Implicit
      BY <1>1, <2>1, <3>1
    <3> HIDE DEF r, t, x, y
    <3> QED BY <1>1, <1>2, <1>4, <1>10, <1>14, <2>1, <3>2
  <2>3. Difference.exp = Greatest
    <3> SUFFICES ASSUME Difference.exp # Greatest PROVE FALSE
      OBVIOUS
    <3>1. Difference.man >= Implicit /\ Difference.man \in Nat
      BY DifferenceIsNear DEF Given
    <3>2. Difference.man * Difference.man >= Implicit
      <4>1. \A i, j \in Nat : i >= j /\ j >= 1 => i * i >= j
        <5> SUFFICES ASSUME NEW i \in Nat, NEW j \in Nat, i >= j, j >= 1 PROVE i * i >= j
          OBVIOUS
        <5>1. i * i >= i
          OBVIOUS
        <5> QED BY <5>1
      <4> QED BY <1>4, <3>1, <4>1
    <3>3. ManAt(x, t) >= Implicit
      BY <1>2, <2>1, <2>2, <3>2
    <3> HIDE DEF r, t, x, y
    <3> QED BY <1>1, <1>2, <1>4, <1>10, <1>14, <2>1, <3>3
  <2> QED BY <2>2, <2>3
<1> QED BY <1>5, <1>6, <1>7, <1>9, <1>10, <1>11, <1>12, <1>13, <1>14

LEMMA ScaledWithin ==
  ASSUME NEW i \in Int, NEW j \in Int, NEW k \in Int, NEW s \in Nat, i <= j, j <= k
  PROVE  i * s <= j * s /\ j * s <= k * s /\ i * s \in Int /\ j * s \in Int /\ k * s \in Int
<1>1. (j - i) * s >= 0 /\ (k - j) * s >= 0
  OBVIOUS
<1>2. (j - i) * s = j * s - i * s /\ (k - j) * s = k * s - j * s
  OBVIOUS
<1>3. i * s \in Int /\ j * s \in Int /\ k * s \in Int
  OBVIOUS
<1> QED BY <1>1, <1>2, <1>3

LEMMA TotalIsNear ==
  ASSUME Given
  PROVE  Total.man \in Nat /\ Total.exp \in Nat /\ NearResult(Total)
<1> DEFINE y == WithImplicit(acc)
           t == TopOf(Product, y)
           r == Added(Product, y)
           p == Pow2[t]
           z == r.man * p
           u == Product.man * Pow2[Product.exp]
           v == Value(acc)
           a == Difference.man * Pow2[Difference.exp]
           aa == a * a
           dd == TrueDifference * TrueDifference
           dp == TrueDifference * LastPlace
           pp == LastPlace * LastPlace
           c == Total
           h == c.man * Pow2[c.exp]
           zs == z * Square
           vs == v * Square
           ps == p * Square
           hs == h * Square
<1>1. /\ r.sgn = 0 /\ r.exp = t /\ t \in Nat /\ t >= BITS /\ r.man \in Nat
      /\ r = Number(r.sgn, r.exp, r.man)
      /\ u \in Nat /\ z \in Nat
      /\ 2 * z - 2 * (u + v) \in (-p)..p
      /\ z < Pow2[BITS + Room]
      /\ r.man < Implicit => t = Product.exp /\ Difference.exp = Greatest
  BY SumIsNear
<1>2. v \in Nat
  BY AccumulatorFits
<1>3. u * Square = aa /\ Pow2[Product.exp] * Square = Pow2[Difference.exp] * Pow2[Difference.exp]
  BY ProductIsSquare DEF Given
<1>4. /\ dd \in Nat /\ dp \in Nat /\ pp \in Nat /\ aa \in Nat
      /\ Lost = 3 * dp + 3 * pp
      /\ 4 * aa - 4 * dd \in (-(12 * dp + 9 * pp))..(12 * dp + 9 * pp)
      /\ Difference.exp = Greatest => 4 * aa - 4 * dd \in (-(4 * dp + pp))..(4 * dp + pp)
  BY SquareIsNear DEF Given
<1>5. /\ BITS \in Nat /\ ManMod \in Nat /\ Implicit \in Nat /\ Implicit >= 2 /\ ManMod = 2 * Implicit
      /\ Square \in Nat /\ p \in Nat /\ p >= ManMod /\ Pow2[t + 1] = 2 * p
  <2>1. Bias + BITS - 1 \in Nat
    BY FpuSizes
  <2> HIDE DEF t
  <2> QED BY <1>1, <2>1, FpuSizes, Pow2Unfolds, Pow2Grows DEF Square, ManMod
<1>6. Exact = vs + dd
  BY DEF Exact
<1>7. c = Carried(r)
  BY DEF Total
<1>8. r.man < Implicit => ps = pp
  <2> SUFFICES ASSUME r.man < Implicit PROVE ps = pp
    OBVIOUS
  <2>1. p = Pow2[Product.exp] /\ Pow2[Difference.exp] = LastPlace
    BY <1>1 DEF LastPlace
  <2> QED BY <1>3, <2>1
<1> HIDE DEF y, t, r, u, v, a, c
<1>9. \/ c = r
      \/ /\ c = Number(r.sgn, r.exp + 1, r.man \div 2)
         /\ r.man >= ManMod /\ c.man >= Implicit
         /\ h \in (z - p)..z
  <2>1. r.exp \in Nat /\ z = r.man * Pow2[r.exp]
    BY <1>1
  <2> QED BY <1>1, <1>7, <2>1, CarriedIsNear
<1>10. c.sgn = 0 /\ c.man \in Nat /\ c.exp \in Nat /\ c.exp >= BITS
       /\ (c = r \/ (c.exp = t + 1 /\ c.man >= Implicit /\ h \in (z - p)..z))
       /\ (c = r => h = z /\ Pow2[c.exp] = p) /\ (c # r => Pow2[c.exp] = 2 * p)
  <2>1. CASE c = r
    BY <1>1, <2>1
  <2>2. CASE c # r
    <3>1. /\ c = Number(r.sgn, r.exp + 1, r.man \div 2)
          /\ c.man >= Implicit /\ h \in (z - p)..z
      BY <1>9, <2>2
    <3>2. c.sgn = 0 /\ c.exp = t + 1 /\ c.man = r.man \div 2
      BY <1>1, <3>1 DEF Number
    <3>3. c.man \in Nat
      BY <1>1, <3>2
    <3>4. c.exp >= BITS /\ c.exp \in Nat
      BY <1>1, <1>5, <3>2
    <3> QED BY <1>5, <2>2, <3>1, <3>2, <3>3, <3>4
  <2> QED BY <2>1, <2>2
<1>11. c.man # 0 => h >= ManMod
  <2> SUFFICES ASSUME c.man # 0 PROVE h >= ManMod
    OBVIOUS
  <2>1. Pow2[c.exp] >= ManMod /\ Pow2[c.exp] \in Nat
    BY <1>5, <1>10, Pow2Grows, Pow2Unfolds DEF ManMod
  <2>2. \A i, j \in Nat : i # 0 => i * j >= j
    OBVIOUS
  <2>3. h >= Pow2[c.exp] /\ h \in Nat
    <3>1. \A i, j \in Nat : i * j \in Nat
      OBVIOUS
    <3> QED BY <1>10, <2>1, <2>2, <3>1
  <2> HIDE DEF h
  <2> QED BY <1>5, <2>1, <2>3
<1>12. h \in Nat /\ h <= z /\ h >= z - p
  <2>1. \A i, j \in Nat : i * j \in Nat
    OBVIOUS
  <2>2. h \in Nat
    BY <1>10, <2>1, Pow2Unfolds
  <2> HIDE DEF h, z, p
  <2> QED BY <1>1, <1>5, <1>10, <2>2
<1>13. h < Pow2[BITS + Room]
  <2>1. Pow2[BITS + Room] \in Nat
    <3>1. BITS + Room \in Nat
      BY <1>5, RoomIsLeft
    <3> QED BY <3>1, Pow2Unfolds
  <2> HIDE DEF h, z
  <2> QED BY <1>1, <1>12, <2>1
<1>14. /\ 2 * zs - 2 * (aa + vs) \in (-ps)..ps
       /\ zs \in Nat /\ vs \in Nat /\ ps \in Nat
  <2> DEFINE g == 2 * z - 2 * (u + v)
             us == u * Square
  <2>1. g \in Int /\ -p <= g /\ g <= p /\ -p \in Int
    BY <1>1, <1>2, <1>5
  <2>2. (-p) * Square <= g * Square /\ g * Square <= p * Square /\ p * Square \in Int
    <3> HIDE DEF g, p
    <3> QED BY <1>5, <2>1, ScaledWithin
  <2>3. (-p) * Square = -ps /\ g * Square = 2 * zs - 2 * (us + vs)
    <3>1. (-p) * Square = -ps
      BY <1>5
    <3>2. \A i, j, k, s \in Nat : (2 * i - 2 * (j + k)) * s = 2 * (i * s) - 2 * (j * s + k * s)
      OBVIOUS
    <3> HIDE DEF z
    <3> QED BY <1>1, <1>2, <1>5, <3>1, <3>2
  <2>4. zs \in Nat /\ vs \in Nat /\ ps \in Nat /\ us = aa
    <3>1. \A i, j \in Nat : i * j \in Nat
      OBVIOUS
    <3> HIDE DEF z, p
    <3> QED BY <1>1, <1>2, <1>3, <1>5, <3>1
  <2>5. -ps <= 2 * zs - 2 * (aa + vs) /\ 2 * zs - 2 * (aa + vs) <= ps
    <3> HIDE DEF g, us, zs, vs, ps, aa
    <3> QED BY <2>2, <2>3, <2>4 DEF ps
  <2> HIDE DEF zs, vs, ps, aa
  <2> QED BY <1>4, <2>4, <2>5
<1>15. hs \in Nat /\ hs <= zs /\ hs >= zs - ps
  <2>1. h * Square <= z * Square /\ (z - p) * Square <= h * Square /\ h * Square \in Int
    <3> HIDE DEF h, z, p
    <3> QED BY <1>1, <1>5, <1>12, ScaledWithin
  <2>2. (z - p) * Square = zs - ps
    <3>1. \A i, j, s \in Nat : (i - j) * s = i * s - j * s
      OBVIOUS
    <3> HIDE DEF z, p
    <3> QED BY <1>1, <1>5, <3>1
  <2>3. hs \in Nat
    <3>1. \A i, j \in Nat : i * j \in Nat
      OBVIOUS
    <3> HIDE DEF h
    <3> QED BY <1>5, <1>12, <3>1
  <2> QED BY <2>1, <2>2, <2>3
<1>16. c = r => hs = zs
  BY <1>10
<1>17. Pow2[c.exp] * Square = IF c = r THEN ps ELSE 2 * ps
  <2>1. CASE c = r
    BY <1>10, <2>1
  <2>2. CASE c # r
    <3>1. (2 * p) * Square = 2 * ps
      BY <1>5
    <3> QED BY <1>10, <2>2, <3>1
  <2> QED BY <2>1, <2>2
<1> DEFINE es == Pow2[c.exp] * Square
           e == hs - Exact
           b == IF c.man < Implicit THEN 0 ELSE es
<1>18. -(Lost + b) <= e /\ e <= Lost + b /\ e \in Int
  <2>1. es = (IF c = r THEN ps ELSE 2 * ps)
    BY <1>17
  <2> HIDE DEF es, hs, zs, vs, ps, dd, aa, dp, pp, h, z, p
  <2>2. CASE c = r /\ c.man < Implicit
    BY <1>1, <1>4, <1>6, <1>8, <1>10, <1>14, <1>15, <1>16, <2>1, <2>2
  <2>3. CASE c = r /\ ~ (c.man < Implicit)
    BY <1>1, <1>4, <1>6, <1>10, <1>14, <1>15, <1>16, <2>1, <2>3
  <2>4. CASE c # r
    <3>1. ~ (c.man < Implicit)
      BY <1>5, <1>10, <2>4
    <3> QED BY <1>1, <1>4, <1>6, <1>10, <1>14, <1>15, <2>1, <2>4, <3>1
  <2> QED BY <2>2, <2>3, <2>4
<1>19. Lost + b \in Int
  <2>1. b \in Int
    <3> HIDE DEF ps
    <3> QED BY <1>14, <1>17
  <2> HIDE DEF dp, pp, b
  <2> QED BY <1>4, <2>1
<1>20. Magnitude(e) <= Lost + b
  <2> HIDE DEF e, b
  <2> QED BY <1>18, <1>19 DEF Magnitude
<1>21. Magnitude(c.man * Pow2[c.exp] * Square - Exact)
       <= Lost + (IF c.man < Implicit THEN 0 ELSE Pow2[c.exp] * Square)
  BY <1>20
<1> QED BY <1>10, <1>11, <1>13, <1>21 DEF NearResult, c

-----------------------------------------------------------------------------
(* Normalising the sum, and the result.                                    *)

LEMMA GivenRanges ==
  ASSUME Given
  PROVE  /\ Exact \in Int /\ Lost \in Nat /\ Square \in Nat /\ Square >= 1
         /\ Room \in Nat /\ Room < ExpMod /\ Pow2[BITS + Room] \in Nat
<1>1. /\ TrueDifference * TrueDifference \in Nat /\ TrueDifference * LastPlace \in Nat /\ LastPlace * LastPlace \in Nat
      /\ Lost = 3 * (TrueDifference * LastPlace) + 3 * (LastPlace * LastPlace)
  BY SquareIsNear DEF Given
<1>2. Value(acc) \in Nat
  BY AccumulatorFits
<1>3. Square \in Nat /\ Square >= 1
  <2>1. Bias + BITS - 1 \in Nat
    BY FpuSizes
  <2> QED BY <2>1, Pow2Unfolds, Pow2Positive DEF Square
<1>4. Exact \in Int
  <2>1. Value(acc) * Square \in Nat
    BY <1>2, <1>3
  <2> QED BY <1>1, <2>1 DEF Exact
<1>5. Lost \in Nat
  <2> DEFINE i == TrueDifference * LastPlace
             j == LastPlace * LastPlace
  <2>1. i \in Nat /\ j \in Nat /\ Lost = 3 * i + 3 * j
    BY <1>1
  <2> HIDE DEF i, j
  <2> QED BY <2>1
<1>6. Room \in Nat /\ Room < ExpMod
  BY RoomIsLeft
<1>7. Pow2[BITS + Room] \in Nat
  <2>1. BITS + Room \in Nat
    BY <1>6, FpuSizes
  <2> QED BY <2>1, Pow2Unfolds
<1> QED BY <1>3, <1>4, <1>5, <1>6, <1>7

LEMMA WithinMagnitude ==
  ASSUME NEW e \in Int, NEW b \in Int
  PROVE  Magnitude(e) <= b <=> -b <= e /\ e <= b
BY DEF Magnitude

\* What a number near the result has of range.
LEMMA NearBounds ==
  ASSUME Given, NEW n, n.man \in Nat, n.exp \in Nat, NearResult(n)
  PROVE  /\ n.man * Pow2[n.exp] \in Nat /\ Pow2[n.exp] \in Nat /\ Pow2[n.exp] >= 1
         /\ n.man * Pow2[n.exp] * Square \in Nat /\ Pow2[n.exp] * Square \in Nat
         /\ n.man >= ManMod => n.exp + 1 <= Room
         /\ n.man >= Implicit => n.exp <= Room
         /\ n.man # 0 /\ n.man < ManMod => n.exp >= 1
<1> DEFINE p == Pow2[n.exp]
           h == n.man * p
           b == Pow2[BITS + Room]
<1>1. p \in Nat /\ p >= 1
  BY Pow2Unfolds, Pow2Positive
<1>2. Square \in Nat /\ Room \in Nat /\ b \in Nat
  BY GivenRanges
<1>3. h \in Nat /\ h * Square \in Nat /\ p * Square \in Nat
  <2>1. \A i, j \in Nat : i * j \in Nat
    OBVIOUS
  <2>2. h \in Nat
    BY <1>1, <2>1
  <2> HIDE DEF h, p
  <2> QED BY <1>1, <1>2, <2>1, <2>2
<1>4. h < b
  BY DEF NearResult
<1>5. /\ BITS \in Nat /\ BITS >= 2 /\ ManMod \in Nat /\ ManMod >= 4 /\ ManMod = 2 * Implicit
      /\ Implicit \in Nat /\ Implicit = Pow2[BITS - 1]
  BY FpuSizes DEF Implicit
<1>6. \A i, j, k \in Nat : i <= j => i * k <= j * k
  <2> SUFFICES ASSUME NEW i \in Nat, NEW j \in Nat, NEW k \in Nat, i <= j PROVE i * k <= j * k
    OBVIOUS
  <2> QED BY ScaledWithin
<1>7. ASSUME n.man >= ManMod PROVE n.exp + 1 <= Room
  <2> SUFFICES ASSUME n.exp >= Room PROVE FALSE
    BY <1>2
  <2>1. ManMod * p <= h
    <3> HIDE DEF p
    <3> QED BY <1>1, <1>5, <1>6, <1>7
  <2>2. ManMod * p = Pow2[BITS + n.exp]
    BY <1>5, Pow2Adds DEF ManMod
  <2>3. b <= Pow2[BITS + n.exp]
    <3>1. BITS + Room \in Nat /\ BITS + n.exp \in Nat /\ BITS + Room <= BITS + n.exp
      BY <1>2, <1>5
    <3> QED BY <3>1, Pow2Grows
  <2> DEFINE w == ManMod * p
  <2>4. w \in Nat /\ b <= w /\ w <= h
    <3>1. w \in Nat
      BY <1>1, <1>5
    <3> QED BY <2>1, <2>2, <2>3, <3>1
  <2> HIDE DEF w, h, b
  <2> QED BY <1>2, <1>3, <1>4, <2>4
<1>8. ASSUME n.man >= Implicit PROVE n.exp <= Room
  <2> SUFFICES ASSUME n.exp >= Room + 1 PROVE FALSE
    BY <1>2
  <2>1. Implicit * p <= h
    <3> HIDE DEF p
    <3> QED BY <1>1, <1>5, <1>6, <1>8
  <2> DEFINE k == BITS - 1
  <2>2. Implicit * p = Pow2[k + n.exp]
    <3>1. k \in Nat
      BY <1>5
    <3> HIDE DEF k
    <3> QED BY <1>5, <3>1, Pow2Adds DEF k
  <2>3. b <= Pow2[k + n.exp]
    <3>1. BITS + Room \in Nat /\ k + n.exp \in Nat /\ BITS + Room <= k + n.exp
      BY <1>2, <1>5
    <3> HIDE DEF k
    <3> QED BY <3>1, Pow2Grows
  <2> DEFINE w == Implicit * p
  <2>4. w \in Nat /\ b <= w /\ w <= h
    <3>1. w \in Nat
      BY <1>1, <1>5
    <3> QED BY <2>1, <2>2, <2>3, <3>1
  <2> HIDE DEF w, h, b
  <2> QED BY <1>2, <1>3, <1>4, <2>4
<1>9. ASSUME n.man # 0, n.man < ManMod PROVE n.exp >= 1
  <2> SUFFICES ASSUME n.exp = 0 PROVE FALSE
    OBVIOUS
  <2>1. p = 1
    BY Pow2Unfolds
  <2>2. h = n.man
    BY <2>1
  <2>3. h >= ManMod
    BY <1>9 DEF NearResult
  <2> HIDE DEF h
  <2> QED BY <1>5, <1>9, <2>2, <2>3
<1> QED BY <1>1, <1>3, <1>7, <1>8, <1>9

\* A shift to the right loses less than a place of what it leaves.
LEMMA ShiftDownIsNear ==
  ASSUME Given, NEW n, n.man \in Nat, n.exp \in Nat, NearResult(n), n.man >= ManMod
  PROVE  NearResult(Number(n.sgn, n.exp + 1, n.man \div 2))
<1> DEFINE c == Number(n.sgn, n.exp + 1, n.man \div 2)
           s == n.man \div 2
           p == Pow2[n.exp]
           h == n.man * p
           g == s * (2 * p)
           hs == h * Square
           gs == g * Square
           ps == p * Square
<1>1. c.sgn = n.sgn /\ c.exp = n.exp + 1 /\ c.man = s /\ Pow2[c.exp] = 2 * p
  BY Pow2Unfolds DEF Number
<1>2. /\ h \in Nat /\ p \in Nat /\ p >= 1 /\ hs \in Nat /\ ps \in Nat
  BY NearBounds
<1>3. Exact \in Int /\ Lost \in Nat /\ Square \in Nat /\ Pow2[BITS + Room] \in Nat
  BY GivenRanges
<1>4. ManMod \in Nat /\ ManMod >= 4 /\ ManMod = 2 * Implicit /\ Implicit \in Nat
  BY FpuSizes
<1>5. s \in Nat /\ (n.man = 2 * s \/ n.man = 2 * s + 1)
  <2>1. \A i \in Nat : i \div 2 \in Nat /\ (i = 2 * (i \div 2) \/ i = 2 * (i \div 2) + 1)
    OBVIOUS
  <2> QED BY <2>1
<1>6. s >= Implicit
  <2> HIDE DEF s
  <2> QED BY <1>4, <1>5
<1> HIDE DEF c, s
<1>7. g \in Nat /\ g <= h /\ g >= h - p
  <2>1. (2 * s) * p = g /\ (2 * s + 1) * p = g + p /\ g \in Nat
    <3> HIDE DEF p
    <3> QED BY <1>2, <1>5
  <2>2. h = g \/ h = g + p
    BY <1>5, <2>1
  <2> HIDE DEF g, h, p
  <2> QED BY <1>2, <2>1, <2>2
<1>8. g >= ManMod
  <2>1. s * (2 * p) >= s * 2
    <3> HIDE DEF p
    <3>1. 2 <= 2 * p
      BY <1>2
    <3>2. \A i, j, k \in Nat : j <= k => i * j <= i * k
      <4> SUFFICES ASSUME NEW i \in Nat, NEW j \in Nat, NEW k \in Nat, j <= k PROVE i * j <= i * k
        OBVIOUS
      <4>1. j * i <= k * i
        BY ScaledWithin
      <4> QED BY <4>1
    <3>3. 2 * p \in Nat
      BY <1>2
    <3> QED BY <1>5, <3>1, <3>2, <3>3
  <2> HIDE DEF g
  <2> QED BY <1>4, <1>5, <1>6, <1>7, <2>1 DEF g
<1>9. gs \in Nat /\ gs <= hs /\ gs >= hs - ps /\ (2 * p) * Square = 2 * ps
  <2>1. g * Square <= h * Square /\ (h - p) * Square <= g * Square
    <3> HIDE DEF g, h, p
    <3> QED BY <1>2, <1>3, <1>7, ScaledWithin
  <2>2. (h - p) * Square = hs - ps /\ (2 * p) * Square = 2 * ps
    <3> HIDE DEF h, p
    <3> QED BY <1>2, <1>3
  <2>3. gs \in Nat
    <3>1. \A i, j \in Nat : i * j \in Nat
      OBVIOUS
    <3> HIDE DEF g
    <3> QED BY <1>3, <1>7, <3>1
  <2> QED BY <2>1, <2>2, <2>3
<1>10. -(Lost + ps) <= hs - Exact /\ hs - Exact <= Lost + ps
  <2>1. Magnitude(hs - Exact) <= Lost + ps
    <3>1. ~ (n.man < Implicit)
      BY <1>4
    <3> QED BY <3>1 DEF NearResult
  <2>2. hs - Exact \in Int /\ Lost + ps \in Int
    <3> HIDE DEF hs, ps
    <3> QED BY <1>2, <1>3
  <2> HIDE DEF hs, ps
  <2> QED BY <2>1, <2>2, WithinMagnitude
<1>11. Magnitude(gs - Exact) <= Lost + 2 * ps
  <2> HIDE DEF gs, hs, ps
  <2>1. gs - Exact \in Int /\ Lost + 2 * ps \in Int
    BY <1>2, <1>3, <1>9
  <2>2. -(Lost + 2 * ps) <= gs - Exact /\ gs - Exact <= Lost + 2 * ps
    BY <1>2, <1>3, <1>9, <1>10
  <2> QED BY <2>1, <2>2, WithinMagnitude
<1>12. c.man * Pow2[c.exp] = g /\ Pow2[c.exp] * Square = 2 * ps /\ ~ (c.man < Implicit)
  BY <1>1, <1>4, <1>5, <1>6, <1>9
<1>13. g < Pow2[BITS + Room]
  <2>1. h < Pow2[BITS + Room]
    BY DEF NearResult
  <2> HIDE DEF g, h
  <2> QED BY <1>2, <1>3, <1>7, <2>1
<1>14. c.sgn = 0
  BY <1>1 DEF NearResult
<1> HIDE DEF g
<1>15. NearResult(c)
  BY <1>8, <1>11, <1>12, <1>13, <1>14 DEF NearResult
<1> QED BY <1>15 DEF c, s

\* A shift to the left loses nothing.
LEMMA ShiftUpIsNear ==
  ASSUME Given, NEW n, n.man \in Nat, n.exp \in Nat, NearResult(n), n.man # 0, n.man < Implicit
  PROVE  NearResult(Number(n.sgn, n.exp - 1, 2 * n.man)) /\ n.exp >= 1
<1> DEFINE c == Number(n.sgn, n.exp - 1, 2 * n.man)
           p == Pow2[n.exp]
           h == n.man * p
           hs == h * Square
           es == Pow2[c.exp] * Square
<1>1. h \in Nat /\ hs \in Nat /\ (n.man # 0 /\ n.man < ManMod => n.exp >= 1)
  BY NearBounds
<1>2. Exact \in Int /\ Lost \in Nat /\ Square \in Nat /\ Pow2[BITS + Room] \in Nat
  BY GivenRanges
<1>3. ManMod \in Nat /\ ManMod = 2 * Implicit /\ Implicit \in Nat
  BY FpuSizes
<1>4. n.exp >= 1
  BY <1>1, <1>3
<1>5. /\ c.sgn = n.sgn /\ c.exp = n.exp - 1 /\ c.man = 2 * n.man
      /\ Pow2[c.exp] \in Nat /\ p = 2 * Pow2[c.exp]
  BY <1>4, Pow2Halves DEF Number
<1> HIDE DEF c
<1>6. c.man * Pow2[c.exp] = h
  BY <1>5
<1>7. es \in Nat
  <2>1. \A i, j \in Nat : i * j \in Nat
    OBVIOUS
  <2> QED BY <1>2, <1>5, <2>1
<1>8. Magnitude(hs - Exact) <= Lost + 0
  BY DEF NearResult
<1>9. Magnitude(hs - Exact) <= Lost + (IF c.man < Implicit THEN 0 ELSE es)
  <2>1. hs - Exact \in Int
    <3> HIDE DEF hs
    <3> QED BY <1>1, <1>2
  <2>2. Magnitude(hs - Exact) \in Int
    <3> HIDE DEF hs
    <3> QED BY <2>1 DEF Magnitude
  <2> HIDE DEF hs, es
  <2> QED BY <1>2, <1>7, <1>8, <2>2
<1>10. h >= ManMod /\ h < Pow2[BITS + Room] /\ n.sgn = 0
  BY DEF NearResult
<1> HIDE DEF h
<1>11. NearResult(c)
  BY <1>5, <1>6, <1>9, <1>10 DEF NearResult
<1> QED BY <1>4, <1>11 DEF c

\* Zero has no exponent.
LEMMA ZeroIsNear ==
  ASSUME Given, NEW n, n.man = 0, n.exp \in Nat, NearResult(n)
  PROVE  NearResult(Number(n.sgn, 0, 0))
<1> DEFINE c == Number(n.sgn, 0, 0)
<1>1. c.sgn = n.sgn /\ c.exp = 0 /\ c.man = 0
  BY DEF Number
<1>2. /\ Pow2[n.exp] \in Nat /\ Pow2[0] \in Nat /\ Implicit \in Nat /\ Implicit >= 2 /\ Square \in Nat
  BY Pow2Unfolds, FpuSizes, GivenRanges
<1>3. n.man * Pow2[n.exp] = 0 /\ c.man * Pow2[c.exp] = 0 /\ n.man < Implicit /\ c.man < Implicit
  BY <1>1, <1>2
<1> HIDE DEF c
<1>4. NearResult(c)
  BY <1>1, <1>3 DEF NearResult
<1> QED BY <1>4 DEF c

-----------------------------------------------------------------------------
(* A dsqa, edge by edge.                                                   *)

\* An edge at which the adder is not asked.
LEMMA AdderRests ==
  ASSUME ~ fpu.sd_cs, sumdiff.state = "IDLE"
  PROVE  Sumdiff = sumdiff
BY DEF Sumdiff, sd_ready

LEMMA AdderReturns ==
  ASSUME fpu.sd_cs, sumdiff.state = "DONE", FpuTypes
  PROVE  Sumdiff.state = "IDLE"
<1>1. Sumdiff = [sumdiff EXCEPT !.state = "IDLE"]
  BY DEF Sumdiff, sd_ready
<1> QED BY <1>1 DEF FpuTypes, SumdiffRegs

LEMMA UnitRecord ==
  ASSUME FpuTypes
  PROVE  /\ fpu = [state |-> fpu.state, sd_cs |-> fpu.sd_cs, sd |-> fpu.sd,
                   a |-> fpu.a, b |-> fpu.b, c |-> fpu.c, d |-> fpu.d]
         /\ fpu.a = Number(fpu.a.sgn, fpu.a.exp, fpu.a.man)
         /\ fpu.b = Number(fpu.b.sgn, fpu.b.exp, fpu.b.man)
         /\ fpu.c = Number(fpu.c.sgn, fpu.c.exp, fpu.c.man)
         /\ fpu.a.man \in Nat /\ fpu.b.man \in Nat /\ fpu.c.man \in Nat /\ fpu.c.exp \in Nat
         /\ fpu.a.man < Pow2[2 * BITS] /\ fpu.c.man < Pow2[2 * BITS]
<1>1. /\ fpu = [state |-> fpu.state, sd_cs |-> fpu.sd_cs, sd |-> fpu.sd,
                a |-> fpu.a, b |-> fpu.b, c |-> fpu.c, d |-> fpu.d]
      /\ fpu.a \in Wides /\ fpu.b \in Narrows /\ fpu.c \in Wides
  BY DEF FpuTypes, FpuRegs
<1>2. /\ fpu.a = Number(fpu.a.sgn, fpu.a.exp, fpu.a.man) /\ fpu.a.man \in 0..(Pow2[2 * BITS] - 1)
      /\ fpu.b = Number(fpu.b.sgn, fpu.b.exp, fpu.b.man) /\ fpu.b.man \in 0..(Pow2[BITS] - 1)
      /\ fpu.c = Number(fpu.c.sgn, fpu.c.exp, fpu.c.man) /\ fpu.c.man \in 0..(Pow2[2 * BITS] - 1)
      /\ fpu.c.exp \in 0..(ExpMod - 1)
  <2>1. fpu.a = Number(fpu.a.sgn, fpu.a.exp, fpu.a.man) /\ fpu.a.man \in 0..(Pow2[2 * BITS] - 1)
    BY <1>1 DEF Wides, Numbers, Number, ExpMod
  <2>2. fpu.b = Number(fpu.b.sgn, fpu.b.exp, fpu.b.man) /\ fpu.b.man \in 0..(Pow2[BITS] - 1)
    BY <1>1 DEF Narrows, Numbers, Number, ExpMod
  <2>3. /\ fpu.c = Number(fpu.c.sgn, fpu.c.exp, fpu.c.man) /\ fpu.c.man \in 0..(Pow2[2 * BITS] - 1)
        /\ fpu.c.exp \in 0..(ExpMod - 1)
    BY <1>1 DEF Wides, Numbers, Number, ExpMod
  <2> QED BY <2>1, <2>2, <2>3
<1>3. Pow2[2 * BITS] \in Nat /\ Pow2[BITS] \in Nat /\ ExpMod \in Nat
  BY Widths, FpuSizes
<1> QED BY <1>1, <1>2, <1>3

\* The shift and add of the multiplication.
LEMMA MultiplyStep ==
  ASSUME FpuTypes, NEW k \in Nat, k < Pow2[2 * BITS],
         fpu.c.man + fpu.a.man * fpu.b.man = k
  PROVE  /\ fpu.b.man \div 2 = 0 => FpuMul.c.man = k
         /\ FpuMul.c.man + FpuMul.a.man * FpuMul.b.man = k
<1> DEFINE a == fpu.a.man
           b == fpu.b.man
           c == fpu.c.man
           h == b \div 2
           g == b % 2
           W == Pow2[2 * BITS]
<1>1. a \in Nat /\ b \in Nat /\ c \in Nat /\ a < W /\ c < W /\ W \in Nat
  BY UnitRecord, Widths
<1>2. h \in Nat /\ g \in {0, 1} /\ b = 2 * h + g
  <2>1. \A i \in Nat : i \div 2 \in Nat /\ i % 2 \in {0, 1} /\ i = 2 * (i \div 2) + (i % 2)
    OBVIOUS
  <2> QED BY <1>1, <2>1
<1>3. a * b = 2 * (a * h) + a * g /\ a * h \in Nat /\ a * g \in Nat /\ (g = 0 => a * g = 0) /\ (g = 1 => a * g = a)
  <2>1. \A i, j \in Nat : \A l \in {0, 1} : i * (2 * j + l) = 2 * (i * j) + i * l /\ i * j \in Nat
        /\ i * l = IF l = 0 THEN 0 ELSE i
    OBVIOUS
  <2> HIDE DEF a, b, h, g
  <2>2. a * b = a * (2 * h + g)
    BY <1>2
  <2> QED BY <1>1, <1>2, <2>1, <2>2
<1>4. \A i \in 0..(W - 1) : Wide(i) = i
  BY CutOff
<1>5. FpuMul.c.man = (IF g = 1 THEN Wide(c + a) ELSE c) /\ FpuMul.a.man = Wide(2 * a) /\ FpuMul.b.man = h
  BY UnitRecord DEF FpuMul, Number
<1>6. c + a * b = k
  OBVIOUS
<1> DEFINE ah == a * h
<1>7. c + (2 * ah + (IF g = 1 THEN a ELSE 0)) = k
  <2>1. a * b = 2 * ah + (IF g = 1 THEN a ELSE 0)
    BY <1>2, <1>3
  <2> QED BY <1>6, <2>1
<1>8. ah \in Nat
  BY <1>3
<1>9. FpuMul.c.man = c + (IF g = 1 THEN a ELSE 0)
  <2>1. CASE g = 1
    <3>1. c + a \in 0..(W - 1)
      <4> HIDE DEF a, b, c, g, h, ah, W
      <4> QED BY <1>1, <1>7, <1>8, <2>1 DEF W
    <3> HIDE DEF a, b, c, g, h, ah, W
    <3> QED BY <1>4, <1>5, <2>1, <3>1
  <2>2. CASE g # 1
    <3> HIDE DEF a, b, c, g, h, ah, W
    <3> QED BY <1>1, <1>5, <2>2
  <2> QED BY <2>1, <2>2
<1>10. CASE h = 0
  <2>1. ah = 0
    <3> HIDE DEF a, h
    <3> QED BY <1>1, <1>10
  <2>2. FpuMul.c.man = k
    <3> HIDE DEF a, b, c, g, h, ah
    <3> QED BY <1>1, <1>7, <1>9, <2>1
  <2>3. Wide(2 * a) \in Nat /\ \A i \in Nat : i * 0 = 0
    <3>1. 2 * a \in Int
      BY <1>1
    <3>2. Wide(2 * a) \in 0..(W - 1)
      BY <3>1, CutOff
    <3> QED BY <1>1, <3>2
  <2>4. FpuMul.a.man * FpuMul.b.man = 0
    <3> HIDE DEF a, h
    <3> QED BY <1>5, <1>10, <2>3
  <2> HIDE DEF h
  <2> QED BY <2>2, <2>4
<1>11. CASE h # 0
  <2>1. a <= ah
    <3>1. \A i, j \in Nat : j # 0 => i <= i * j
      OBVIOUS
    <3> HIDE DEF a, h
    <3> QED BY <1>1, <1>2, <1>11, <3>1
  <2>2. 2 * a \in 0..(W - 1)
    <3> HIDE DEF a, b, c, g, h, ah, W
    <3> QED BY <1>1, <1>7, <1>8, <2>1 DEF W
  <2>3. FpuMul.a.man = 2 * a
    <3> HIDE DEF a, b, c, g, h, ah, W
    <3> QED BY <1>4, <1>5, <2>2
  <2>4. FpuMul.a.man * FpuMul.b.man = 2 * ah
    <3>1. \A i, j \in Nat : (2 * i) * j = 2 * (i * j)
      OBVIOUS
    <3> HIDE DEF a, h
    <3> QED BY <1>1, <1>2, <1>5, <2>3, <3>1
  <2>5. FpuMul.c.man + FpuMul.a.man * FpuMul.b.man = k
    <3> DEFINE z == FpuMul.a.man * FpuMul.b.man
    <3>1. z = 2 * ah
      BY <2>4
    <3>2. FpuMul.c.man + z = k
      <4> HIDE DEF a, b, c, g, h, ah, z
      <4> QED BY <1>1, <1>7, <1>8, <1>9, <3>1
    <3> QED BY <3>2
  <2> HIDE DEF h
  <2> QED BY <1>11, <2>5 DEF h
<1> QED BY <1>10, <1>11

\* The core asks, the unit starts.
LEMMA AskedStep ==
  ASSUME FpuTypes, UnitAt(fpu, sumdiff), fpu.state = "IDLE"
  PROVE  UnitAt(Fpu(TRUE), Sumdiff)
<1>1. ~ fpu.sd_cs /\ sumdiff.state = "IDLE"
  BY DEF UnitAt
<1>2. Sumdiff = sumdiff
  BY <1>1, AdderRests
<1>3. fpu \in FpuRegs
  BY DEF FpuTypes
<1>4. Fpu(TRUE) = [fpu EXCEPT !.state = "IMPCT", !.a = f1, !.b = f2, !.c = Zero, !.d = acc]
  BY DEF Fpu
<1>5. /\ Fpu(TRUE).state = "IMPCT" /\ Fpu(TRUE).sd_cs = fpu.sd_cs
      /\ Fpu(TRUE).a = f1 /\ Fpu(TRUE).b = f2 /\ Fpu(TRUE).c = Zero /\ Fpu(TRUE).d = acc
  BY <1>3, <1>4 DEF FpuRegs
<1> QED BY <1>1, <1>2, <1>5 DEF UnitAt

LEMMA ImplicitStep ==
  ASSUME FpuTypes, UnitAt(fpu, sumdiff), fpu.state = "IMPCT"
  PROVE  UnitAt(Fpu(TRUE), Sumdiff)
<1>1. /\ ~ fpu.sd_cs /\ sumdiff.state = "IDLE"
      /\ fpu.a = f1 /\ fpu.b = f2 /\ fpu.c = Zero /\ fpu.d = acc
  BY DEF UnitAt
<1>2. Sumdiff = sumdiff
  BY <1>1, AdderRests
<1>3. fpu \in FpuRegs
  BY DEF FpuTypes
<1>4. Fpu(TRUE) = [fpu EXCEPT !.state = "SD_AB", !.sd_cs = TRUE, !.sd = "AB",
                     !.a = WithImplicit(@), !.b = WithImplicit(@), !.d = WithImplicit(@)]
  BY DEF Fpu
<1>5. /\ Fpu(TRUE).state = "SD_AB" /\ Fpu(TRUE).sd_cs = TRUE /\ Fpu(TRUE).sd = "AB"
      /\ Fpu(TRUE).a = WithImplicit(f1) /\ Fpu(TRUE).b = WithImplicit(f2)
      /\ Fpu(TRUE).c = Zero /\ Fpu(TRUE).d = WithImplicit(acc)
  BY <1>1, <1>3, <1>4 DEF FpuRegs
<1>6. \A x, y : AdderAt(sumdiff, x, y)
  BY <1>1 DEF AdderAt
<1> QED BY <1>2, <1>5, <1>6 DEF UnitAt

\* The difference is awaited, or there.
LEMMA DifferenceStep ==
  ASSUME FpuTypes, Given, UnitAt(fpu, sumdiff), fpu.state = "SD_AB"
  PROVE  UnitAt(Fpu(TRUE), Sumdiff)
<1> DEFINE x == WithImplicit(f1)
           y == Negated(WithImplicit(f2))
<1>1. /\ fpu.sd_cs /\ fpu.d = WithImplicit(acc) /\ fpu.sd = "AB"
      /\ fpu.a = x /\ fpu.b = WithImplicit(f2) /\ fpu.c = Zero
      /\ AdderAt(sumdiff, x, y)
  BY DEF UnitAt
<1>2. CASE ~ sd_ready
  <2>1. SD_x = x /\ SD_y = y
    BY <1>1 DEF SD_x, SD_y, Negated
  <2>2. Fits(x, y)
    BY InputsFit DEF Given
  <2> HIDE DEF x, y
  <2>3. AdderAt(Sumdiff, x, y)
    BY <1>1, <2>1, <2>2, AdderStep
  <2>4. Fpu(TRUE) = fpu
    BY <1>2 DEF Fpu
  <2> QED BY <1>1, <2>3, <2>4 DEF UnitAt, x, y
<1>3. CASE sd_ready
  <2>1. sumdiff.state = "DONE" /\ sumdiff.r = Difference
    BY <1>1, <1>3 DEF sd_ready, AdderAt, Difference
  <2>2. Sumdiff.state = "IDLE"
    BY <1>1, <2>1, AdderReturns
  <2>3. Narrow(Difference.man) = Difference.man
    <3>1. Difference.man \in Nat /\ Difference.man < ManMod /\ ManMod \in Nat
      BY DifferenceIsNear, FpuSizes DEF Given
    <3>2. Difference.man \in 0..(Pow2[BITS] - 1)
      BY <3>1 DEF ManMod
    <3> QED BY <3>2, CutOff
  <2>4. Fpu(TRUE) =
         [fpu EXCEPT !.state = "EXP", !.sd_cs = FALSE, !.a.man = sumdiff.r.man,
                     !.b.man = Narrow(sumdiff.r.man), !.c.exp = sumdiff.r.exp]
    BY <1>3 DEF Fpu
  <2>5. fpu \in FpuRegs /\ fpu.a \in Wides /\ fpu.b \in Narrows
    BY DEF FpuTypes, FpuRegs
  <2>6. /\ Fpu(TRUE).state = "EXP" /\ ~ Fpu(TRUE).sd_cs /\ Fpu(TRUE).d = fpu.d
        /\ Fpu(TRUE).a = [fpu.a EXCEPT !.man = sumdiff.r.man]
        /\ Fpu(TRUE).b = [fpu.b EXCEPT !.man = Narrow(sumdiff.r.man)]
        /\ Fpu(TRUE).c = [fpu.c EXCEPT !.exp = sumdiff.r.exp]
    BY <2>4, <2>5 DEF FpuRegs
  <2>7. Fpu(TRUE).a.man = Difference.man /\ Fpu(TRUE).b.man = Difference.man
    BY <2>1, <2>3, <2>5, <2>6 DEF Wides, Narrows, Numbers
  <2>8. Fpu(TRUE).c = Number(0, Difference.exp, 0)
    <3>1. \A e : [Zero EXCEPT !.exp = e] = Number(0, e, 0)
      BY DEF Zero, Number
    <3> QED BY <1>1, <2>1, <2>6, <3>1
  <2> QED BY <1>1, <2>2, <2>6, <2>7, <2>8 DEF UnitAt
<1> QED BY <1>2, <1>3

\* The exponent of the square: it does not leave its range.
LEMMA ExponentStep ==
  ASSUME FpuTypes, Given, UnitAt(fpu, sumdiff), fpu.state = "EXP"
  PROVE  UnitAt(Fpu(TRUE), Sumdiff)
<1>1. /\ ~ fpu.sd_cs /\ sumdiff.state = "IDLE" /\ fpu.d = WithImplicit(acc)
      /\ fpu.a.man = Difference.man /\ fpu.b.man = Difference.man
      /\ fpu.c = Number(0, Difference.exp, 0)
  BY DEF UnitAt
<1>2. Sumdiff = sumdiff
  BY <1>1, AdderRests
<1>3. fpu \in FpuRegs
  BY DEF FpuTypes
<1>4. Exp(2 * Difference.exp - (Bias + BITS - 1)) = Product.exp
  <2>1. Product.exp \in Nat /\ Product.exp = 2 * Difference.exp - (Bias + BITS - 1)
    BY ProductIsSquare DEF Given
  <2>2. Product.exp + BITS + 1 <= Room /\ Room < ExpMod /\ Room \in Nat
    BY RoomIsLeft
  <2>3. BITS \in Nat /\ ExpMod \in Nat
    BY FpuSizes
  <2>4. Product.exp \in 0..(Pow2[EXP_BITS] - 1)
    BY <2>1, <2>2, <2>3 DEF ExpMod
  <2> QED BY <2>1, <2>4, CutOff
<1>5. Fpu(TRUE) = [fpu EXCEPT !.state = "MUL", !.c.exp = Exp(2 * @ - (Bias + BITS - 1))]
  BY DEF Fpu
<1>6. /\ Fpu(TRUE).state = "MUL" /\ Fpu(TRUE).sd_cs = fpu.sd_cs /\ Fpu(TRUE).d = fpu.d
      /\ Fpu(TRUE).a = fpu.a /\ Fpu(TRUE).b = fpu.b
      /\ Fpu(TRUE).c = [fpu.c EXCEPT !.exp = Exp(2 * fpu.c.exp - (Bias + BITS - 1))]
  BY <1>3, <1>5 DEF FpuRegs
<1>7. Fpu(TRUE).c = Number(0, Product.exp, 0)
  <2>1. Fpu(TRUE).c = Number(0, Exp(2 * Difference.exp - (Bias + BITS - 1)), 0)
    <3>1. \A d, e : [Number(0, d, 0) EXCEPT !.exp = e] = Number(0, e, 0) /\ Number(0, d, 0).exp = d
      BY DEF Number
    <3>2. fpu.c.exp = Difference.exp
      BY <1>1, <3>1
    <3>3. Fpu(TRUE).c = [Number(0, Difference.exp, 0) EXCEPT !.exp = Exp(2 * Difference.exp - (Bias + BITS - 1))]
      BY <1>1, <1>6, <3>2
    <3> QED BY <3>1, <3>3
  <2> QED BY <1>4, <2>1
<1>8. 0 + Difference.man * Difference.man = Product.man
  BY ProductIsSquare DEF Given
<1>9. Fpu(TRUE).c.sgn = 0 /\ Fpu(TRUE).c.exp = Product.exp /\ Fpu(TRUE).c.man = 0
  <2>1. \A e : Number(0, e, 0).sgn = 0 /\ Number(0, e, 0).exp = e /\ Number(0, e, 0).man = 0
    BY DEF Number
  <2> QED BY <1>7, <2>1
<1>10. Fpu(TRUE).c.man + Fpu(TRUE).a.man * Fpu(TRUE).b.man = Product.man
  BY <1>1, <1>6, <1>8, <1>9
<1> QED BY <1>1, <1>2, <1>6, <1>9, <1>10 DEF UnitAt

LEMMA ProductStep ==
  ASSUME FpuTypes, Given, UnitAt(fpu, sumdiff), fpu.state = "MUL"
  PROVE  UnitAt(Fpu(TRUE), Sumdiff)
<1>1. /\ ~ fpu.sd_cs /\ sumdiff.state = "IDLE" /\ fpu.d = WithImplicit(acc)
      /\ fpu.c.sgn = 0 /\ fpu.c.exp = Product.exp
      /\ fpu.c.man + fpu.a.man * fpu.b.man = Product.man
  BY DEF UnitAt
<1>2. Sumdiff = sumdiff
  BY <1>1, AdderRests
<1>3. fpu \in FpuRegs /\ fpu.c \in Wides
  BY DEF FpuTypes, FpuRegs
<1>4. Fpu(TRUE) = FpuMul
  BY DEF Fpu
<1>5. Product.man \in Nat /\ Product.man < Pow2[2 * BITS]
  <2>1. Product.man \in Nat /\ Product.man + 0 < Pow2[2 * BITS]
    <3>1. 0 \in Nat /\ 0 < ManMod
      BY FpuSizes
    <3> QED BY <3>1, ProductIsSquare DEF Given
  <2> QED BY <2>1
<1>6. /\ fpu.b.man \div 2 = 0 => FpuMul.c.man = Product.man
      /\ FpuMul.c.man + FpuMul.a.man * FpuMul.b.man = Product.man
  BY <1>1, <1>5, MultiplyStep
<1>7. /\ FpuMul.state = (IF fpu.b.man \div 2 = 0 THEN "SD_CD" ELSE "MUL")
      /\ FpuMul.sd_cs = (fpu.b.man \div 2 = 0) /\ FpuMul.d = fpu.d
      /\ fpu.b.man \div 2 = 0 => FpuMul.sd = "CD"
      /\ FpuMul.c = [fpu.c EXCEPT !.man = IF fpu.b.man % 2 = 1 THEN Wide(@ + fpu.a.man) ELSE @]
  BY <1>3 DEF FpuMul, FpuRegs
<1>8. FpuMul.c = Number(0, Product.exp, FpuMul.c.man)
  <2> DEFINE m == IF fpu.b.man % 2 = 1 THEN Wide(fpu.c.man + fpu.a.man) ELSE fpu.c.man
  <2>1. FpuMul.c = [fpu.c EXCEPT !.man = m]
    BY <1>7
  <2> HIDE DEF m
  <2> QED BY <1>1, <1>3, <2>1 DEF Wides, Numbers, Number
<1>9. CASE fpu.b.man \div 2 = 0
  <2>1. FpuMul.c = Product
    <3>1. Product = Number(0, Product.exp, Product.man)
      BY DEF Product, Number
    <3> QED BY <1>6, <1>8, <1>9, <3>1
  <2>2. AdderAt(sumdiff, Product, WithImplicit(acc))
    BY <1>1 DEF AdderAt
  <2> QED BY <1>1, <1>2, <1>4, <1>7, <1>9, <2>1, <2>2 DEF UnitAt
<1>10. CASE fpu.b.man \div 2 # 0
  <2>1. FpuMul.c.sgn = 0 /\ FpuMul.c.exp = Product.exp
    BY <1>8, NumberFields
  <2> QED BY <1>1, <1>2, <1>4, <1>6, <1>7, <1>10, <2>1 DEF UnitAt
<1> QED BY <1>9, <1>10

\* The sum with the accumulator is awaited, or there.
LEMMA SumStep ==
  ASSUME FpuTypes, Given, UnitAt(fpu, sumdiff), fpu.state = "SD_CD"
  PROVE  UnitAt(Fpu(TRUE), Sumdiff)
<1> DEFINE y == WithImplicit(acc)
<1>1. /\ fpu.sd_cs /\ fpu.d = y /\ fpu.sd = "CD" /\ fpu.c = Product
      /\ AdderAt(sumdiff, Product, y)
  BY DEF UnitAt
<1>2. CASE ~ sd_ready
  <2>1. SD_x = Product /\ SD_y = y
    BY <1>1 DEF SD_x, SD_y
  <2>2. Fits(Product, y)
    BY AccumulatorFits
  <2> HIDE DEF y
  <2>3. AdderAt(Sumdiff, Product, y)
    BY <1>1, <2>1, <2>2, AdderStep
  <2>4. Fpu(TRUE) = fpu
    BY <1>2 DEF Fpu
  <2> QED BY <1>1, <2>3, <2>4 DEF UnitAt, y
<1>3. CASE sd_ready
  <2>1. sumdiff.state = "DONE" /\ sumdiff.r = Total
    BY <1>1, <1>3 DEF sd_ready, AdderAt, Total
  <2>2. Sumdiff.state = "IDLE"
    BY <1>1, <2>1, AdderReturns
  <2>3. NearResult(Total)
    BY TotalIsNear
  <2>4. Fpu(TRUE) = [fpu EXCEPT !.state = "NORM", !.sd_cs = FALSE, !.c = sumdiff.r]
    BY <1>3 DEF Fpu
  <2>5. fpu \in FpuRegs
    BY DEF FpuTypes
  <2>6. Fpu(TRUE).state = "NORM" /\ ~ Fpu(TRUE).sd_cs /\ Fpu(TRUE).c = Total
    BY <2>1, <2>4, <2>5 DEF FpuRegs
  <2> QED BY <2>2, <2>3, <2>6 DEF UnitAt
<1> QED BY <1>2, <1>3

\* The mantissa is brought to its range, the exponent follows without leaving its own.
LEMMA NormStep ==
  ASSUME FpuTypes, Given, UnitAt(fpu, sumdiff), fpu.state = "NORM"
  PROVE  UnitAt(Fpu(TRUE), Sumdiff)
<1> DEFINE n == fpu.c
<1>1. ~ fpu.sd_cs /\ sumdiff.state = "IDLE" /\ NearResult(n)
  BY DEF UnitAt
<1>2. Sumdiff = sumdiff
  BY <1>1, AdderRests
<1>3. fpu \in FpuRegs /\ fpu.c \in Wides
  BY DEF FpuTypes, FpuRegs
<1>4. Fpu(TRUE) = FpuNorm
  BY DEF Fpu
<1>5. n.man \in Nat /\ n.exp \in Nat /\ n.exp \in 0..(ExpMod - 1) /\ n = Number(n.sgn, n.exp, n.man)
  BY <1>3, Widths, FpuSizes DEF Wides, Numbers, ExpMod, Number
<1>6. Pow2[BITS] = ManMod /\ ManMod \in Nat /\ Implicit \in Nat /\ ManMod = 2 * Implicit /\ Implicit >= 2
  BY FpuSizes DEF ManMod
<1>7. CASE n.man = 0
  <2>1. FpuNorm = [fpu EXCEPT !.state = "DONE", !.c.exp = 0]
    <3>1. \A m \in Nat : m >= 2 => ~ (0 >= 2 * m) /\ ~ (0 \in 1..(m - 1))
      OBVIOUS
    <3>2. ~ (fpu.c.man >= Pow2[BITS]) /\ ~ (fpu.c.man \in 1..(Implicit - 1))
      BY <1>6, <1>7, <3>1
    <3> QED BY <1>7, <3>2 DEF FpuNorm
  <2>2. FpuNorm.state = "DONE" /\ ~ FpuNorm.sd_cs /\ FpuNorm.c = [n EXCEPT !.exp = 0]
    BY <1>1, <1>3, <2>1 DEF FpuRegs
  <2>3. FpuNorm.c = Number(n.sgn, 0, 0)
    BY <1>3, <1>7, <2>2 DEF Wides, Numbers, Number
  <2> HIDE DEF n
  <2>4. NearResult(FpuNorm.c)
    BY <1>1, <1>5, <1>7, <2>3, ZeroIsNear
  <2>5. Finished(FpuNorm.c)
    BY <2>3, NumberFields DEF Finished
  <2> QED BY <1>1, <1>2, <1>4, <2>2, <2>4, <2>5 DEF UnitAt
<1>8. CASE n.man >= ManMod
  <2>1. FpuNorm = [fpu EXCEPT !.c = Number(@.sgn, Exp(@.exp + 1), @.man \div 2)]
    <3>1. n.man # 0 /\ n.man >= Pow2[BITS] /\ ~ (n.man \in 1..(Implicit - 1))
      <4> HIDE DEF n
      <4> QED BY <1>5, <1>6, <1>8
    <3> QED BY <3>1 DEF FpuNorm
  <2>2. /\ FpuNorm.state = "NORM" /\ ~ FpuNorm.sd_cs
        /\ FpuNorm.c = Number(n.sgn, Exp(n.exp + 1), n.man \div 2)
    BY <1>1, <1>3, <2>1 DEF FpuRegs
  <2> HIDE DEF n
  <2>3. Exp(n.exp + 1) = n.exp + 1
    <3>1. n.exp + 1 <= Room
      BY <1>1, <1>5, <1>8, NearBounds
    <3>2. n.exp + 1 \in 0..(Pow2[EXP_BITS] - 1)
      BY <1>5, <3>1, RoomIsLeft, FpuSizes DEF ExpMod
    <3> QED BY <3>2, CutOff
  <2>4. NearResult(FpuNorm.c)
    BY <1>1, <1>5, <1>8, <2>2, <2>3, ShiftDownIsNear
  <2> QED BY <1>1, <1>2, <1>4, <2>2, <2>4 DEF UnitAt
<1>9. CASE n.man # 0 /\ n.man < Implicit
  <2>1. FpuNorm = [fpu EXCEPT !.c = Number(@.sgn, Exp(@.exp - 1), 2 * @.man)]
    <3>1. n.man # 0 /\ ~ (n.man >= Pow2[BITS]) /\ n.man \in 1..(Implicit - 1)
      <4> HIDE DEF n
      <4> QED BY <1>5, <1>6, <1>9
    <3> QED BY <3>1 DEF FpuNorm
  <2>2. /\ FpuNorm.state = "NORM" /\ ~ FpuNorm.sd_cs
        /\ FpuNorm.c = Number(n.sgn, Exp(n.exp - 1), 2 * n.man)
    BY <1>1, <1>3, <2>1 DEF FpuRegs
  <2> HIDE DEF n
  <2>3. NearResult(Number(n.sgn, n.exp - 1, 2 * n.man)) /\ n.exp >= 1
    BY <1>1, <1>5, <1>9, ShiftUpIsNear
  <2>4. Exp(n.exp - 1) = n.exp - 1
    <3>1. n.exp - 1 \in 0..(Pow2[EXP_BITS] - 1)
      BY <1>5, <2>3, FpuSizes DEF ExpMod
    <3> QED BY <3>1, CutOff
  <2> QED BY <1>1, <1>2, <1>4, <2>2, <2>3, <2>4 DEF UnitAt
<1>10. CASE n.man >= Implicit /\ n.man < ManMod
  <2>1. FpuNorm = [fpu EXCEPT !.state = "DONE"]
    <3>1. n.man # 0 /\ ~ (n.man >= Pow2[BITS]) /\ ~ (n.man \in 1..(Implicit - 1))
      <4> HIDE DEF n
      <4> QED BY <1>5, <1>6, <1>10
    <3> QED BY <3>1 DEF FpuNorm
  <2>2. FpuNorm.state = "DONE" /\ ~ FpuNorm.sd_cs /\ FpuNorm.c = n
    BY <1>1, <1>3, <2>1 DEF FpuRegs
  <2> HIDE DEF n
  <2>3. Finished(n)
    BY <1>5, <1>6, <1>10 DEF Finished
  <2> QED BY <1>1, <1>2, <1>4, <2>2, <2>3 DEF UnitAt
<1>11. n.man = 0 \/ n.man >= ManMod \/ (n.man # 0 /\ n.man < Implicit) \/ (n.man >= Implicit /\ n.man < ManMod)
  <2> DEFINE m == n.man
  <2>1. m \in Nat
    BY <1>5
  <2> HIDE DEF m
  <2>2. m = 0 \/ m >= ManMod \/ (m # 0 /\ m < Implicit) \/ (m >= Implicit /\ m < ManMod)
    BY <1>6, <2>1
  <2> QED BY <2>2 DEF m
<1> QED BY <1>7, <1>8, <1>9, <1>10, <1>11

\* The core has taken the result.
LEMMA TakenStep ==
  ASSUME FpuTypes, UnitAt(fpu, sumdiff), fpu.state = "DONE"
  PROVE  UnitAt(Fpu(TRUE), Sumdiff) /\ Fpu(TRUE).state = "IDLE"
<1>1. ~ fpu.sd_cs /\ sumdiff.state = "IDLE"
  BY DEF UnitAt
<1>2. Sumdiff = sumdiff
  BY <1>1, AdderRests
<1>3. fpu \in FpuRegs
  BY DEF FpuTypes
<1>4. Fpu(TRUE) = [fpu EXCEPT !.state = "IDLE"]
  BY DEF Fpu
<1>5. Fpu(TRUE).state = "IDLE" /\ ~ Fpu(TRUE).sd_cs
  BY <1>1, <1>3, <1>4 DEF FpuRegs
<1> QED BY <1>1, <1>2, <1>5 DEF UnitAt

\* An edge at which the core asks.
LEMMA UnitStep ==
  ASSUME FpuTypes, Given, UnitAt(fpu, sumdiff)
  PROVE  UnitAt(Fpu(TRUE), Sumdiff)
<1>1. fpu.state \in FpuStates
  BY DEF FpuTypes, FpuRegs
<1> QED BY <1>1, AskedStep, ImplicitStep, DifferenceStep, ExponentStep, ProductStep, SumStep,
           NormStep, TakenStep DEF FpuStates

\* An edge at which the core does not ask an idle unit.
LEMMA UnitRests ==
  ASSUME UnitAt(fpu, sumdiff), fpu.state = "IDLE"
  PROVE  Fpu(FALSE) = fpu /\ Sumdiff = sumdiff
<1>1. ~ fpu.sd_cs /\ sumdiff.state = "IDLE"
  BY DEF UnitAt
<1> QED BY <1>1, AdderRests DEF Fpu

-----------------------------------------------------------------------------
(* The program around it.                                                  *)

\* What is taken of a finished result is the result, with room for the tests that are left.
LEMMA ResultIsNear ==
  ASSUME FpuTypes, Given, NearResult(fpu.c), Finished(fpu.c)
  PROVE  /\ Held(CPR_RDW, Tests - (tests + 1))
         /\ Magnitude(Value(CPR_RDW) * Square - Exact) <= Lost + Pow2[CPR_RDW.exp] * Square
<1> DEFINE n == fpu.c
           r == CPR_RDW
           sq == Pow2[n.exp] * Square
<1>1. n.man \in Nat /\ n.exp \in Nat /\ n.exp \in 0..(ExpMod - 1) /\ n.sgn = 0 /\ n \in Wides
  <2>1. n \in Wides
    BY DEF FpuTypes, FpuRegs
  <2>2. n.sgn = 0
    BY DEF NearResult
  <2> QED BY <2>1, <2>2, Widths, FpuSizes DEF Wides, Numbers, ExpMod
<1>2. r = Number(0, n.exp, n.man % Implicit) /\ r.exp = n.exp /\ r.man = n.man % Implicit /\ r.sgn = 0
  BY <1>1 DEF CPR_RDW, Wides, Numbers, Number
<1>3. Implicit \in Nat /\ Implicit >= 2 /\ ManMod = 2 * Implicit
  BY FpuSizes
<1>4. r \in Stored
  <2>1. n.man % Implicit \in 0..(Implicit - 1)
    BY <1>1, CutOff
  <2> QED BY <1>1, <1>2, <2>1 DEF Stored, Numbers, Number, ExpMod
<1>5. sq \in Nat /\ Exact \in Int /\ Lost \in Nat /\ n.man * Pow2[n.exp] * Square \in Nat
  BY <1>1, NearBounds, GivenRanges
<1>6. CASE n.man = 0 /\ n.exp = 0
  <2>1. n.man % Implicit = 0
    BY <1>3, <1>6
  <2>2. Held(r, Tests - (tests + 1))
    BY <1>2, <1>6, <2>1 DEF Held
  <2>3. WithImplicit(r).man = n.man
    BY <1>2, <1>6, <2>1 DEF WithImplicit
  <2>4. Value(r) = n.man * Pow2[n.exp]
    BY <1>2, <1>4, <2>3, SignedValue
  <2>5. Magnitude(n.man * Pow2[n.exp] * Square - Exact) <= Lost
    <3>1. n.man < Implicit
      BY <1>3, <1>6
    <3>2. Magnitude(n.man * Pow2[n.exp] * Square - Exact) <= Lost + 0
      BY <3>1 DEF NearResult
    <3> QED BY <1>5, <3>2
  <2>6. Magnitude(n.man * Pow2[n.exp] * Square - Exact) <= Lost + sq
    <3> DEFINE m == Magnitude(n.man * Pow2[n.exp] * Square - Exact)
    <3>1. m \in Int /\ m <= Lost
      <4> DEFINE z == n.man * Pow2[n.exp] * Square
      <4>1. z \in Nat
        BY <1>5
      <4> HIDE DEF z
      <4>2. Magnitude(z - Exact) \in Int
        BY <1>5, <4>1 DEF Magnitude
      <4> QED BY <2>5, <4>2 DEF z
    <3> HIDE DEF m, sq
    <3> QED BY <1>5, <3>1 DEF m
  <2> QED BY <1>2, <2>2, <2>4, <2>6
<1>7. CASE n.man \in Implicit..(ManMod - 1)
  <2>1. n.man >= Implicit /\ n.man < ManMod /\ n.man # 0
    BY <1>3, <1>7
  <2>2. n.exp >= 1 /\ n.exp <= Room
    BY <1>1, <2>1, NearBounds
  <2>3. (n.man % Implicit) + Implicit = n.man
    <3>1. \A i \in Nat : i >= 2 => \A m \in i..(2 * i - 1) : (m % i) + i = m
      <4>1. \A i \in Nat : i >= 2 => \A m \in i..(2 * i - 1) : m = i + (m - i) /\ m - i \in 0..(i - 1)
        OBVIOUS
      <4>2. \A i \in Nat : i >= 2 => \A k \in 0..(i - 1) : (i + k) % i = k
        OBVIOUS
      <4> QED BY <4>1, <4>2
    <3> HIDE DEF n
    <3> QED BY <1>3, <1>7, <3>1
  <2>4. WithImplicit(r).man = n.man
    <3>1. r.exp # 0
      BY <1>1, <1>2, <2>2
    <3>2. r.man + Implicit = n.man
      BY <1>2, <2>3
    <3> QED BY <1>2, <3>1, <3>2 DEF WithImplicit, Number
  <2>5. Value(r) = n.man * Pow2[n.exp]
    BY <1>2, <1>4, <2>4, SignedValue
  <2>6. Magnitude(n.man * Pow2[n.exp] * Square - Exact) <= Lost + sq
    <3>1. ~ (n.man < Implicit)
      BY <1>1, <1>3, <2>1
    <3> QED BY <3>1 DEF NearResult
  <2>7. Held(r, Tests - (tests + 1))
    <3>1. Room \in Nat /\ Room + (Tests - (tests + 1)) < ExpMod
      BY RoomIsLeft
    <3>2. Tests \in Nat /\ tests \in Nat /\ ExpMod \in Nat
      BY FpuAssumption, FpuSizes DEF Given
    <3>3. n.exp + (Tests - (tests + 1)) < ExpMod /\ n.exp # 0
      <4> HIDE DEF n
      <4> QED BY <1>1, <2>2, <3>1, <3>2
    <3> QED BY <1>2, <3>3 DEF Held
  <2> QED BY <1>2, <2>5, <2>6, <2>7
<1> QED BY <1>6, <1>7 DEF Finished

\* What a call is about does not change while it runs.
LEMMA CallKept ==
  ASSUME f1' = f1, f2' = f2, acc' = acc
  PROVE  /\ Difference' = Difference /\ Product' = Product /\ Exact' = Exact /\ Lost' = Lost
         /\ Room' = Room
<1>1. Greatest' = Greatest /\ TrueDifference' = TrueDifference
  BY DEF Greatest, TrueDifference
<1>2. LastPlace' = LastPlace
  BY <1>1 DEF LastPlace
<1>3. Difference' = Difference
  BY DEF Difference
<1>4. Product' = Product
  BY <1>3 DEF Product
<1>5. Exact' = Exact /\ Lost' = Lost /\ Room' = Room
  BY <1>1, <1>2 DEF Exact, Lost, Room
<1> QED BY <1>3, <1>4, <1>5

LEMMA UnitKept ==
  ASSUME f1' = f1, f2' = f2, acc' = acc, NEW u, NEW s, UnitAt(u, s), fpu' = u, sumdiff' = s
  PROVE  UnitAt(fpu, sumdiff)'
<1>1. /\ Difference' = Difference /\ Product' = Product /\ Exact' = Exact /\ Lost' = Lost
      /\ Room' = Room
  BY CallKept
<1>2. NearResult(fpu.c)' <=> NearResult(u.c)
  BY <1>1 DEF NearResult
<1> QED BY <1>1, <1>2 DEF UnitAt

\* An idle unit holds nothing of a call.
LEMMA UnitRested ==
  ASSUME UnitAt(fpu, sumdiff), fpu.state = "IDLE", fpu' = fpu, sumdiff' = sumdiff
  PROVE  UnitAt(fpu, sumdiff)' /\ fpu'.state = "IDLE"
BY DEF UnitAt

LEMMA CallGiven ==
  ASSUME FpuTypes, ProgramAt, fpu_pc # "main"
  PROVE  Given
<1>1. tests \in Nat
  BY FpuAssumption DEF FpuTypes, ProgramTypes
<1> QED BY <1>1 DEF Given, ProgramAt, FpuTypes, ProgramTypes

\* Between the calls the unit is idle.
LEMMA IdleEdge ==
  ASSUME DsqaInv, fpu.state = "IDLE", Edge(FALSE)
  PROVE  UnitAt(fpu, sumdiff)' /\ fpu'.state = "IDLE"
<1>1. fpu' = fpu /\ sumdiff' = sumdiff
  BY UnitRests DEF DsqaInv, Edge
<1> QED BY <1>1, UnitRested DEF DsqaInv

LEMMA DrawStep ==
  ASSUME FpuTypes, DsqaInv, Draw
  PROVE  DsqaInv'
<1>1. fpu.state = "IDLE" /\ Edge(FALSE)
  BY DEF DsqaInv, ProgramAt, Draw
<1>2. UnitAt(fpu, sumdiff)' /\ fpu'.state = "IDLE"
  BY <1>1, IdleEdge
<1>3. ProgramAt'
  BY <1>2 DEF DsqaInv, ProgramAt, Draw, Held
<1> QED BY <1>2, <1>3 DEF DsqaInv

LEMMA DsqaStep ==
  ASSUME FpuTypes, DsqaInv, dsqa
  PROVE  DsqaInv'
<1>1. /\ fpu_pc = "dsqa" /\ tests' = tests /\ acc' = acc /\ f1' = f1 /\ f2' = f2
      /\ fpu' = Fpu(TRUE) /\ sumdiff' = Sumdiff
  BY DEF dsqa, Edge
<1>2. Given
  BY <1>1, CallGiven DEF DsqaInv
<1>3. UnitAt(fpu, sumdiff)'
  <2>1. UnitAt(Fpu(TRUE), Sumdiff)
    BY <1>2, UnitStep DEF DsqaInv
  <2> QED BY <1>1, <2>1, UnitKept
<1>4. /\ Held(acc, Tests - tests)' /\ tests' < Tests /\ f1' \in Inputs /\ f2' \in Inputs
  BY <1>1 DEF DsqaInv, ProgramAt, Held
<1>5. CASE ~ ready
  <2>1. fpu_pc' = "dsqa"
    BY <1>1, <1>5 DEF dsqa
  <2> QED BY <1>3, <1>4, <2>1 DEF DsqaInv, ProgramAt
<1>6. CASE ready
  <2>1. fpu.state = "DONE" /\ f3' = CPR_RDW /\ fpu_pc' = "compare"
    BY <1>6 DEF dsqa, ready
  <2>2. NearResult(fpu.c) /\ Finished(fpu.c)
    BY <2>1 DEF DsqaInv, UnitAt
  <2>3. /\ Held(f3', Tests - (tests + 1))
        /\ Magnitude(Value(f3') * Square - Exact) <= Lost + Pow2[f3'.exp] * Square
    BY <1>2, <2>1, <2>2, ResultIsNear
  <2>4. fpu'.state = "IDLE"
    BY <1>1, <2>1, TakenStep DEF DsqaInv
  <2>5. Exact' = Exact /\ Lost' = Lost
    BY <1>1, CallKept
  <2>6. /\ Held(f3, Tests - (tests + 1))'
        /\ (Magnitude(Value(f3) * Square - Exact) <= Lost + Pow2[f3.exp] * Square)'
    BY <1>1, <2>3, <2>5
  <2> QED BY <1>3, <1>4, <2>1, <2>4, <2>6 DEF DsqaInv, ProgramAt
<1> QED BY <1>5, <1>6

LEMMA CompareStep ==
  ASSUME FpuTypes, DsqaInv, Compare
  PROVE  DsqaInv'
<1>1. /\ fpu.state = "IDLE" /\ Edge(FALSE)
      /\ acc' = f3 /\ tests' = tests + 1 /\ fpu_pc' = "main" /\ Held(f3, Tests - (tests + 1))
  BY DEF DsqaInv, ProgramAt, Compare
<1>2. UnitAt(fpu, sumdiff)' /\ fpu'.state = "IDLE"
  BY <1>1, IdleEdge
<1>3. Held(acc, Tests - tests)'
  BY <1>1 DEF Held
<1> QED BY <1>1, <1>2, <1>3 DEF DsqaInv, ProgramAt

LEMMA FpuIdleStep ==
  ASSUME FpuTypes, DsqaInv, FpuIdle
  PROVE  DsqaInv'
<1>1. fpu.state = "IDLE" /\ Edge(FALSE) /\ fpu_pc' = "main" /\ acc' = acc /\ tests' = tests
  BY DEF DsqaInv, ProgramAt, FpuIdle, programVars
<1>2. UnitAt(fpu, sumdiff)' /\ fpu'.state = "IDLE"
  BY <1>1, IdleEdge
<1>3. Held(acc, Tests - tests)'
  BY <1>1 DEF DsqaInv, ProgramAt, Held
<1> QED BY <1>1, <1>2, <1>3 DEF DsqaInv, ProgramAt

\* A program that starts again while the unit is idle.
LEMMA ResetStep ==
  ASSUME ResetBusy = FALSE, FpuTypes, DsqaInv, CoreReset
  PROVE  DsqaInv'
<1>1. fpu.state = "IDLE" /\ Edge(FALSE) /\ fpu_pc' = "main" /\ acc' = Zero /\ tests' = 0
  BY DEF CoreReset
<1>2. UnitAt(fpu, sumdiff)' /\ fpu'.state = "IDLE"
  BY <1>1, IdleEdge
<1>3. Held(acc, Tests - tests)'
  BY <1>1 DEF Held, Zero, Number
<1> QED BY <1>1, <1>2, <1>3 DEF DsqaInv, ProgramAt

LEMMA DsqaNext ==
  ASSUME ResetBusy = FALSE, FpuTypes, DsqaInv, FpuNext
  PROVE  DsqaInv'
BY DrawStep, DsqaStep, CompareStep, FpuIdleStep, ResetStep DEF FpuNext

LEMMA DsqaKept ==
  ASSUME DsqaInv, UNCHANGED fpuVars
  PROVE  DsqaInv'
<1>1. /\ fpu' = fpu /\ sumdiff' = sumdiff /\ fpu_pc' = fpu_pc /\ tests' = tests /\ acc' = acc
      /\ f1' = f1 /\ f2' = f2 /\ f3' = f3
  BY DEF fpuVars, programVars
<1>2. UnitAt(fpu, sumdiff)'
  BY <1>1, UnitKept DEF DsqaInv
<1>3. Exact' = Exact /\ Lost' = Lost
  BY <1>1, CallKept
<1>4. ProgramAt'
  <2>1. /\ Held(acc, Tests - tests)' <=> Held(acc, Tests - tests)
        /\ Held(f3, Tests - (tests + 1))' <=> Held(f3, Tests - (tests + 1))
    BY <1>1 DEF Held
  <2>2. (Magnitude(Value(f3) * Square - Exact) <= Lost + Pow2[f3.exp] * Square)'
        <=> Magnitude(Value(f3) * Square - Exact) <= Lost + Pow2[f3.exp] * Square
    BY <1>1, <1>3
  <2> QED BY <1>1, <2>1, <2>2 DEF DsqaInv, ProgramAt
<1> QED BY <1>2, <1>4 DEF DsqaInv

LEMMA DsqaStart == FpuInit => DsqaInv
<1> SUFFICES ASSUME FpuInit PROVE DsqaInv
  OBVIOUS
<1>1. /\ fpu.state = "IDLE" /\ ~ fpu.sd_cs /\ sumdiff.state = "IDLE"
      /\ fpu_pc = "main" /\ acc = Zero
  BY DEF FpuInit
<1>2. UnitAt(fpu, sumdiff)
  BY <1>1 DEF UnitAt
<1>3. ProgramAt
  BY <1>1 DEF ProgramAt, Held, Zero, Number
<1> QED BY <1>2, <1>3 DEF DsqaInv

LEMMA DsqaHolds == DsqaInv => DsqaAccurate
BY DEF DsqaInv, ProgramAt, DsqaAccurate, Exact, Lost, TrueDifference, LastPlace, Greatest

(* Every result of dsqa is what fpu.c:20 says of it, up to the rounding of *)
(* a difference and one place of the result: for every width of mantissa   *)
(* and exponent, all numbers rndf returns and any number of tests, in the  *)
(* program that is not reset while the unit is busy.                       *)
THEOREM DsqaIsAccurate == ResetBusy = FALSE => (FpuSpec => [](DsqaAccurate /\ FpuTypeOK))
<1> SUFFICES ASSUME ResetBusy = FALSE PROVE FpuSpec => [](DsqaAccurate /\ FpuTypeOK)
  OBVIOUS
<1>1. FpuInit => FpuTypes /\ DsqaInv
  BY FpuTypesStart, DsqaStart
<1>2. FpuTypes /\ DsqaInv /\ [FpuNext]_fpuVars => (FpuTypes /\ DsqaInv)'
  BY FpuTypesNext, FpuTypesKept, DsqaNext, DsqaKept
<1>3. FpuTypes /\ DsqaInv => DsqaAccurate /\ FpuTypeOK
  BY TypesSuffice, DsqaHolds
<1> QED BY <1>1, <1>2, <1>3, PTL DEF FpuSpec
=============================================================================
