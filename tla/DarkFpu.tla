------------------------------- MODULE DarkFpu ------------------------------
(***************************************************************************)
(* The floating point unit beside the darkriscv core (fpu.v) with its      *)
(* adder (fpu_sumdiff.v), under the program that tests it (c/fpu.c): the   *)
(* instruction dsqa adds the square of a difference to an accumulator.     *)
(* A step is an edge of the core's clock.  The unit has no reset, a reset  *)
(* of the core leaves it as it is.                                         *)
(***************************************************************************)
EXTENDS Integers

CONSTANTS BITS,        \* of a mantissa with its implicit bit, 24 in the unit
          EXP_BITS,    \* of an exponent, 8
          Inputs,      \* the numbers rndf returns
          Tests,       \* calls of test(), 40 in the program
          ResetBusy    \* whether the core may be reset while the unit is busy

VARIABLES fpu,         \* state, sd_cs, sd and the numbers a, b, c, d
          sumdiff,     \* state, x, gx, y, gy and the result r
          fpu_pc,      \* where the program is, and the numbers of test()
          tests, acc, f1, f2, f3

programVars == <<fpu_pc, tests, acc, f1, f2, f3>>
fpuVars == <<fpu, sumdiff, programVars>>

(* A number: sign, exponent, mantissa.  The stored mantissa is without its *)
(* implicit bit; a and c are twice as wide inside the unit.                *)
Number(sgn, exp, man) == [sgn |-> sgn, exp |-> exp, man |-> man]
Zero == Number(0, 0, 0)
Pow2[n \in Nat] == IF n = 0 THEN 1 ELSE 2 * Pow2[n - 1]
Implicit == Pow2[BITS - 1]
Wide(n) == n % Pow2[2 * BITS]
Narrow(n) == n % Pow2[BITS]
Exp(n) == n % Pow2[EXP_BITS]
Bias == Pow2[EXP_BITS - 1] - 1
Numbers(men) == [sgn : {0, 1}, exp : 0..(Pow2[EXP_BITS] - 1), man : men]

(* Neither the square of a difference, even one in its last place, nor the *)
(* accumulator after the last test leaves the range of the exponent: the   *)
(* program draws numbers of magnitude 1 to 1000 in steps of 2 / 32767,     *)
(* whose exponents are 112 to 136.                                         *)
ASSUME FpuAssumption ==
  /\ BITS \in Nat \ {0, 1} /\ EXP_BITS \in Nat \ {0, 1} /\ Tests \in Nat /\ ResetBusy \in BOOLEAN
  /\ Inputs \subseteq Numbers(0..(Implicit - 1))
  /\ \A n \in Inputs :
       /\ 2 * n.exp >= Bias + 2 * BITS - 1
       /\ 2 * n.exp + 3 - Bias + Tests < Pow2[EXP_BITS] /\ n.exp + 1 < Pow2[EXP_BITS]

-----------------------------------------------------------------------------
(* fpu_sumdiff.v: x and y are shifted to the greater exponent, rounded by  *)
(* the last bit shifted out, and added by their signs.                     *)

SD_x == IF fpu.sd = "AB" THEN fpu.a ELSE fpu.c
SD_y == IF fpu.sd = "AB" THEN [fpu.b EXCEPT !.sgn = 1 - @] ELSE fpu.d

\* {n, g} >> by
Shifted(n, g, by) == (2 * n + g) \div Pow2[by]

sd_ready == sumdiff.state = "DONE"

SumdiffRound ==
  [sumdiff EXCEPT !.state = "SUMDIFF", !.x = Wide(@ + sumdiff.gx), !.y = Narrow(@ + sumdiff.gy)]

SumdiffShift ==
  LET up == SD_y.exp - SD_x.exp
      x == Shifted(sumdiff.x, sumdiff.gx, up)
      y == Shifted(sumdiff.y, sumdiff.gy, -up)
  IN IF up > 0
     THEN [sumdiff EXCEPT !.state = "ROUND", !.x = x \div 2, !.gx = x % 2, !.r.exp = SD_y.exp]
     ELSE [sumdiff EXCEPT !.state = "ROUND", !.y = y \div 2, !.gy = y % 2, !.r.exp = SD_x.exp]

SumdiffAdd ==
  LET x == sumdiff.x
      y == sumdiff.y
  IN [sumdiff EXCEPT !.state = "NORM",
        !.r = Number(IF SD_x.sgn = SD_y.sgn \/ ~(x < y) THEN SD_x.sgn ELSE SD_y.sgn, @.exp,
                     IF SD_x.sgn = SD_y.sgn THEN Wide(x + y) ELSE IF x < y THEN y - x ELSE x - y)]

\* Mutant: a carry is shifted down and not counted.
SumdiffNormUncounted ==
  IF (sumdiff.r.man \div Pow2[BITS]) % 2 = 1
  THEN [sumdiff EXCEPT !.state = "DONE", !.r.man = @ \div 2]
  ELSE [sumdiff EXCEPT !.state = "DONE"]

\* A carry is in the bit above the mantissa, only that one is looked at.
SumdiffNorm ==
  IF (sumdiff.r.man \div Pow2[BITS]) % 2 = 1
  THEN [sumdiff EXCEPT !.state = "DONE",
          !.r = Number(@.sgn, Exp(@.exp + 1), @.man \div 2)]
  ELSE [sumdiff EXCEPT !.state = "DONE"]

Sumdiff ==
  CASE sumdiff.state = "IDLE" /\ fpu.sd_cs ->
         [sumdiff EXCEPT !.state = "SHIFT", !.x = SD_x.man, !.y = SD_y.man, !.gx = 0, !.gy = 0]
    [] sumdiff.state = "SHIFT" -> SumdiffShift
    [] sumdiff.state = "ROUND" -> SumdiffRound
    [] sumdiff.state = "SUMDIFF" -> SumdiffAdd
    [] sumdiff.state = "NORM" -> SumdiffNorm
    [] sd_ready /\ fpu.sd_cs -> [sumdiff EXCEPT !.state = "IDLE"]
    [] OTHER -> sumdiff

-----------------------------------------------------------------------------
(* fpu.v                                                                   *)

WithImplicit(n) == IF n.exp = 0 THEN n ELSE [n EXCEPT !.man = @ + Implicit]

FpuMul ==
  LET last == fpu.b.man \div 2 = 0
  IN [fpu EXCEPT !.c.man = IF fpu.b.man % 2 = 1 THEN Wide(@ + fpu.a.man) ELSE @,
                 !.a.man = Wide(2 * @), !.b.man = @ \div 2,
                 !.state = IF last THEN "SD_CD" ELSE @,
                 !.sd_cs = last, !.sd = IF last THEN "CD" ELSE @]

FpuNorm ==
  CASE fpu.c.man = 0 -> [fpu EXCEPT !.state = "DONE", !.c.exp = 0]
    [] fpu.c.man >= Pow2[BITS] -> [fpu EXCEPT !.c = Number(@.sgn, Exp(@.exp + 1), @.man \div 2)]
    [] fpu.c.man \in 1..(Implicit - 1) ->
         [fpu EXCEPT !.c = Number(@.sgn, Exp(@.exp - 1), 2 * @.man)]
    [] OTHER -> [fpu EXCEPT !.state = "DONE"]

Fpu(cs) ==
  CASE fpu.state = "IDLE" /\ cs ->
         [fpu EXCEPT !.state = "IMPCT", !.a = f1, !.b = f2, !.c = Zero, !.d = acc]
    [] fpu.state = "IMPCT" ->
         [fpu EXCEPT !.state = "SD_AB", !.sd_cs = TRUE, !.sd = "AB",
                     !.a = WithImplicit(@), !.b = WithImplicit(@), !.d = WithImplicit(@)]
    [] fpu.state = "SD_AB" /\ sd_ready ->
         [fpu EXCEPT !.state = "EXP", !.sd_cs = FALSE, !.a.man = sumdiff.r.man,
                     !.b.man = Narrow(sumdiff.r.man), !.c.exp = sumdiff.r.exp]
    [] fpu.state = "EXP" ->
         [fpu EXCEPT !.state = "MUL", !.c.exp = Exp(2 * @ - (Bias + BITS - 1))]
    [] fpu.state = "MUL" -> FpuMul
    [] fpu.state = "SD_CD" /\ sd_ready ->
         [fpu EXCEPT !.state = "NORM", !.sd_cs = FALSE, !.c = sumdiff.r]
    [] fpu.state = "NORM" -> FpuNorm
    [] fpu.state = "DONE" /\ cs -> [fpu EXCEPT !.state = "IDLE"]
    [] OTHER -> fpu

ready == fpu.state = "DONE"
CPR_RDW == [fpu.c EXCEPT !.man = @ % Implicit]

\* Both modules at an edge at which the core does or does not ask.
Edge(cs) == fpu' = Fpu(cs) /\ sumdiff' = Sumdiff

-----------------------------------------------------------------------------
(* The program, and the core under it, which waits while ~ready.           *)

\* x = rndf(j), y = rndf(j): one of these calls is evaluated first.
Draw ==
  /\ fpu_pc = "main" /\ tests < Tests
  /\ f1' \in Inputs /\ f2' \in Inputs
  /\ fpu_pc' = "dsqa"
  /\ Edge(FALSE)
  /\ UNCHANGED <<tests, acc, f3>>

dsqa ==
  /\ fpu_pc = "dsqa"
  /\ IF ready THEN f3' = CPR_RDW /\ fpu_pc' = "compare" ELSE UNCHANGED <<f3, fpu_pc>>
  /\ Edge(TRUE)
  /\ UNCHANGED <<tests, acc, f1, f2>>

\* The comparison is printed, acc takes the result.
Compare ==
  /\ fpu_pc = "compare"
  /\ acc' = f3
  /\ tests' = tests + 1
  /\ fpu_pc' = "main"
  /\ Edge(FALSE)
  /\ UNCHANGED <<f1, f2, f3>>

FpuIdle == fpu_pc = "main" /\ tests = Tests /\ Edge(FALSE) /\ UNCHANGED programVars

\* A reset of the core: the program starts again.
CoreReset ==
  /\ ResetBusy \/ fpu.state = "IDLE"
  /\ fpu_pc' = "main" /\ tests' = 0 /\ acc' = Zero /\ f1' = Zero /\ f2' = Zero
  /\ f3' = Zero
  /\ Edge(FALSE)

FpuNext == Draw \/ dsqa \/ Compare \/ FpuIdle \/ CoreReset

FpuInit ==
  /\ fpu = [state |-> "IDLE", sd_cs |-> FALSE, sd |-> "AB",
            a |-> Zero, b |-> Zero, c |-> Zero, d |-> Zero]
  /\ sumdiff = [state |-> "IDLE", x |-> 0, gx |-> 0, y |-> 0, gy |-> 0, r |-> Zero]
  /\ fpu_pc = "main" /\ tests = 0 /\ acc = Zero /\ f1 = Zero /\ f2 = Zero
  /\ f3 = Zero

FpuSpec == FpuInit /\ [][FpuNext]_fpuVars /\ WF_fpuVars(FpuNext)

-----------------------------------------------------------------------------

FpuTypeOK ==
  /\ fpu.state \in {"IDLE", "IMPCT", "SD_AB", "EXP", "MUL", "SD_CD", "NORM", "DONE"}
  /\ sumdiff.state \in {"IDLE", "SHIFT", "ROUND", "SUMDIFF", "NORM", "DONE"}
  /\ {fpu.a, fpu.c, sumdiff.r} \subseteq Numbers(0..(Pow2[2 * BITS] - 1))
  /\ {fpu.b, fpu.d} \subseteq Numbers(0..(Pow2[BITS] - 1))
  /\ sumdiff.x \in 0..(Pow2[2 * BITS] - 1) /\ sumdiff.y \in 0..(Pow2[BITS] - 1)
  /\ {acc, f1, f2, f3} \subseteq Numbers(0..(Implicit - 1))
  /\ fpu_pc \in {"main", "dsqa", "compare"} /\ tests \in 0..Tests

\* The value of a number in units of the least, and the square of that unit in them.
Value(n) == (IF n.sgn = 1 THEN -1 ELSE 1) * WithImplicit(n).man * Pow2[n.exp]
Square == Pow2[Bias + BITS - 1]
Magnitude(n) == IF n < 0 THEN -n ELSE n

(* The result of dsqa is *acc + (f1-f2)*(f1-f2) (fpu.c:20), up to a        *)
(* difference off by half its last place from rounding and a whole one     *)
(* from a carry, and one of the result's places: what the adder's single   *)
(* guard bit and the unit's cut-off products, sums and shifts may lose.    *)
DsqaAccurate ==
  fpu_pc = "compare" =>
    LET difference == Magnitude(Value(f1) - Value(f2))
        place == Pow2[IF f1.exp > f2.exp THEN f1.exp ELSE f2.exp]
        exact == Value(acc) * Square + difference * difference
    IN Magnitude(Value(f3) * Square - exact)
         <= 3 * difference * place + 3 * place * place + Pow2[f3.exp] * Square
=============================================================================
