---------------------------- MODULE BaudDivisor -----------------------------
(***************************************************************************)
(* How extra/uart.v turns CLK_FREQ and UART_FREQ into cycle counts, and    *)
(* where in a frame sent at exactly UART_FREQ its samples fall.  Build     *)
(* picks the parameters of a build, Sample passes to the next bit.         *)
(***************************************************************************)
EXTENDS Integers

CONSTANTS Rates       \* pairs <<CLK_FREQ, UART_FREQ>>

ASSUME RatesAssumption == Rates \subseteq (Nat \ {0}) \X (Nat \ {0})

VARIABLES clk_freq, uart_freq,
          bit           \* the bit sampled next, 8 is the stop bit

vars == <<clk_freq, uart_freq, bit>>

\* Mutant: a cycle too many.
BIT_CLK_Above(clk, uart) == (clk - 1) \div uart + 2

BIT_CLK(clk, uart) == (clk - 1) \div uart + 1

ONE_AND_HALF_BIT_CLK(clk, uart) == BIT_CLK(clk, uart) + BIT_CLK(clk, uart) \div 2

Build ==
  /\ \E rate \in Rates : clk_freq' = rate[1] /\ uart_freq' = rate[2]
  /\ bit' = 0

Init == \E rate \in Rates : clk_freq = rate[1] /\ uart_freq = rate[2] /\ bit = 0

Sample == bit < 8 /\ bit' = bit + 1 /\ UNCHANGED <<clk_freq, uart_freq>>

Next == Build \/ Sample

Spec == Init /\ [][Next]_vars

-----------------------------------------------------------------------------

\* The cycle of the sample of this bit, counted from the start bit's edge.
SampleCycle ==
  ONE_AND_HALF_BIT_CLK(clk_freq, uart_freq) + bit * BIT_CLK(clk_freq, uart_freq)

(* Data bit k lies between (k+1) and (k+2) bit times of clk/uart cycles.   *)
(* The excess of the rounded divisor adds up over the frame and must not   *)
(* carry the sample out of its bit (uart.v:33-34).                         *)
SampleWithinBit ==
  /\ (bit + 1) * clk_freq < SampleCycle * uart_freq
  /\ SampleCycle * uart_freq < (bit + 2) * clk_freq
=============================================================================
