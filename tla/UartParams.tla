----------------------------- MODULE UartParams -----------------------------
(***************************************************************************)
(* The constants of extra/uart.v that its transmitter and its receiver     *)
(* share, in clock cycles, and the byte they carry: eight bits, least      *)
(* significant first.                                                      *)
(***************************************************************************)
EXTENDS Integers

CONSTANTS BitClk,   \* cycles per bit, BIT_CLK
          CntMod    \* 2^CNT_WIDTH, the modulus of the cycle counters

\* Mutant: half a bit is forgotten.
OneBitClk == BitClk

OneAndHalfBitClk == BitClk + (BitClk \div 2)

ASSUME UartAssumption ==
  /\ BitClk \in Nat /\ BitClk >= 2
  /\ CntMod \in Nat /\ CntMod >= OneAndHalfBitClk

Bits == 0..7
Byte == [Bits -> {0, 1}]
=============================================================================
