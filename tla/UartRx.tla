------------------------------- MODULE UartRx -------------------------------
(***************************************************************************)
(* The receiver of extra/uart.v at the granularity of the clock: one step  *)
(* is one rising edge with n_reset high (RxTick) or low (RxReset).         *)
(* rx_cnt is a register of CNT_WIDTH bits: CntMod is 2^CNT_WIDTH, and when *)
(* 1.5 bits is a power of two the register loads 0 and the first decrement *)
(* wraps.                                                                  *)
(***************************************************************************)
EXTENDS UartParams

VARIABLES rx_inprogress, rx_bit, rx_cnt, rx_data, rx_stopbit, rx_ready

rxVars == <<rx_inprogress, rx_bit, rx_cnt, rx_data, rx_stopbit, rx_ready>>

RxTypeOK ==
  /\ rx_inprogress \in BOOLEAN
  /\ rx_bit \in 0..8
  /\ rx_cnt \in 0..(CntMod - 1)
  /\ rx_data \in Byte
  /\ rx_stopbit \in BOOLEAN
  /\ rx_ready \in BOOLEAN

\* Mutants: the load is not truncated; the decrement saturates.
LoadWide(n) == n
DecrementSaturated(c) == IF c = 0 THEN 0 ELSE c - 1

Load(n) == IF n = CntMod THEN 0 ELSE n
Decrement(c) == IF c = 0 THEN CntMod - 1 ELSE c - 1

\* How many more edges the counter needs to reach 0: 0 stands for a full turn.
Remaining(c) == IF c = 0 THEN CntMod ELSE c

RxInit ==
  /\ rx_inprogress = FALSE
  /\ rx_bit = 0
  /\ rx_cnt = Load(OneAndHalfBitClk)
  /\ rx_data = [i \in Bits |-> 0]
  /\ rx_stopbit = FALSE
  /\ rx_ready = FALSE

\* Mutant: rx_stopbit survives a reset.
RxResetKeepsStopbit ==
  /\ rx_inprogress' = FALSE
  /\ rx_bit' = 0
  /\ rx_cnt' = Load(OneAndHalfBitClk)
  /\ rx_ready' = FALSE
  /\ UNCHANGED <<rx_stopbit, rx_data>>

RxReset ==
  /\ rx_inprogress' = FALSE
  /\ rx_bit' = 0
  /\ rx_cnt' = Load(OneAndHalfBitClk)
  /\ rx_stopbit' = FALSE
  /\ rx_ready' = FALSE
  /\ UNCHANGED rx_data

\* Waiting for a start bit; a low line starts the reception.
RxIdle(line) ==
  /\ ~rx_inprogress
  /\ rx_inprogress' = (line = 0)
  /\ rx_ready' = FALSE
  /\ UNCHANGED <<rx_bit, rx_cnt, rx_data, rx_stopbit>>

RxCount ==
  /\ rx_inprogress
  /\ rx_cnt # 1
  /\ rx_cnt' = Decrement(rx_cnt)
  /\ rx_ready' = FALSE
  /\ UNCHANGED <<rx_inprogress, rx_bit, rx_data, rx_stopbit>>

\* Mutant: the bits are taken most significant first.
RxSampleReversed(line) ==
  /\ rx_inprogress
  /\ rx_cnt = 1
  /\ rx_bit # 8
  /\ rx_data' = [rx_data EXCEPT ![7 - rx_bit] = line]
  /\ rx_bit' = rx_bit + 1
  /\ rx_cnt' = BitClk
  /\ rx_stopbit' = (rx_stopbit \/ rx_bit = 7)
  /\ rx_ready' = FALSE
  /\ UNCHANGED rx_inprogress

RxSample(line) ==
  /\ rx_inprogress
  /\ rx_cnt = 1
  /\ rx_bit # 8
  /\ rx_data' = [rx_data EXCEPT ![rx_bit] = line]
  /\ rx_bit' = rx_bit + 1
  /\ rx_cnt' = BitClk
  /\ rx_stopbit' = (rx_stopbit \/ rx_bit = 7)
  /\ rx_ready' = FALSE
  /\ UNCHANGED rx_inprogress

\* The middle of the stop bit, whose level the receiver does not check.
RxDone ==
  /\ rx_inprogress
  /\ rx_cnt = 1
  /\ rx_bit = 8
  /\ rx_inprogress' = FALSE
  /\ rx_ready' = TRUE
  /\ rx_stopbit' = FALSE
  /\ rx_bit' = 0
  /\ rx_cnt' = Load(OneAndHalfBitClk)
  /\ UNCHANGED rx_data

RxTick(line) ==
  \/ RxIdle(line)
  \/ RxCount
  \/ RxSample(line)
  \/ RxDone

\* Edges since the one that saw the start bit.
RxElapsed == OneAndHalfBitClk + rx_bit * BitClk - Remaining(rx_cnt)
=============================================================================
