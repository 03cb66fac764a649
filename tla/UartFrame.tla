----------------------------- MODULE UartFrame ------------------------------
(***************************************************************************)
(* What extra/uart.v shows the unit built around it (dbgu32, uartblk), to  *)
(* the clock cycle: when a byte that starts on the line raises rx_stopbit  *)
(* and rx_ready, when a byte written raises tx_finished, and which bytes   *)
(* come out.  Uart.tla shows that the bit-level registers implement it.    *)
(***************************************************************************)
EXTENDS Integers

CONSTANTS BitClk,    \* cycles per bit
          Data,      \* the byte values in use
          Garbled    \* a register or a wire that holds bits of two bytes

ASSUME FrameAssumption ==
  /\ BitClk \in Nat /\ BitClk >= 2
  /\ Garbled \notin Data

RxCycles == 9 * BitClk + (BitClk \div 2)  \* start bit seen to rx_ready
TxCycles == 10 * BitClk                   \* write to tx_finished

VARIABLES rx_left,            \* cycles to rx_ready, 0 when no byte is coming
          rx_wire,            \* the byte on the line (the peer's)
          uart_rx_data, uart_rx_ready,
          tx_left,            \* cycles to tx_finished, 0 when idle
          tx_wire,            \* the byte all data bits driven so far are from
          uart_tx_finished

rxFrameVars == <<rx_left, rx_wire, uart_rx_data, uart_rx_ready>>
txFrameVars == <<tx_left, tx_wire, uart_tx_finished>>
frameVars == <<rx_left, rx_wire, uart_rx_data, uart_rx_ready,
               tx_left, tx_wire, uart_tx_finished>>

Known == Data \union {Garbled}

\* High from the sample of the last data bit to the middle of the stop bit.
uart_rx_stopbit == rx_left \in 1..BitClk

FrameTypeOK ==
  /\ rx_left \in 0..RxCycles
  /\ rx_wire \in Known
  /\ uart_rx_data \in Known
  /\ uart_rx_ready \in BOOLEAN
  /\ tx_left \in 0..TxCycles
  /\ tx_wire \in Known
  /\ uart_tx_finished \in BOOLEAN

FrameInit ==
  /\ rx_left = 0
  /\ rx_wire \in Known
  /\ uart_rx_data = Garbled
  /\ uart_rx_ready = FALSE
  /\ tx_left = 0
  /\ tx_wire = Garbled
  /\ uart_tx_finished = FALSE

\* An edge that sees the start bit of byte b, or a low bit inside a byte.
RxStart(b) ==
  /\ rx_left = 0
  /\ rx_left' = RxCycles
  /\ rx_wire' = b
  /\ uart_rx_ready' = FALSE
  /\ UNCHANGED uart_rx_data

\* Mutant: the count goes on below zero.
RxStepBelowZero ==
  /\ rx_left' = rx_left - 1
  /\ uart_rx_ready' = (rx_left = 1)
  /\ UNCHANGED <<rx_wire, uart_rx_data>>

\* Any other edge.  The data register is a mixture from the first bit
\* sampled to the last.
RxStep ==
  /\ rx_left' = IF rx_left = 0 THEN 0 ELSE rx_left - 1
  /\ uart_rx_ready' = (rx_left = 1)
  /\ uart_rx_data' = CASE rx_left = BitClk + 1 -> rx_wire
                       [] rx_left = 8 * BitClk + 1 -> Garbled
                       [] OTHER -> uart_rx_data
  /\ UNCHANGED rx_wire

\* An edge with tx_write at this level and data at the data input.
TxStep(write, data) ==
  /\ tx_left' = CASE tx_left > 0 -> tx_left - 1
                  [] tx_left = 0 /\ write -> TxCycles
                  [] OTHER -> 0
  /\ uart_tx_finished' = (tx_left = 1)
  /\ tx_wire' = CASE tx_left = 0 /\ write -> Garbled
                  [] tx_left = 9 * BitClk + 1 -> data
                  [] (\E k \in 2..8 : tx_left = k * BitClk + 1)
                     /\ data # tx_wire -> Garbled
                  [] OTHER -> tx_wire

\* A reset drops both bytes; one half received leaves a mixture behind.
FrameReset ==
  /\ rx_left' = 0
  /\ uart_rx_ready' = FALSE
  /\ tx_left' = 0
  /\ tx_wire' = Garbled
  /\ uart_tx_finished' = FALSE
  /\ UNCHANGED <<rx_wire, uart_rx_data>>

FrameTick(write, data) ==
  /\ RxStep \/ \E b \in Known : RxStart(b)
  /\ TxStep(write, data)

FrameNext ==
  \/ FrameReset
  \/ \E write \in BOOLEAN, data \in Known : FrameTick(write, data)

FrameSpec == FrameInit /\ [][FrameNext]_frameVars
=============================================================================
