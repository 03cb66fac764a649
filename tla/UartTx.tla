------------------------------- MODULE UartTx -------------------------------
(***************************************************************************)
(* The transmitter of extra/uart.v at the granularity of the clock: one    *)
(* step is one rising edge with n_reset high (TxTick) or low (TxReset).    *)
(* The byte to send, tx_data, is an input the transmitter reads one bit at *)
(* a time while it shifts; the client must keep it stable meanwhile.       *)
(***************************************************************************)
EXTENDS UartParams

VARIABLES tx_inprogress, tx_bit, tx_cnt, tx_finished,
          tx_             \* the level of the line, 0 or 1

txVars == <<tx_inprogress, tx_bit, tx_cnt, tx_finished, tx_>>

TxTypeOK ==
  /\ tx_inprogress \in BOOLEAN
  /\ tx_bit \in 0..9
  /\ tx_cnt \in 1..BitClk
  /\ tx_finished \in BOOLEAN
  /\ tx_ \in {0, 1}

TxInit ==
  /\ tx_inprogress = FALSE
  /\ tx_bit = 0
  /\ tx_cnt = BitClk
  /\ tx_finished = FALSE
  /\ tx_ = 1

\* Mutant: the counter keeps the rest of the bit that was cut off.
TxResetKeepsCount ==
  /\ tx_inprogress' = FALSE
  /\ tx_bit' = 0
  /\ tx_finished' = FALSE
  /\ tx_' = 1
  /\ UNCHANGED tx_cnt

TxReset ==
  /\ tx_inprogress' = FALSE
  /\ tx_bit' = 0
  /\ tx_cnt' = BitClk
  /\ tx_finished' = FALSE
  /\ tx_' = 1

TxIdle ==
  /\ ~tx_inprogress
  /\ tx_finished' = FALSE
  /\ UNCHANGED <<tx_inprogress, tx_bit, tx_cnt, tx_>>

\* A write pulse drives the start bit.
TxStart ==
  /\ ~tx_inprogress
  /\ tx_inprogress' = TRUE
  /\ tx_' = 0
  /\ tx_finished' = FALSE
  /\ UNCHANGED <<tx_bit, tx_cnt>>

TxCount ==
  /\ tx_inprogress
  /\ tx_cnt # 1
  /\ tx_cnt' = tx_cnt - 1
  /\ tx_finished' = FALSE
  /\ UNCHANGED <<tx_inprogress, tx_bit, tx_>>

\* The end of the start bit or of a data bit: the next data bit, or the stop bit.
TxShift(data) ==
  /\ tx_inprogress
  /\ tx_cnt = 1
  /\ tx_bit # 9
  /\ tx_' = IF tx_bit = 8 THEN 1 ELSE data[tx_bit]
  /\ tx_bit' = tx_bit + 1
  /\ tx_cnt' = BitClk
  /\ tx_finished' = FALSE
  /\ UNCHANGED tx_inprogress

\* Mutant: the last data bit may end the frame.
TxDoneEarly ==
  /\ tx_inprogress
  /\ tx_cnt = 1
  /\ tx_bit >= 8
  /\ tx_inprogress' = FALSE
  /\ tx_finished' = TRUE
  /\ tx_bit' = 0
  /\ tx_cnt' = BitClk
  /\ UNCHANGED tx_

\* The end of the stop bit.
TxDone ==
  /\ tx_inprogress
  /\ tx_cnt = 1
  /\ tx_bit = 9
  /\ tx_inprogress' = FALSE
  /\ tx_finished' = TRUE
  /\ tx_bit' = 0
  /\ tx_cnt' = BitClk
  /\ UNCHANGED tx_

TxTick(write, data) ==
  \/ write /\ TxStart
  \/ ~write /\ TxIdle
  \/ TxCount
  \/ TxShift(data)
  \/ TxDone

\* Edges since the start bit was driven, while a frame is on the line.
TxElapsed == (tx_bit + 1) * BitClk - tx_cnt
=============================================================================
