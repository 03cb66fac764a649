------------------------------ MODULE UartLink ------------------------------
(***************************************************************************)
(* The transmitter of one UART (extra/uart.v) wired to the receiver of     *)
(* another, each on a clock of its own: the board and the host.  The edges *)
(* of the two clocks interleave freely as long as, within a frame, the     *)
(* transmitter is at most Lead edges ahead of the receiver and at most Lag *)
(* behind it.  The receiving client takes the byte on the edge after       *)
(* rx_ready, as dbgu32.v:185-187 does.                                     *)
(***************************************************************************)
EXTENDS UartTx, UartRx, Sequences

CONSTANTS Lead, Lag,   \* the drift the two clocks may accumulate in a frame
          Payload      \* the bytes the transmitting client sends

(* The most drift 1.5 bits to the first sample can absorb.                 *)
ASSUME LinkAssumption ==
  /\ Lead \in Nat /\ Lead + (BitClk \div 2) < BitClk
  /\ Lag \in Nat /\ Lag <= (BitClk \div 2) + 1
  /\ Lead + Lag >= 1
  /\ Payload \subseteq Byte /\ Payload # {}

VARIABLES tx_data,   \* the byte the transmitting client holds
          taken,     \* the byte the receiving client took last
          skew       \* transmitter edges minus receiver edges in this frame

vars == <<txVars, rxVars, tx_data, taken, skew>>

Init ==
  /\ TxInit
  /\ RxInit
  /\ tx_data \in Payload
  /\ taken \in Payload
  /\ skew = 0

\* An edge of the transmitter's clock with tx_write high.
Send(b) ==
  /\ TxStart
  /\ tx_data' = b
  /\ skew' = 0
  /\ UNCHANGED <<rxVars, taken>>

\* Any other edge of the transmitter's clock.
TxClock ==
  /\ TxTick(FALSE, tx_data)
  /\ IF tx_inprogress
     THEN skew < Lead /\ skew' = skew + 1
     ELSE UNCHANGED skew
  /\ UNCHANGED <<rxVars, tx_data, taken>>

\* An edge of the receiver's clock.
RxClock ==
  /\ RxTick(tx_)
  /\ taken' = IF rx_ready THEN rx_data ELSE taken
  /\ IF tx_inprogress
     THEN skew > -Lag /\ skew' = skew - 1
     ELSE UNCHANGED skew
  /\ UNCHANGED <<txVars, tx_data>>

Next == TxClock \/ RxClock \/ \E b \in Payload : Send(b)

Spec == Init /\ [][Next]_vars /\ WF_vars(TxClock) /\ WF_vars(RxClock)

-----------------------------------------------------------------------------

LinkTypeOK ==
  /\ TxTypeOK
  /\ RxTypeOK
  /\ tx_data \in Payload
  /\ taken \in Byte
  /\ skew \in -Lag..Lead

\* The receiver's clock may tick now, and its edge samples the line.
Sampling ==
  /\ rx_inprogress
  /\ rx_cnt = 1
  /\ tx_inprogress => skew > -Lag

(* Whatever the drift, the receiver samples bit i while the transmitter    *)
(* drives bit i: the 1.5 bits to the first sample, the BIT_CLK steps and   *)
(* the reload of both counters never slip by a bit (uart.v:72-97,150-176). *)
SampledInItsBit ==
  Sampling /\ rx_bit # 8 => tx_inprogress /\ tx_bit = rx_bit + 1

(* The receiver ends a frame while the transmitter drives its stop bit and *)
(* is never still in a frame when the transmitter has left it, so a start  *)
(* bit that follows at once is not taken for part of the old frame         *)
(* (uart.v:74-85,153-161).                                                 *)
EndsInStopBit ==
  /\ Sampling /\ rx_bit = 8 => tx_inprogress /\ tx_bit = 9
  /\ rx_inprogress => tx_inprogress

(* A byte is announced by rx_ready only when all its eight bits are those  *)
(* of the byte transmitted.                                                *)
AnnouncedWhole == [][rx_ready' /\ ~rx_ready => rx_data' = tx_data]_vars

\* The frame on the wire, from the write to the receiver's rx_ready.
OnWire == tx_inprogress /\ (tx_bit < 9 \/ rx_inprogress)

\* The bytes announced and not yet taken, and on the wire.
UnderWay == (IF rx_ready THEN <<rx_data>> ELSE <<>>)
              \o (IF OnWire THEN <<tx_data>> ELSE <<>>)

Channel == INSTANCE ByteChannel WITH resets <- 0, queue <- UnderWay

(* The link is the serial line both clients count on.                      *)
ImplementsChannel == Channel!Spec
=============================================================================
