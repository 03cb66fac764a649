------------------------------ MODULE UartBlk -------------------------------
(***************************************************************************)
(* extra/uartblk.v: the UART as the CPU sees it, a data and a status       *)
(* register, with the program of c/uart_comm.c on one side (it polls the   *)
(* status before it writes or reads a byte) and a host that minds cts on   *)
(* the other.  A step is one rising edge of the clock.  The flags of the   *)
(* block have no reset; the UART inside (UartFrame) has.                   *)
(***************************************************************************)
EXTENDS UartFrame, Sequences

CONSTANT MaxResets   \* a bound on the edges with n_reset low after power-up

ASSUME MaxResetsAssumption == MaxResets \in Nat

VARIABLES tx_buf_empty, rx_has_data, busy, uart_tx_write, uart_tx_data, do_int,
          pc,          \* where the program is
          got,         \* the byte it read last
          host_left,   \* cycles left of the byte the host sends
          heard,       \* the byte the host received last
          resets       \* how many of the resets have been

regs == <<tx_buf_empty, rx_has_data, busy, uart_tx_write, uart_tx_data, do_int>>
vars == <<frameVars, regs, pc, got, host_left, heard, resets>>

\* The status register, and the program's tests of its bits 0 and 1.
Flag(f) == IF f THEN 1 ELSE 0
Status == 2 * Flag(tx_buf_empty) + Flag(rx_has_data)
UART_HAS_RX == do_int % 2 = 1
UART_TX_EMPTY == (do_int \div 2) % 2 = 1

Init ==
  /\ FrameInit /\ rx_wire = Garbled
  /\ tx_buf_empty = TRUE /\ rx_has_data = FALSE /\ busy = FALSE
  /\ uart_tx_write = FALSE /\ uart_tx_data \in Data
  /\ do_int = 0
  /\ pc = "main" /\ got \in Data
  /\ host_left = 0 /\ heard \in Data
  /\ resets = 0

-----------------------------------------------------------------------------
(* The block at an edge: the assignments of uartblk.v:62-93, where the bus *)
(* access comes after the flags of the UART and wins.                      *)

Pulse ==
  /\ busy' = (busy \/ uart_rx_stopbit)
  /\ rx_has_data' = (rx_has_data \/ uart_rx_ready)

\* Mutants: the end of a transmission is only seen by a bus access; a write
\* does not claim the transmitter; a read does not release cts, or the data.
NoAccessMissesEnd ==
  /\ Pulse
  /\ uart_tx_write' = FALSE
  /\ UNCHANGED <<tx_buf_empty, uart_tx_data, do_int>>

WriteDataUnclaimed(b) ==
  /\ Pulse
  /\ uart_tx_write' = ~uart_tx_write
  /\ uart_tx_data' = b
  /\ UNCHANGED <<tx_buf_empty, do_int>>

ReadDataKeepsBusy ==
  /\ do_int' = uart_rx_data
  /\ rx_has_data' = FALSE
  /\ tx_buf_empty' = (tx_buf_empty \/ uart_tx_finished)
  /\ uart_tx_write' = FALSE
  /\ UNCHANGED <<busy, uart_tx_data>>

ReadDataKeepsData ==
  /\ do_int' = uart_rx_data
  /\ busy' = FALSE
  /\ tx_buf_empty' = (tx_buf_empty \/ uart_tx_finished)
  /\ uart_tx_write' = FALSE
  /\ UNCHANGED <<rx_has_data, uart_tx_data>>

NoAccess ==
  /\ Pulse
  /\ tx_buf_empty' = (tx_buf_empty \/ uart_tx_finished)
  /\ uart_tx_write' = FALSE
  /\ UNCHANGED <<uart_tx_data, do_int>>

WriteData(b) ==
  /\ Pulse
  /\ tx_buf_empty' = FALSE
  /\ uart_tx_write' = ~uart_tx_write
  /\ uart_tx_data' = b
  /\ UNCHANGED do_int

ReadData ==
  /\ do_int' = uart_rx_data
  /\ rx_has_data' = FALSE
  /\ busy' = FALSE
  /\ tx_buf_empty' = (tx_buf_empty \/ uart_tx_finished)
  /\ uart_tx_write' = FALSE
  /\ UNCHANGED uart_tx_data

ReadStatus ==
  /\ Pulse
  /\ do_int' = Status
  /\ tx_buf_empty' = (tx_buf_empty \/ uart_tx_finished)
  /\ uart_tx_write' = FALSE
  /\ UNCHANGED uart_tx_data

-----------------------------------------------------------------------------
(* The program.  Its accesses take one edge each; between two of them any  *)
(* number of edges may pass.  Where the debug unit sends or receives in    *)
(* its place, it holds the access for a second edge.                       *)

Compute == NoAccess /\ pc \notin {"storing", "loading"} /\ UNCHANGED <<pc, got>>

\* while (!UART_TX_EMPTY);
PollTx ==
  /\ \/ pc = "main"
     \/ pc = "tx_polled" /\ ~UART_TX_EMPTY
  /\ ReadStatus
  /\ pc' = "tx_polled"
  /\ UNCHANGED got

\* UART_DATA = data;
Send(b) ==
  /\ pc = "tx_polled" /\ UART_TX_EMPTY
  /\ WriteData(b)
  /\ pc' \in {"sent", "storing"}
  /\ UNCHANGED got

HoldStore ==
  /\ pc = "storing"
  /\ WriteData(uart_tx_data)
  /\ pc' = "sent"
  /\ UNCHANGED got

\* if (UART_HAS_RX)
PollRx ==
  /\ pc = "sent"
  /\ ReadStatus
  /\ pc' = "rx_polled"
  /\ UNCHANGED got

\* rx = UART_DATA;
Receive ==
  /\ pc = "rx_polled" /\ UART_HAS_RX
  /\ ReadData
  /\ got' = do_int'
  /\ pc' \in {"main", "loading"}

HoldLoad ==
  /\ pc = "loading"
  /\ ReadData
  /\ got' = do_int'
  /\ pc' = "main"

NothingReceived ==
  /\ pc = "rx_polled" /\ ~UART_HAS_RX
  /\ NoAccess
  /\ pc' = "main"
  /\ UNCHANGED got

Program ==
  \/ PollTx \/ PollRx \/ Receive \/ HoldLoad \/ NothingReceived \/ HoldStore
  \/ \E b \in Data : Send(b)

-----------------------------------------------------------------------------
(* The host.                                                               *)

HostStarts(b) ==
  /\ host_left = 0 /\ ~busy
  /\ RxStart(b)
  /\ host_left' = TxCycles - 1

HostGoesOn ==
  /\ RxStep
  /\ host_left' = IF host_left = 0 THEN 0 ELSE host_left - 1

Transmit ==
  /\ TxStep(uart_tx_write, uart_tx_data)
  /\ heard' = IF tx_left = BitClk + 1 THEN tx_wire ELSE heard

Lines == Transmit /\ (HostGoesOn \/ \E b \in Data : HostStarts(b))

ProgramEdge == Program /\ Lines /\ UNCHANGED resets
IdleEdge == Compute /\ Lines /\ UNCHANGED resets

\* An edge with n_reset low.  The CPU restarts, but an access it had on the
\* bus may still reach the block, which has no reset; the host gives its byte
\* up.
Reset ==
  /\ resets < MaxResets
  /\ resets' = resets + 1
  /\ FrameReset
  /\ \/ NoAccess
     \/ ReadStatus
     \/ pc = "storing" /\ WriteData(uart_tx_data)
     \/ pc = "rx_polled" /\ UART_HAS_RX /\ ReadData
     \/ pc = "loading" /\ ReadData
     \/ pc = "tx_polled" /\ UART_TX_EMPTY /\ \E b \in Data : WriteData(b)
  /\ pc' = "main"
  /\ host_left' = 0
  /\ UNCHANGED <<got, heard>>

Next == ProgramEdge \/ IdleEdge \/ Reset

Spec == Init /\ [][Next]_vars /\ WF_vars(ProgramEdge)

-----------------------------------------------------------------------------

BlkTypeOK ==
  /\ FrameTypeOK
  /\ tx_buf_empty \in BOOLEAN /\ rx_has_data \in BOOLEAN /\ busy \in BOOLEAN
  /\ uart_tx_write \in BOOLEAN /\ uart_tx_data \in Data
  /\ do_int \in Known \union 0..3
  /\ pc \in {"main", "tx_polled", "storing", "sent", "rx_polled", "loading"}
  /\ got \in Known /\ heard \in Known /\ host_left \in 0..(TxCycles - 1)
  /\ resets \in 0..MaxResets

\* The bytes under way, on the wire or received and not yet taken.
TxQueue == IF uart_tx_write \/ tx_left > BitClk THEN <<uart_tx_data>> ELSE <<>>

RxQueue == (IF uart_rx_ready \/ rx_has_data THEN <<uart_rx_data>> ELSE <<>>)
             \o (IF rx_left > 0 THEN <<rx_wire>> ELSE <<>>)

(* The bytes the program writes reach the host, and those the host sends   *)
(* reach the program: whole, in order and once, although the status is     *)
(* stale when the program acts on it.  A reset may lose a byte, but never   *)
(* makes either side take one mixed of two (uartblk.v:62-93, uart.v:49-183, *)
(* c/uart_comm.c:15-36).                                                   *)
TxChannel == INSTANCE ByteChannel WITH
  Payload <- Data, queue <- TxQueue, taken <- heard

RxChannel == INSTANCE ByteChannel WITH
  Payload <- Data, queue <- RxQueue, taken <- got

TransmitsInOrder == TxChannel!Spec
ReceivesInOrder == RxChannel!Safety

(* "tx buf empty (1 = can write)": the flag is low only while a byte is on *)
(* its way, so the program does not wait for ever (uartblk.v:64-65,87).    *)
WriteAgain == ~tx_buf_empty ~> tx_buf_empty

(* Until a reset, the program can write again after every byte and takes   *)
(* every byte received (uartblk.v:64-67,77,82).                            *)
BothWaysLive ==
  /\ (~tx_buf_empty /\ resets = 0) ~> (tx_buf_empty \/ resets > 0)
  /\ (rx_has_data /\ resets = 0) ~> (~rx_has_data \/ resets > 0)

(* "low = accept data": until a reset cts is high only while a byte is     *)
(* coming in or waits for the program (uartblk.v:7,66-69,79-84).           *)
CtsHasCause ==
  busy /\ resets = 0 => rx_left > 0 \/ uart_rx_ready \/ rx_has_data
=============================================================================
