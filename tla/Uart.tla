-------------------------------- MODULE Uart --------------------------------
(***************************************************************************)
(* extra/uart.v as a whole: its transmitter and its receiver on one clock, *)
(* with the reset that clears both.  The line comes from a peer that sends *)
(* well-formed frames with the same bit time, and may send one on through  *)
(* a reset: the receiver then takes any of its bits for a start bit, and   *)
(* finds its own stop bit at any level.  The client may pulse tx_write and *)
(* change tx_data at any edge.                                             *)
(***************************************************************************)
EXTENDS UartTx, UartRx

CONSTANTS Payload,   \* the bytes the peer and the client send
          Garbled

ASSUME PayloadAssumption ==
  Payload \subseteq Byte /\ Payload # {} /\ Garbled \notin Byte

VARIABLES peer_left,   \* cycles left of the peer's frame
          peer_data,   \* the byte it sends
          in_step,     \* history: the receiver took a start bit for its last start
          mixed,       \* history: rx_data holds bits of more than one byte
          sent         \* history: the bytes data bits were taken from

vars == <<txVars, rxVars, peer_left, peer_data, in_step, mixed, sent>>

Init ==
  /\ TxInit
  /\ RxInit
  /\ peer_left = 0
  /\ peer_data \in Payload
  /\ in_step = TRUE
  /\ mixed = TRUE
  /\ sent = {}

FrameBits == 10 * BitClk

\* The level of the peer's line `left' cycles before the end of a frame of b.
Level(left, b) ==
  LET bit == (FrameBits - left) \div BitClk
  IN CASE bit = 0 -> 0
       [] bit \in 1..8 -> b[bit - 1]
       [] OTHER -> 1

\* `first' at the first edge of a frame.
Receive(line, first) ==
  /\ RxTick(line)
  /\ in_step' = IF ~rx_inprogress /\ line = 0 THEN first ELSE in_step
  /\ mixed' = IF rx_bit' # rx_bit /\ rx_bit # 8 THEN rx_bit # 7 \/ ~in_step ELSE mixed

\* The receiver's side of an edge: the peer idles, starts or goes on.
PeerIdle ==
  /\ peer_left = 0
  /\ Receive(1, FALSE)
  /\ UNCHANGED <<peer_left, peer_data>>

PeerStart(b) ==
  /\ peer_left = 0
  /\ Receive(Level(FrameBits, b), TRUE)
  /\ peer_left' = FrameBits - 1
  /\ peer_data' = b

PeerDrive ==
  /\ peer_left > 0
  /\ Receive(Level(peer_left, peer_data), FALSE)
  /\ peer_left' = peer_left - 1
  /\ UNCHANGED peer_data

\* The transmitter's side of it.
ClientEdge(write, data) ==
  /\ TxTick(write, data)
  /\ sent' = CASE tx_inprogress /\ tx_cnt = 1 /\ tx_bit < 8 -> sent \union {data}
               [] ~tx_inprogress /\ write -> {}
               [] OTHER -> sent

Tick ==
  /\ PeerIdle \/ PeerDrive \/ \E b \in Payload : PeerStart(b)
  /\ \E write \in BOOLEAN, data \in Payload : ClientEdge(write, data)

\* The peer gives its byte up, or sends it on.
Reset ==
  /\ TxReset
  /\ RxReset
  /\ peer_left' \in {0, IF peer_left = 0 THEN 0 ELSE peer_left - 1}
  /\ sent' = {}
  /\ UNCHANGED <<peer_data, in_step, mixed>>

Next == Tick \/ Reset

Spec == Init /\ [][Next]_vars

-----------------------------------------------------------------------------

UartTypeOK ==
  /\ TxTypeOK
  /\ RxTypeOK
  /\ peer_left \in 0..(FrameBits - 1)
  /\ peer_data \in Payload
  /\ in_step \in BOOLEAN
  /\ mixed \in BOOLEAN
  /\ sent \subseteq Payload

Frame == INSTANCE UartFrame WITH
  Data <- Payload,
  rx_left <- IF rx_inprogress THEN (8 - rx_bit) * BitClk + Remaining(rx_cnt) ELSE 0,
  rx_wire <- IF in_step THEN peer_data ELSE Garbled,
  uart_rx_data <- IF mixed THEN Garbled ELSE rx_data,
  uart_rx_ready <- rx_ready,
  tx_left <- IF tx_inprogress THEN (9 - tx_bit) * BitClk + tx_cnt ELSE 0,
  tx_wire <- IF \E b \in sent : sent = {b} THEN CHOOSE b \in sent : TRUE ELSE Garbled,
  uart_tx_finished <- tx_finished

(* The registers of uart.v keep, to the cycle, the frame timing dbgu32 and *)
(* uartblk are modelled on, whatever the client does to tx_write and       *)
(* tx_data and wherever a reset falls (uart.v:49-114,124-183).  A byte     *)
(* that is announced is the peer's unless the receiver started in one.     *)
ImplementsFrame == Frame!FrameSpec

(* rx_stopbit is high exactly from the sample of the last data bit until   *)
(* rx_ready, the window in which the units raise cts (uart.v:77-96).       *)
StopbitWindow == rx_stopbit <=> Frame!uart_rx_stopbit
=============================================================================
