---------------------------- MODULE UartBlkProofs ---------------------------
(* What the UART block guarantees for every bit time and any bytes.        *)
EXTENDS UartBlk, SequenceTheorems, TLAPS

LEMMA CyclesAreNat == RxCycles \in Nat /\ TxCycles \in Nat /\ BitClk < RxCycles /\ RxCycles < TxCycles
<1>1. BitClk \div 2 \in Nat /\ BitClk \div 2 < BitClk
  BY FrameAssumption
<1> QED BY <1>1, FrameAssumption DEF RxCycles, TxCycles

\* cts has a cause, of which the block's flags know.
BlkInv == BlkTypeOK /\ CtsHasCause

LEMMA BlkInvInit == Init => BlkInv
<1> SUFFICES ASSUME Init PROVE BlkInv
  OBVIOUS
<1>1. 0 \in 0..RxCycles /\ 0 \in 0..TxCycles /\ 0 \in 0..(TxCycles - 1) /\ 0 \in 0..MaxResets
  BY CyclesAreNat, FrameAssumption, MaxResetsAssumption
<1>2. FrameTypeOK
  BY <1>1 DEF Init, FrameInit, FrameTypeOK, Known
<1>3. do_int \in Known \union 0..3
  BY DEF Init
<1>4. BlkTypeOK
  BY <1>1, <1>2, <1>3, Zenon DEF Init, BlkTypeOK, Known
<1>5. CtsHasCause
  BY DEF Init, CtsHasCause
<1> QED BY <1>4, <1>5 DEF BlkInv

-----------------------------------------------------------------------------
(* What each side of an edge does to its part of the invariant.            *)

\* The host's side keeps the receiver's types, and a byte does not vanish.
LEMMA HostSide ==
  ASSUME BlkInv, HostGoesOn \/ \E b \in Data : HostStarts(b)
  PROVE  /\ rx_left' \in 0..RxCycles /\ rx_wire' \in Known /\ uart_rx_data' \in Known
         /\ uart_rx_ready' \in BOOLEAN /\ host_left' \in 0..(TxCycles - 1)
         /\ rx_left > 0 => rx_left' > 0 \/ uart_rx_ready'
<1> USE DEF BlkInv, BlkTypeOK, FrameTypeOK
<1>1. rx_left' \in 0..RxCycles /\ host_left' \in 0..(TxCycles - 1)
  BY CyclesAreNat DEF HostGoesOn, RxStep, HostStarts, RxStart
<1>2. rx_wire' \in Known
  BY DEF HostGoesOn, RxStep, HostStarts, RxStart, Known
<1>3. uart_rx_data' \in Known
  BY DEF HostGoesOn, RxStep, HostStarts, RxStart, Known
<1>4. uart_rx_ready' \in BOOLEAN
  BY Zenon DEF HostGoesOn, RxStep, HostStarts, RxStart
<1>5. ASSUME rx_left > 0 PROVE rx_left' > 0 \/ uart_rx_ready'
  <2>1. CASE HostGoesOn
    <3>1. uart_rx_ready' <=> rx_left = 1
      BY <2>1, Zenon DEF HostGoesOn, RxStep
    <3>2. rx_left' = rx_left - 1
      BY <1>5, <2>1 DEF HostGoesOn, RxStep
    <3> QED BY <1>5, <3>1, <3>2
  <2>2. CASE ~HostGoesOn
    BY <1>5, <2>2 DEF HostStarts, RxStart
  <2> QED BY <2>1, <2>2
<1> QED BY <1>1, <1>2, <1>3, <1>4, <1>5

\* The transmitter's side keeps its types.
LEMMA TransmitSide ==
  ASSUME BlkInv, Transmit
  PROVE  /\ tx_left' \in 0..TxCycles /\ tx_wire' \in Known /\ uart_tx_finished' \in BOOLEAN
         /\ heard' \in Known
<1>1. tx_left' \in 0..TxCycles
  BY CyclesAreNat DEF Transmit, TxStep, BlkInv, BlkTypeOK, FrameTypeOK
<1>2. tx_wire' \in Known
  BY DEF Transmit, TxStep, BlkInv, BlkTypeOK, FrameTypeOK, Known
<1> QED BY <1>1, <1>2 DEF Transmit, TxStep, BlkInv, BlkTypeOK, FrameTypeOK

\* The registers of the block keep their types at any access.
LEMMA RegsSide ==
  ASSUME BlkInv, NoAccess \/ ReadStatus \/ ReadData \/ \E b \in Data : WriteData(b)
  PROVE  /\ tx_buf_empty' \in BOOLEAN /\ rx_has_data' \in BOOLEAN /\ busy' \in BOOLEAN
         /\ uart_tx_write' \in BOOLEAN /\ uart_tx_data' \in Data /\ do_int' \in Known \union 0..3
         /\ ReadData => do_int' \in Known
         /\ ReadData \/ (busy' = (busy \/ uart_rx_stopbit) /\ rx_has_data' = (rx_has_data \/ uart_rx_ready))
         /\ ReadData => busy' = FALSE
<1> USE DEF BlkInv, BlkTypeOK, FrameTypeOK
<1>1. do_int' \in Known \union 0..3
  BY DEF NoAccess, ReadStatus, ReadData, WriteData, Status, Flag
<1>2. uart_tx_data' \in Data
  BY Zenon DEF NoAccess, ReadStatus, ReadData, WriteData
<1>3. tx_buf_empty' \in BOOLEAN /\ uart_tx_write' \in BOOLEAN
  BY Zenon DEF NoAccess, ReadStatus, ReadData, WriteData
<1>4. rx_has_data' \in BOOLEAN /\ busy' \in BOOLEAN
  BY Zenon DEF NoAccess, ReadStatus, ReadData, WriteData, Pulse
<1>5. ReadData \/ Pulse
  BY DEF NoAccess, ReadStatus, WriteData
<1>6. ReadData => do_int' \in Known /\ busy' = FALSE
  BY Zenon DEF ReadData
<1> QED BY <1>1, <1>2, <1>3, <1>4, <1>5, <1>6 DEF Pulse

\* The accesses of the program, and where it goes.
LEMMA ProgramSide ==
  ASSUME BlkInv, Program \/ Compute
  PROVE  /\ NoAccess \/ ReadStatus \/ ReadData \/ \E b \in Data : WriteData(b)
         /\ got' = got \/ (ReadData /\ got' = do_int')
         /\ pc' \in {"main", "tx_polled", "storing", "sent", "rx_polled", "loading"}
  BY DEF Program, Compute, PollTx, Send, HoldStore, PollRx, Receive, HoldLoad, NothingReceived,
         BlkInv, BlkTypeOK

-----------------------------------------------------------------------------

LEMMA BlkInvNext == BlkInv /\ [Next]_vars => BlkInv'
<1> SUFFICES ASSUME BlkInv, [Next]_vars PROVE BlkInv'
  OBVIOUS
<1>1. CASE ProgramEdge \/ IdleEdge
  <2>1. (Program \/ Compute) /\ Lines /\ UNCHANGED resets
    BY <1>1 DEF ProgramEdge, IdleEdge
  <2>2. Transmit /\ (HostGoesOn \/ \E b \in Data : HostStarts(b))
    BY <2>1 DEF Lines
  <2>3. BlkTypeOK'
    BY <2>1, <2>2, HostSide, TransmitSide, RegsSide, ProgramSide
    DEF BlkInv, BlkTypeOK, FrameTypeOK
  <2>4. CtsHasCause'
    <3>1. uart_rx_stopbit => rx_left > 0
      BY FrameAssumption DEF uart_rx_stopbit, BlkInv, BlkTypeOK, FrameTypeOK
    <3> QED BY <2>1, <2>2, <3>1, HostSide, RegsSide, ProgramSide
      DEF BlkInv, BlkTypeOK, CtsHasCause
  <2> QED BY <2>3, <2>4 DEF BlkInv
<1>2. CASE Reset
  <2>1. resets' \in 0..MaxResets /\ resets' # 0
    BY <1>2, MaxResetsAssumption DEF Reset, BlkInv, BlkTypeOK
  <2>2. NoAccess \/ ReadStatus \/ ReadData \/ \E b \in Data : WriteData(b)
    BY <1>2 DEF Reset, BlkInv, BlkTypeOK
  <2>3. 0 \in 0..RxCycles /\ 0 \in 0..TxCycles /\ 0 \in 0..(TxCycles - 1)
    BY CyclesAreNat
  <2>4. FrameTypeOK'
    BY <1>2, <2>3, Zenon DEF Reset, FrameReset, BlkInv, BlkTypeOK, FrameTypeOK, Known
  <2>5. got' \in Known /\ heard' \in Known /\ host_left' \in 0..(TxCycles - 1) /\ pc' = "main"
    BY <1>2, <2>3, Zenon DEF Reset, BlkInv, BlkTypeOK
  <2>6. BlkTypeOK'
    BY <2>1, <2>2, <2>4, <2>5, RegsSide DEF BlkTypeOK
  <2> QED BY <2>1, <2>6 DEF BlkInv, CtsHasCause
<1>3. CASE UNCHANGED vars
  BY <1>3 DEF vars, regs, frameVars, BlkInv, BlkTypeOK, FrameTypeOK, CtsHasCause
<1> QED BY <1>1, <1>2, <1>3 DEF Next

-----------------------------------------------------------------------------
(* The one byte each way that may be under way.                            *)

\* cts keeps the host from sending until the program has read: the byte that
\* comes in, is announced or waits is the only one, and what the program saw
\* in the status register still holds when it acts on it.
RxOne ==
  /\ rx_left > 0 => ~uart_rx_ready /\ ~rx_has_data /\ pc # "loading" /\ rx_wire \in Data
  /\ rx_left \in 1..BitClk => uart_rx_data = rx_wire
  /\ rx_left \in 1..(BitClk - 1) \/ uart_rx_ready \/ rx_has_data => busy
  /\ uart_rx_ready \/ rx_has_data => uart_rx_data \in Data
  /\ uart_rx_ready => ~rx_has_data
  /\ pc = "rx_polled" /\ UART_HAS_RX => rx_has_data
  /\ pc = "loading" => ~uart_rx_ready /\ ~rx_has_data /\ got = uart_rx_data

\* The register of the byte written is left alone until its last bit is out.
TxOne ==
  /\ tx_buf_empty => ~uart_tx_write /\ tx_left = 0
  /\ uart_tx_write => tx_left = 0
  /\ uart_tx_finished => tx_left = 0 /\ ~uart_tx_write
  /\ tx_left \in (BitClk + 1)..(9 * BitClk) => tx_wire = uart_tx_data
  /\ pc = "tx_polled" /\ UART_TX_EMPTY => tx_buf_empty
  /\ pc = "storing" => uart_tx_write

\* The three kinds of edges, by what the program does to the block.
PlainEdge ==
  /\ Pulse /\ got' = got
  /\ tx_buf_empty' = (tx_buf_empty \/ uart_tx_finished)
  /\ uart_tx_write' = FALSE /\ uart_tx_data' = uart_tx_data
  /\ pc' \notin {"loading", "storing"}
  /\ pc' = "rx_polled" /\ UART_HAS_RX' => rx_has_data
  /\ pc' = "tx_polled" /\ UART_TX_EMPTY' => tx_buf_empty

WriteEdge ==
  /\ Pulse /\ got' = got
  /\ tx_buf_empty' = FALSE /\ uart_tx_write' = ~uart_tx_write
  /\ \/ pc = "tx_polled" /\ UART_TX_EMPTY /\ pc' \in {"sent", "storing"} /\ uart_tx_data' \in Data
     \/ pc = "storing" /\ pc' = "sent" /\ uart_tx_data' = uart_tx_data

ReadEdge ==
  /\ ReadData /\ got' = uart_rx_data
  /\ \/ pc = "rx_polled" /\ UART_HAS_RX /\ pc' \in {"main", "loading"}
     \/ pc = "loading" /\ pc' = "main"

LEMMA StatusBits ==
  ASSUME NEW status, status = Status
  PROVE  (status % 2 = 1 <=> rx_has_data) /\ ((status \div 2) % 2 = 1 <=> tx_buf_empty)
<1>1. Flag(tx_buf_empty) \in 0..1 /\ Flag(rx_has_data) \in 0..1
  BY DEF Flag
<1>2. (Flag(tx_buf_empty) = 1 <=> tx_buf_empty) /\ (Flag(rx_has_data) = 1 <=> rx_has_data)
  BY DEF Flag
<1> QED BY <1>1, <1>2 DEF Status

LEMMA EdgeKinds ==
  ASSUME BlkInv, RxOne, TxOne, Program \/ Compute
  PROVE  (pc # "loading" /\ pc # "storing" /\ PlainEdge) \/ WriteEdge \/ ReadEdge
<1>1. NoAccess => do_int' = do_int /\ Pulse /\ uart_tx_data' = uart_tx_data
  BY DEF NoAccess
<1>2. ReadStatus => (UART_HAS_RX' <=> rx_has_data) /\ (UART_TX_EMPTY' <=> tx_buf_empty)
  BY StatusBits DEF ReadStatus, UART_HAS_RX, UART_TX_EMPTY
<1>3. CASE Compute
  <2>1. pc' = pc /\ got' = got /\ pc \notin {"loading", "storing"} /\ NoAccess
    BY <1>3 DEF Compute
  <2>2. (UART_HAS_RX' <=> UART_HAS_RX) /\ (UART_TX_EMPTY' <=> UART_TX_EMPTY)
    BY <1>1, <2>1 DEF UART_HAS_RX, UART_TX_EMPTY
  <2> QED BY <1>1, <2>1, <2>2 DEF PlainEdge, NoAccess, RxOne, TxOne
<1>4. CASE PollTx
  BY <1>2, <1>4 DEF PollTx, ReadStatus, PlainEdge
<1>5. CASE PollRx
  BY <1>2, <1>5 DEF PollRx, ReadStatus, PlainEdge
<1>6. CASE NothingReceived
  BY <1>1, <1>6 DEF NothingReceived, NoAccess, PlainEdge
<1>7. ASSUME NEW b \in Data, Send(b) PROVE WriteEdge
  BY <1>7 DEF Send, WriteData, WriteEdge
<1>8. CASE HoldStore
  BY <1>8 DEF HoldStore, WriteData, WriteEdge
<1>9. CASE Receive \/ HoldLoad
  BY <1>9 DEF Receive, HoldLoad, ReadData, ReadEdge
<1> QED BY <1>3, <1>4, <1>5, <1>6, <1>7, <1>8, <1>9 DEF Program

\* An edge of the receiver and of the host.
LEMMA LineEdge ==
  ASSUME BlkInv, HostGoesOn \/ \E b \in Data : HostStarts(b)
  PROVE  \/ /\ rx_left = 0 /\ ~busy /\ rx_left' = RxCycles /\ ~uart_rx_ready' /\ rx_wire' \in Data
            /\ uart_rx_data' = uart_rx_data
         \/ /\ rx_left' = IF rx_left = 0 THEN 0 ELSE rx_left - 1
            /\ uart_rx_ready' <=> rx_left = 1
            /\ rx_wire' = rx_wire
            /\ rx_left = BitClk + 1 => uart_rx_data' = rx_wire
            /\ rx_left <= BitClk => uart_rx_data' = uart_rx_data
<1>1. CASE HostGoesOn
  <2>1. uart_rx_ready' <=> rx_left = 1
    BY <1>1, Zenon DEF HostGoesOn, RxStep
  <2>2. /\ rx_left' = IF rx_left = 0 THEN 0 ELSE rx_left - 1
        /\ rx_wire' = rx_wire
    BY <1>1 DEF HostGoesOn, RxStep
  <2>3. /\ rx_left = BitClk + 1 => uart_rx_data' = rx_wire
        /\ rx_left <= BitClk => uart_rx_data' = uart_rx_data
    BY <1>1, FrameAssumption DEF HostGoesOn, RxStep, BlkInv, BlkTypeOK, FrameTypeOK
  <2> QED BY <2>1, <2>2, <2>3
<1>2. ASSUME NEW b \in Data, HostStarts(b)
      PROVE  /\ rx_left = 0 /\ ~busy /\ rx_left' = RxCycles /\ ~uart_rx_ready' /\ rx_wire' \in Data
             /\ uart_rx_data' = uart_rx_data
  BY <1>2 DEF HostStarts, RxStart
<1> QED BY <1>1, <1>2

LEMMA RxOneEdge ==
  ASSUME BlkInv, RxOne, PlainEdge \/ WriteEdge \/ ReadEdge, pc = "loading" => ReadEdge,
         HostGoesOn \/ \E b \in Data : HostStarts(b)
  PROVE  RxOne'
<1> USE CyclesAreNat, FrameAssumption
<1>1. rx_left \in Nat
  BY DEF BlkInv, BlkTypeOK, FrameTypeOK
<1>2. CASE ReadEdge
  <2>1. rx_left = 0 /\ ~uart_rx_ready
    BY <1>1, <1>2 DEF ReadEdge, RxOne
  <2>2. ~rx_has_data' /\ uart_rx_data' = uart_rx_data /\ ~uart_rx_ready' /\ got' = uart_rx_data
    BY <1>2, <2>1, LineEdge DEF ReadEdge, ReadData
  <2>3. rx_left' = 0 \/ (rx_left' = RxCycles /\ ~busy /\ rx_wire' \in Data)
    BY <2>1, LineEdge
  <2>4. pc' = "loading" => busy
    BY <1>2 DEF ReadEdge, RxOne
  <2>5. pc' \in {"main", "loading"}
    BY <1>2 DEF ReadEdge
  <2> QED BY <2>2, <2>3, <2>4, <2>5 DEF RxOne
<1>3. CASE PlainEdge \/ WriteEdge
  <2>1. /\ Pulse /\ got' = got /\ pc' # "loading"
        /\ pc' = "rx_polled" /\ UART_HAS_RX' => rx_has_data
    BY <1>3 DEF PlainEdge, WriteEdge
  <2>2. /\ busy' <=> busy \/ uart_rx_stopbit
        /\ rx_has_data' <=> rx_has_data \/ uart_rx_ready
    BY <2>1, Zenon DEF Pulse
  <2>3. CASE /\ rx_left = 0 /\ ~busy /\ rx_left' = RxCycles /\ ~uart_rx_ready' /\ rx_wire' \in Data
             /\ uart_rx_data' = uart_rx_data
    BY <2>1, <2>2, <2>3 DEF RxOne
  <2>4. CASE /\ rx_left' = IF rx_left = 0 THEN 0 ELSE rx_left - 1
             /\ uart_rx_ready' <=> rx_left = 1
             /\ rx_wire' = rx_wire
             /\ rx_left = BitClk + 1 => uart_rx_data' = rx_wire
             /\ rx_left <= BitClk => uart_rx_data' = uart_rx_data
    <3>1. CASE rx_left = 0
      BY <2>1, <2>2, <2>4, <3>1 DEF RxOne
    <3>2. CASE rx_left \in 1..BitClk
      <4>1. busy'
        BY <2>2, <3>2 DEF uart_rx_stopbit
      <4> QED BY <2>1, <2>2, <2>4, <3>2, <4>1 DEF RxOne
    <3>3. CASE rx_left > BitClk
      BY <1>1, <2>1, <2>2, <2>4, <3>3 DEF RxOne
    <3> QED BY <1>1, <3>1, <3>2, <3>3
  <2> QED BY <2>3, <2>4, LineEdge
<1> QED BY <1>2, <1>3

\* An edge of the transmitter, as long as what it sends is left alone.
LEMMA TransmitEdge ==
  ASSUME BlkInv, TxOne, Transmit
  PROVE  /\ uart_tx_finished' <=> tx_left = 1
         /\ tx_left > 0 => tx_left' = tx_left - 1
         /\ tx_left = 0 => tx_left' = IF uart_tx_write THEN TxCycles ELSE 0
         /\ tx_left \in (BitClk + 2)..(9 * BitClk + 1) => tx_wire' = uart_tx_data
         /\ heard' = IF tx_left = BitClk + 1 THEN tx_wire ELSE heard
<1> USE FrameAssumption
<1>1. tx_left \in Nat /\ uart_tx_write \in BOOLEAN
  BY CyclesAreNat DEF BlkInv, BlkTypeOK, FrameTypeOK
<1>2. uart_tx_finished' <=> tx_left = 1
  BY Zenon DEF Transmit, TxStep
<1>3. /\ tx_left > 0 => tx_left' = tx_left - 1
      /\ tx_left = 0 => tx_left' = IF uart_tx_write THEN TxCycles ELSE 0
  <2>1. tx_left' = CASE tx_left > 0 -> tx_left - 1
                     [] tx_left = 0 /\ uart_tx_write -> TxCycles
                     [] OTHER -> 0
    BY Zenon DEF Transmit, TxStep
  <2> QED BY <1>1, <2>1
<1>4. tx_left \in (BitClk + 2)..(9 * BitClk + 1) => tx_wire' = uart_tx_data
  <2> SUFFICES ASSUME tx_left \in (BitClk + 2)..(9 * BitClk + 1)
               PROVE  tx_wire' = uart_tx_data
    OBVIOUS
  <2> DEFINE bit == \E k \in 2..8 : tx_left = k * BitClk + 1
  <2>1. ASSUME NEW k \in 2..8 PROVE k * BitClk < 9 * BitClk
    <3>1. k = 2 \/ k = 3 \/ k = 4 \/ k = 5 \/ k = 6 \/ k = 7 \/ k = 8
      OBVIOUS
    <3> QED BY <3>1
  <2>2. tx_left = 9 * BitClk + 1 => ~bit
    BY <2>1
  <2>3. tx_wire' = CASE tx_left = 0 /\ uart_tx_write -> Garbled
                     [] tx_left = 9 * BitClk + 1 -> uart_tx_data
                     [] bit /\ uart_tx_data # tx_wire -> Garbled
                     [] OTHER -> tx_wire
    BY Zenon DEF Transmit, TxStep
  <2> HIDE DEF bit
  <2>4. CASE tx_left = 9 * BitClk + 1
    BY <2>2, <2>3, <2>4
  <2>5. CASE tx_left <= 9 * BitClk
    BY <2>3, <2>5 DEF TxOne
  <2> QED BY <2>4, <2>5
<1>5. heard' = IF tx_left = BitClk + 1 THEN tx_wire ELSE heard
  BY DEF Transmit
<1> QED BY <1>2, <1>3, <1>4, <1>5

LEMMA TxOneEdge ==
  ASSUME BlkInv, TxOne, Transmit, (pc # "storing" /\ (PlainEdge \/ ReadEdge)) \/ WriteEdge
  PROVE  TxOne'
<1> USE CyclesAreNat, FrameAssumption
<1>1. tx_left \in Nat
  BY DEF BlkInv, BlkTypeOK, FrameTypeOK
<1>2. CASE PlainEdge \/ ReadEdge
  <2>1. /\ tx_buf_empty' <=> tx_buf_empty \/ uart_tx_finished
        /\ ~uart_tx_write' /\ uart_tx_data' = uart_tx_data
    BY <1>2, Zenon DEF PlainEdge, ReadEdge, ReadData
  <2>2. /\ pc' # "storing"
        /\ pc' = "tx_polled" /\ UART_TX_EMPTY' => tx_buf_empty
    BY <1>2 DEF PlainEdge, ReadEdge
  <2>3. tx_buf_empty' => tx_left' = 0
    BY <2>1, TransmitEdge DEF TxOne
  <2>4. uart_tx_finished' => tx_left' = 0
    BY <1>1, TransmitEdge
  <2>5. tx_left' \in (BitClk + 1)..(9 * BitClk) => tx_wire' = uart_tx_data'
    <3>1. tx_left' \in (BitClk + 1)..(9 * BitClk) => tx_left \in (BitClk + 2)..(9 * BitClk + 1)
      BY <1>1, TransmitEdge DEF TxCycles
    <3> QED BY <2>1, <3>1, TransmitEdge
  <2> QED BY <2>1, <2>2, <2>3, <2>4, <2>5 DEF TxOne
<1>3. CASE WriteEdge
  <2>1. tx_left = 0
    BY <1>3 DEF WriteEdge, TxOne
  <2>2. ~tx_buf_empty' /\ (uart_tx_write' <=> ~uart_tx_write)
    BY <1>3, Zenon DEF WriteEdge
  <2>3. ~uart_tx_finished'
    BY <2>1, TransmitEdge
  <2>4. CASE uart_tx_write
    BY <1>3, <2>1, <2>2, <2>3, <2>4, TransmitEdge DEF TxOne, WriteEdge, TxCycles
  <2>5. CASE ~uart_tx_write
    BY <1>3, <2>1, <2>2, <2>3, <2>5, TransmitEdge DEF TxOne, WriteEdge, TxCycles
  <2> QED BY <2>4, <2>5
<1> QED BY <1>2, <1>3

\* A reset drops what is on the lines; the flags outlive it.
LEMMA OneReset ==
  ASSUME BlkInv, RxOne, TxOne, Reset
  PROVE  RxOne' /\ TxOne'
<1> USE FrameAssumption
<1>1. /\ rx_left' = 0 /\ ~uart_rx_ready' /\ tx_left' = 0 /\ ~uart_tx_finished'
      /\ uart_rx_data' = uart_rx_data /\ pc' = "main"
  BY Zenon DEF Reset, FrameReset
<1>2. CASE NoAccess \/ ReadStatus \/ \E b \in Data : WriteData(b)
  <2>1. Pulse
    BY <1>2 DEF NoAccess, ReadStatus, WriteData
  <2>2. /\ busy' <=> busy \/ uart_rx_stopbit
        /\ rx_has_data' <=> rx_has_data \/ uart_rx_ready
    BY <2>1, Zenon DEF Pulse
  <2>3. RxOne'
    BY <1>1, <2>2 DEF RxOne
  <2>4. tx_buf_empty' => ~uart_tx_write'
    BY <1>2, Zenon DEF NoAccess, ReadStatus, WriteData
  <2> QED BY <1>1, <2>3, <2>4 DEF TxOne
<1>3. CASE ReadData
  <2>1. ~rx_has_data' /\ ~uart_tx_write'
    BY <1>3, Zenon DEF ReadData
  <2> QED BY <1>1, <2>1 DEF RxOne, TxOne
<1> QED BY <1>2, <1>3 DEF Reset, BlkInv, BlkTypeOK

WireInv == BlkInv /\ RxOne /\ TxOne

LEMMA WireInvInit == Init => WireInv
<1> SUFFICES ASSUME Init PROVE WireInv
  OBVIOUS
<1>1. RxOne /\ TxOne
  BY FrameAssumption DEF Init, FrameInit, RxOne, TxOne
<1> QED BY <1>1, BlkInvInit DEF WireInv

LEMMA WireInvNext == WireInv /\ [Next]_vars => WireInv'
<1> SUFFICES ASSUME WireInv, [Next]_vars PROVE WireInv'
  OBVIOUS
<1>1. BlkInv'
  BY BlkInvNext DEF WireInv
<1>2. CASE ProgramEdge \/ IdleEdge
  <2>1. /\ Transmit /\ (HostGoesOn \/ \E b \in Data : HostStarts(b))
        /\ Program \/ Compute
    BY <1>2 DEF ProgramEdge, IdleEdge, Lines
  <2>2. (pc # "loading" /\ pc # "storing" /\ PlainEdge) \/ WriteEdge \/ ReadEdge
    BY <2>1, EdgeKinds DEF WireInv
  <2>3. (ReadEdge => pc # "storing") /\ (WriteEdge => pc # "loading")
    BY DEF ReadEdge, WriteEdge
  <2>4. RxOne'
    BY <2>1, <2>2, <2>3, RxOneEdge DEF WireInv
  <2>5. TxOne'
    BY <2>1, <2>2, <2>3, TxOneEdge DEF WireInv
  <2> QED BY <1>1, <2>4, <2>5 DEF WireInv
<1>3. CASE Reset
  BY <1>1, <1>3, OneReset DEF WireInv
<1>4. CASE UNCHANGED vars
  <2>1. RxOne' /\ TxOne'
    BY <1>4 DEF vars, regs, frameVars, WireInv, RxOne, TxOne, UART_HAS_RX, UART_TX_EMPTY
  <2> QED BY <1>1, <2>1 DEF WireInv
<1> QED BY <1>2, <1>3, <1>4 DEF Next

-----------------------------------------------------------------------------
(* Each direction is a channel: what a step does to the byte under way.    *)

\* The byte coming in, as the channel has it: one, or none.
Incoming ==
  IF uart_rx_ready \/ rx_has_data THEN <<uart_rx_data>>
  ELSE IF rx_left > 0 THEN <<rx_wire>> ELSE <<>>

RxQueueKnown == RxQueue = Incoming

LEMMA RxQueueIs == WireInv => RxQueueKnown
<1> SUFFICES ASSUME WireInv PROVE RxQueueKnown
  OBVIOUS
<1>1. rx_left > 0 => ~uart_rx_ready /\ ~rx_has_data
  BY DEF WireInv, RxOne
<1>2. <<>> \o <<rx_wire>> = <<rx_wire>> /\ <<uart_rx_data>> \o <<>> = <<uart_rx_data>>
      /\ <<>> \o <<>> = <<>>
  OBVIOUS
<1> QED BY <1>1, <1>2 DEF RxQueue, Incoming, RxQueueKnown

\* Between resets the byte waits until the program reads it, or, where none
\* waits, the host may send the next.
LEMMA RxQueueEdge ==
  ASSUME WireInv, WireInv', PlainEdge \/ WriteEdge \/ ReadEdge, pc = "loading" => ReadEdge,
         HostGoesOn \/ \E b \in Data : HostStarts(b)
  PROVE  \/ RxQueue' = RxQueue /\ got' = got
         \/ RxQueue = <<>> /\ got' = got /\ \E b \in Data : RxQueue' = <<b>>
         \/ RxQueue = <<got'>> /\ RxQueue' = <<>>
<1> USE CyclesAreNat, FrameAssumption
<1>1. rx_left \in Nat
  BY DEF WireInv, BlkInv, BlkTypeOK, FrameTypeOK
<1>2. RxQueue = Incoming /\ RxQueue' = Incoming'
  <2>1. RxQueueKnown /\ RxQueueKnown'
    BY RxQueueIs, PTL
  <2> QED BY <2>1 DEF RxQueueKnown
<1>3. CASE ReadEdge
  <2>1. /\ rx_left = 0 /\ ~uart_rx_ready /\ ~rx_has_data'
        /\ got' = uart_rx_data
        /\ \/ pc = "rx_polled" /\ rx_has_data
           \/ pc = "loading" /\ ~rx_has_data /\ got = uart_rx_data
    BY <1>1, <1>3 DEF ReadEdge, ReadData, WireInv, RxOne
  <2>2. \/ ~busy /\ rx_left' = RxCycles /\ ~uart_rx_ready' /\ rx_wire' \in Data
        \/ rx_left' = 0 /\ ~uart_rx_ready'
    BY <2>1, LineEdge DEF WireInv
  <2>3. rx_has_data => busy
    BY DEF WireInv, RxOne
  <2> QED BY <1>2, <2>1, <2>2, <2>3 DEF Incoming
<1>4. CASE PlainEdge \/ WriteEdge
  <2>1. Pulse /\ got' = got
    BY <1>4 DEF PlainEdge, WriteEdge
  <2>2. rx_has_data' <=> rx_has_data \/ uart_rx_ready
    BY <2>1, Zenon DEF Pulse
  <2>3. CASE rx_left = 0 /\ ~busy /\ rx_left' = RxCycles /\ ~uart_rx_ready' /\ rx_wire' \in Data
    <3>1. ~uart_rx_ready /\ ~rx_has_data
      BY <2>3 DEF WireInv, RxOne
    <3> QED BY <1>2, <2>1, <2>2, <2>3, <3>1 DEF Incoming
  <2>4. CASE /\ rx_left' = IF rx_left = 0 THEN 0 ELSE rx_left - 1
             /\ uart_rx_ready' <=> rx_left = 1
             /\ rx_wire' = rx_wire
             /\ rx_left <= BitClk => uart_rx_data' = uart_rx_data
    <3>1. CASE rx_left = 0
      BY <1>2, <2>1, <2>2, <2>4, <3>1 DEF Incoming
    <3>2. CASE rx_left = 1
      <4>1. uart_rx_data = rx_wire /\ ~uart_rx_ready /\ ~rx_has_data
        BY <3>2 DEF WireInv, RxOne
      <4> QED BY <1>2, <2>1, <2>2, <2>4, <3>2, <4>1 DEF Incoming
    <3>3. CASE rx_left > 1
      <4>1. ~uart_rx_ready /\ ~rx_has_data
        BY <1>1, <3>3 DEF WireInv, RxOne
      <4> QED BY <1>1, <1>2, <2>1, <2>2, <2>4, <3>3, <4>1 DEF Incoming
    <3> QED BY <1>1, <3>1, <3>2, <3>3
  <2> QED BY <2>3, <2>4, LineEdge DEF WireInv
<1> QED BY <1>3, <1>4

\* The byte going out: written, at most once, and heard whole.
LEMMA TxQueueEdge ==
  ASSUME WireInv, Transmit, (pc # "storing" /\ (PlainEdge \/ ReadEdge)) \/ WriteEdge
  PROVE  \/ TxQueue' = TxQueue /\ heard' = heard
         \/ TxQueue = <<>> /\ heard' = heard /\ \E b \in Data : TxQueue' = <<b>>
         \/ TxQueue = <<heard'>> /\ TxQueue' = <<>>
<1> USE CyclesAreNat, FrameAssumption DEF WireInv
<1>1. tx_left \in Nat /\ BitClk < TxCycles
  BY DEF BlkInv, BlkTypeOK, FrameTypeOK
<1>2. CASE PlainEdge \/ ReadEdge
  <2>1. ~uart_tx_write' /\ uart_tx_data' = uart_tx_data
    BY <1>2, Zenon DEF PlainEdge, ReadEdge, ReadData
  <2>2. CASE tx_left = BitClk + 1
    <3>1. tx_wire = uart_tx_data
      BY <2>2 DEF TxOne
    <3> QED BY <1>1, <2>1, <2>2, <3>1, TransmitEdge DEF TxQueue
  <2>3. CASE tx_left = 0
    BY <1>1, <2>1, <2>3, TransmitEdge DEF TxQueue
  <2>4. CASE tx_left # 0 /\ tx_left # BitClk + 1
    <3>1. ~uart_tx_write
      BY <2>4 DEF TxOne
    <3> QED BY <1>1, <2>1, <2>4, <3>1, TransmitEdge DEF TxQueue
  <2> QED BY <2>2, <2>3, <2>4
<1>3. CASE WriteEdge
  <2>1. tx_left = 0
    BY <1>3 DEF WriteEdge, TxOne
  <2>2. heard' = heard /\ tx_left' = IF uart_tx_write THEN TxCycles ELSE 0
    BY <2>1, TransmitEdge
  <2>3. uart_tx_write' <=> ~uart_tx_write
    BY <1>3, Zenon DEF WriteEdge
  <2>4. CASE pc = "tx_polled" /\ UART_TX_EMPTY /\ uart_tx_data' \in Data
    <3>1. ~uart_tx_write
      BY <2>4 DEF TxOne
    <3> QED BY <2>1, <2>2, <2>3, <2>4, <3>1 DEF TxQueue
  <2>5. CASE pc = "storing" /\ uart_tx_data' = uart_tx_data
    <3>1. uart_tx_write
      BY <2>5 DEF TxOne
    <3> QED BY <1>1, <2>1, <2>2, <2>3, <2>5, <3>1 DEF TxQueue
  <2> QED BY <1>3, <2>4, <2>5 DEF WriteEdge
<1> QED BY <1>2, <1>3

\* A reset keeps the byte under way or loses it.
LEMMA QueuesReset ==
  ASSUME WireInv, WireInv', Reset
  PROVE  /\ RxQueue' = <<>> \/ RxQueue' = RxQueue
         /\ TxQueue' = <<>> \/ TxQueue' = TxQueue \/ \E b \in Data : TxQueue' = <<b>>
<1> USE CyclesAreNat, FrameAssumption
<1>1. /\ rx_left' = 0 /\ ~uart_rx_ready' /\ tx_left' = 0
      /\ uart_rx_data' = uart_rx_data
  BY Zenon DEF Reset, FrameReset
<1>2. uart_tx_data' \in Data
  BY DEF WireInv, BlkInv, BlkTypeOK
<1>3. rx_has_data' => uart_rx_ready \/ rx_has_data
  BY Zenon DEF Reset, NoAccess, ReadStatus, ReadData, WriteData, Pulse
<1>4. RxQueue = Incoming /\ RxQueue' = Incoming'
  <2>1. RxQueueKnown /\ RxQueueKnown'
    BY RxQueueIs, PTL
  <2> QED BY <2>1 DEF RxQueueKnown
<1>5. RxQueue' = <<>> \/ RxQueue' = RxQueue
  BY <1>1, <1>3, <1>4 DEF Incoming
<1>6. TxQueue' = <<>> \/ \E b \in Data : TxQueue' = <<b>>
  BY <1>1, <1>2 DEF TxQueue
<1> QED BY <1>5, <1>6

LEMMA ChannelsInit == Init => RxChannel!Init /\ TxChannel!Init
<1> SUFFICES ASSUME Init PROVE RxChannel!Init /\ TxChannel!Init
  OBVIOUS
<1>1. RxQueue = <<>>
  BY WireInvInit, RxQueueIs DEF RxQueueKnown, Incoming, Init, FrameInit
<1>2. TxQueue = <<>>
  BY FrameAssumption DEF Init, FrameInit, TxQueue
<1> QED BY <1>1, <1>2 DEF Init, RxChannel!Init, TxChannel!Init

\* One byte at a time is a special case of what a channel allows.
LEMMA OneByteChannel ==
  ASSUME NEW queue, NEW nqueue, NEW b, queue = <<>>, nqueue = <<b>>
  PROVE  Len(queue) < 2 /\ nqueue = Append(queue, b)
  OBVIOUS

LEMMA ChannelsNext ==
  ASSUME WireInv, WireInv', [Next]_vars
  PROVE  [RxChannel!Next]_RxChannel!vars /\ [TxChannel!Next]_TxChannel!vars
<1>1. CASE ProgramEdge \/ IdleEdge
  <2>1. /\ Transmit /\ (HostGoesOn \/ \E b \in Data : HostStarts(b))
        /\ Program \/ Compute
        /\ resets' = resets
    BY <1>1 DEF ProgramEdge, IdleEdge, Lines
  <2>2. (pc # "loading" /\ pc # "storing" /\ PlainEdge) \/ WriteEdge \/ ReadEdge
    BY <2>1, EdgeKinds DEF WireInv
  <2>3. (ReadEdge => pc # "storing") /\ (WriteEdge => pc # "loading")
    BY DEF ReadEdge, WriteEdge
  <2>4. [RxChannel!Next]_RxChannel!vars
    <3>1. \/ RxQueue' = RxQueue /\ got' = got
          \/ RxQueue = <<>> /\ got' = got /\ \E b \in Data : RxQueue' = <<b>>
          \/ RxQueue = <<got'>> /\ RxQueue' = <<>>
      BY <2>1, <2>2, <2>3, RxQueueEdge
    <3>2. CASE RxQueue' = RxQueue /\ got' = got
      BY <2>1, <3>2 DEF RxChannel!vars
    <3>3. ASSUME NEW b \in Data, RxQueue = <<>>, got' = got, RxQueue' = <<b>>
          PROVE  RxChannel!Next
      BY <2>1, <3>3, OneByteChannel DEF RxChannel!Next, RxChannel!Send
    <3>4. CASE RxQueue = <<got'>> /\ RxQueue' = <<>>
      BY <2>1, <3>4 DEF RxChannel!Next, RxChannel!Take
    <3> QED BY <3>1, <3>2, <3>3, <3>4
  <2>5. [TxChannel!Next]_TxChannel!vars
    <3>1. \/ TxQueue' = TxQueue /\ heard' = heard
          \/ TxQueue = <<>> /\ heard' = heard /\ \E b \in Data : TxQueue' = <<b>>
          \/ TxQueue = <<heard'>> /\ TxQueue' = <<>>
      BY <2>1, <2>2, <2>3, TxQueueEdge
    <3>2. CASE TxQueue' = TxQueue /\ heard' = heard
      BY <2>1, <3>2 DEF TxChannel!vars
    <3>3. ASSUME NEW b \in Data, TxQueue = <<>>, heard' = heard, TxQueue' = <<b>>
          PROVE  TxChannel!Next
      BY <2>1, <3>3, OneByteChannel DEF TxChannel!Next, TxChannel!Send
    <3>4. CASE TxQueue = <<heard'>> /\ TxQueue' = <<>>
      BY <2>1, <3>4 DEF TxChannel!Next, TxChannel!Take
    <3> QED BY <3>1, <3>2, <3>3, <3>4
  <2> QED BY <2>4, <2>5
<1>2. CASE Reset
  <2>1. resets' = resets + 1 /\ got' = got /\ heard' = heard
    BY <1>2 DEF Reset
  <2>2. uart_tx_data \in Data
    BY DEF WireInv, BlkInv, BlkTypeOK
  <2>3. RxChannel!Reset
    <3>1. (\E x : RxQueue = <<x>>) \/ RxQueue = <<>>
      BY RxQueueIs DEF RxQueueKnown, Incoming
    <3>2. RxQueue' \in RxChannel!Survivors
      <4>1. CASE RxQueue' = <<>>
        BY <4>1 DEF RxChannel!Survivors
      <4>2. ASSUME NEW x, RxQueue = <<x>>, RxQueue' = RxQueue PROVE RxQueue' \in RxChannel!Survivors
        <5>1. 1 \in DOMAIN <<x>> /\ <<x>> \in Seq({x}) /\ Len(<<x>>) = 1
          OBVIOUS
        <5>2. SubSeq(<<x>>, 1, 1) = <<x>>
          BY <5>1, SubSeqFull
        <5> QED BY <4>2, <5>1, <5>2 DEF RxChannel!Survivors
      <4> QED BY <1>2, <3>1, <4>1, <4>2, QueuesReset
    <3> QED BY <2>1, <2>2, <3>2 DEF RxChannel!Reset
  <2>4. TxChannel!Reset
    <3>1. TxQueue' = <<>> \/ TxQueue' = <<uart_tx_data>> \/ \E b \in Data : TxQueue' = <<b>>
      BY <1>2, QueuesReset DEF TxQueue
    <3>2. <<>> \in TxChannel!Survivors
      BY DEF TxChannel!Survivors
    <3>3. ASSUME NEW b PROVE Append(<<>>, b) = <<b>>
      OBVIOUS
    <3> QED BY <2>1, <2>2, <3>1, <3>2, <3>3 DEF TxChannel!Reset
  <2> QED BY <2>3, <2>4 DEF RxChannel!Next, TxChannel!Next
<1>3. CASE UNCHANGED vars
  BY <1>3 DEF vars, regs, frameVars, RxQueue, TxQueue, RxChannel!vars, TxChannel!vars
<1> QED BY <1>1, <1>2, <1>3 DEF Next

(* Every byte the host sends reaches the program, whole, in order and once, *)
(* unless a reset loses it (uartblk.v:62-93, uart.v:110-183).              *)
THEOREM BytesReceived == Spec => ReceivesInOrder
<1>1. WireInv /\ [Next]_vars => [RxChannel!Next]_RxChannel!vars
  BY WireInvNext, ChannelsNext
<1>2. Init => RxChannel!Init
  BY ChannelsInit
<1> QED BY <1>1, <1>2, WireInvInit, WireInvNext, PTL DEF Spec, ReceivesInOrder, RxChannel!Safety

(* Every byte the program writes is heard by the host, whole, in order and *)
(* once, unless a reset loses it: all of TransmitsInOrder but the promise  *)
(* that it is heard at last (uartblk.v:62-93, uart.v:49-108).              *)
THEOREM BytesTransmitted == Spec => TxChannel!Safety
<1>1. WireInv /\ [Next]_vars => [TxChannel!Next]_TxChannel!vars
  BY WireInvNext, ChannelsNext
<1>2. Init => TxChannel!Init
  BY ChannelsInit
<1> QED BY <1>1, <1>2, WireInvInit, WireInvNext, PTL DEF Spec, TxChannel!Safety

(* The registers of the block stay in their ranges (uartblk.v:33-60).      *)
THEOREM BlkTypeCorrect == Spec => []BlkTypeOK
<1>1. BlkInv => BlkTypeOK
  BY DEF BlkInv
<1> QED BY <1>1, BlkInvInit, BlkInvNext, PTL DEF Spec

(* Until a reset cts is high only while a byte is coming in or waits       *)
(* (uartblk.v:66-69,79-84).                                                *)
THEOREM CtsIsCaused == Spec => []CtsHasCause
<1>1. BlkInv => CtsHasCause
  BY DEF BlkInv
<1> QED BY <1>1, BlkInvInit, BlkInvNext, PTL DEF Spec
=============================================================================
