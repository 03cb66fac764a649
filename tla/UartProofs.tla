----------------------------- MODULE UartProofs -----------------------------
(***************************************************************************)
(* One UART implements the frame timing for every bit time and counter     *)
(* width.  The invariant gives each register its meaning in a frame; a     *)
(* receiver in step is as far in the peer's frame as its counters say.     *)
(***************************************************************************)
EXTENDS Uart, TLAPS

Half == BitClk \div 2
RxLeft == IF rx_inprogress THEN (8 - rx_bit) * BitClk + Remaining(rx_cnt) ELSE 0
RxByte == IF mixed THEN Garbled ELSE rx_data
RxWire == IF in_step THEN peer_data ELSE Garbled
TxLeft == IF tx_inprogress THEN (9 - tx_bit) * BitClk + tx_cnt ELSE 0

RxFlags == /\ rx_inprogress \in BOOLEAN /\ rx_stopbit \in BOOLEAN /\ rx_ready \in BOOLEAN
           /\ in_step \in BOOLEAN /\ mixed \in BOOLEAN
RxNumbers == /\ rx_bit \in 0..8 /\ rx_cnt \in 0..(CntMod - 1) /\ rx_data \in Byte
             /\ peer_left \in 0..(FrameBits - 1) /\ peer_data \in Payload

RxRest == ~rx_inprogress => rx_bit = 0 /\ rx_cnt = Load(OneAndHalfBitClk)
RxCounts ==
  rx_inprogress => IF rx_bit = 0 THEN Remaining(rx_cnt) <= OneAndHalfBitClk
                                 ELSE rx_cnt \in 1..BitClk
RxStops == rx_stopbit <=> rx_inprogress /\ rx_bit = 8
RxMixes == rx_inprogress /\ rx_bit \in 1..7 => mixed
InPlace == rx_inprogress /\ in_step => peer_left = RxLeft + BitClk - Half - 1
Taken ==
  rx_inprogress /\ in_step => \A i \in Bits : i < rx_bit => rx_data[i] = peer_data[i]

RxInv == RxFlags /\ RxNumbers /\ RxRest /\ RxCounts /\ RxStops /\ RxMixes /\ InPlace /\ Taken

TxFlags == tx_inprogress \in BOOLEAN /\ tx_finished \in BOOLEAN
TxNumbers == /\ tx_bit \in 0..9 /\ tx_cnt \in 1..BitClk /\ tx_ \in {0, 1}
             /\ sent \subseteq Payload
TxRest == ~tx_inprogress => tx_bit = 0 /\ tx_cnt = BitClk
TxSent == tx_inprogress => (sent = {} <=> tx_bit = 0)

TxWire == IF \E b \in sent : sent = {b} THEN CHOOSE b \in sent : TRUE ELSE Garbled

TxInv == TxFlags /\ TxNumbers /\ TxRest /\ TxSent

IInv == RxInv /\ TxInv

-----------------------------------------------------------------------------
(* Arithmetic.                                                             *)

LEMMA Bounds ==
  /\ BitClk \in Nat /\ BitClk >= 2
  /\ Half \in Nat /\ Half >= 1 /\ Half < BitClk
  /\ OneAndHalfBitClk = BitClk + Half
  /\ CntMod \in Nat /\ CntMod >= BitClk + Half
  /\ FrameBits = 10 * BitClk
BY UartAssumption DEF Half, OneAndHalfBitClk, FrameBits

LEMMA Quotient ==
  ASSUME NEW B \in Nat, B >= 1, NEW k \in 0..9, NEW h \in 0..(B - 1)
  PROVE  (k * B + h) \div B = k
<1> DEFINE q == (k * B + h) \div B
<1>1. B * q <= k * B + h /\ k * B + h < B * q + B /\ q \in Int
  OBVIOUS
<1>2. q = (k * B + h) \div B
  OBVIOUS
<1> HIDE DEF q
<1>3. CASE q <= k - 1
  <2>1. B * (k - 1 - q) >= 0
    BY <1>1, <1>3
  <2> QED BY <2>1, <1>1
<1>4. CASE q >= k + 1
  <2>1. B * (q - k - 1) >= 0
    BY <1>1, <1>4
  <2> QED BY <2>1, <1>1
<1> QED BY <1>1, <1>2, <1>3, <1>4

\* Where sample k falls the peer drives its bit k, and it starts with a 0.
LEMMA SampleLevel ==
  ASSUME NEW k \in 0..7, NEW left \in Int, FrameBits - left = OneAndHalfBitClk + k * BitClk,
         NEW b \in Byte
  PROVE  Level(left, b) = b[k]
<1>1. FrameBits - left = (k + 1) * BitClk + Half
  BY Bounds
<1>2. ((k + 1) * BitClk + Half) \div BitClk = k + 1
  BY Bounds, Quotient
<1>3. (FrameBits - left) \div BitClk = k + 1
  BY <1>1, <1>2
<1> QED BY <1>3 DEF Level

LEMMA StartLevel ==
  ASSUME NEW b \in Byte
  PROVE  Level(FrameBits, b) = 0
<1>1. (0 * BitClk + 0) \div BitClk = 0
  BY Bounds, Quotient
<1>2. (FrameBits - FrameBits) \div BitClk = 0
  BY <1>1, Bounds
<1> QED BY <1>2 DEF Level

LEMMA LevelIsBit ==
  ASSUME NEW b \in Byte, NEW left \in Int
  PROVE  Level(left, b) \in {0, 1}
<1> DEFINE bit == (FrameBits - left) \div BitClk
<1>1. bit \in Int
  BY Bounds
<1>2. bit \in 1..8 => b[bit - 1] \in {0, 1}
  BY <1>1 DEF Byte, Bits
<1> QED BY <1>1, <1>2 DEF Level

-----------------------------------------------------------------------------

LEMMA InvInit == Init => IInv
<1> SUFFICES ASSUME Init PROVE IInv
  OBVIOUS
<1> USE Bounds DEF Init, TxInit, RxInit
<1>1. RxFlags /\ TxFlags
  BY Zenon DEF RxFlags, TxFlags
<1>2. RxNumbers
  BY DEF RxNumbers, Load, Byte, Bits
<1>3. RxRest /\ RxCounts /\ RxStops /\ RxMixes /\ InPlace /\ Taken
  BY DEF RxRest, RxCounts, RxStops, RxMixes, InPlace, Taken
<1>4. TxNumbers /\ TxRest /\ TxSent
  BY DEF TxNumbers, TxRest, TxSent
<1> QED BY <1>1, <1>2, <1>3, <1>4 DEF IInv, RxInv, TxInv

-----------------------------------------------------------------------------
(* The receiver's side of an edge.                                         *)

\* What the three actions of the peer have in common.
PeerEdge(line, first) ==
  /\ Receive(line, first)
  /\ peer_data' \in Payload /\ peer_left' \in 0..(FrameBits - 1)
  /\ first => line = 0 /\ peer_left = 0 /\ peer_left' = FrameBits - 1
  /\ ~first => peer_data' = peer_data
  /\ ~first /\ peer_left > 0 => peer_left' = peer_left - 1 /\ line = Level(peer_left, peer_data)

RxFrame == Frame!RxStep \/ \E b \in Frame!Known : Frame!RxStart(b)

\* A step of UartFrame, in the names of this module.
LEMMA RxStepOf ==
  ASSUME RxLeft' = (IF RxLeft = 0 THEN 0 ELSE RxLeft - 1),
         rx_ready' = (RxLeft = 1),
         RxByte' = (IF RxLeft = BitClk + 1 THEN RxWire
                    ELSE IF RxLeft = 8 * BitClk + 1 THEN Garbled ELSE RxByte),
         RxWire' = RxWire
  PROVE  Frame!RxStep
<1>1. RxByte' = (CASE RxLeft = BitClk + 1 -> RxWire
                  [] RxLeft = 8 * BitClk + 1 -> Garbled
                  [] OTHER -> RxByte)
  BY Bounds
<1> QED BY <1>1 DEF Frame!RxStep, RxLeft, RxByte, RxWire

LEMMA RxStartOf ==
  ASSUME RxLeft = 0, RxLeft' = 9 * BitClk + Half, RxWire' \in Payload \union {Garbled},
         ~rx_ready', RxByte' = RxByte, RxFlags'
  PROVE  RxFrame
<1>1. rx_ready' = FALSE
  BY DEF RxFlags
<1>2. Frame!RxStart(RxWire')
  BY <1>1 DEF Frame!RxStart, Frame!RxCycles, RxLeft, RxByte, RxWire, Half
<1> QED BY <1>2 DEF RxFrame, Frame!Known

\* A receiver in step is inside the peer's frame, whose counter is running.
LEMMA InStepGoesOn ==
  ASSUME IInv, NEW line \in {0, 1}, NEW first \in BOOLEAN, PeerEdge(line, first),
         rx_inprogress, in_step
  PROVE  /\ ~first /\ peer_left > 0 /\ peer_left' = peer_left - 1 /\ peer_data' = peer_data
         /\ line = Level(peer_left, peer_data)
<1>1. (8 - rx_bit) * BitClk >= 0
  BY Bounds DEF IInv, RxInv, RxNumbers
<1>2. Remaining(rx_cnt) >= 1 /\ Remaining(rx_cnt) \in Nat
  BY Bounds DEF Remaining, IInv, RxInv, RxNumbers
<1>3. peer_left > 0
  BY <1>1, <1>2, Bounds DEF IInv, RxInv, InPlace, RxNumbers, RxLeft
<1> QED BY <1>3, Bounds DEF PeerEdge, IInv, RxInv, RxNumbers

LEMMA RxIdleSide ==
  ASSUME IInv, NEW line \in {0, 1}, NEW first \in BOOLEAN, PeerEdge(line, first), RxIdle(line)
  PROVE  RxInv' /\ RxFrame
<1> USE Bounds DEF IInv, RxInv, PeerEdge, RxIdle
<1>1. ~rx_inprogress /\ rx_bit = 0 /\ rx_cnt = Load(OneAndHalfBitClk) /\ ~rx_stopbit
  BY DEF RxRest, RxStops, RxFlags
<1>2. /\ rx_inprogress' = (line = 0) /\ ~rx_ready'
      /\ rx_bit' = 0 /\ rx_cnt' = rx_cnt /\ rx_data' = rx_data /\ ~rx_stopbit' /\ mixed' = mixed
      /\ in_step' = IF line = 0 THEN first ELSE in_step
  BY <1>1 DEF Receive
<1>3. Remaining(rx_cnt) = OneAndHalfBitClk
  BY <1>1 DEF Remaining, Load
<1>4. RxFlags'
  BY <1>1, <1>2, Zenon DEF RxFlags, Receive
<1>5. RxNumbers' /\ RxRest' /\ RxCounts' /\ RxMixes'
  BY <1>1, <1>2, <1>3 DEF RxNumbers, RxRest, RxCounts, RxMixes, Remaining
<1>6. RxStops'
  BY <1>2 DEF RxStops
<1>7. InPlace' /\ Taken'
  <2>1. (Remaining(rx_cnt))' = OneAndHalfBitClk
    BY <1>2, <1>3 DEF Remaining
  <2>2. rx_inprogress' /\ in_step' => first
    BY <1>2
  <2> QED BY <1>2, <2>1, <2>2 DEF InPlace, RxLeft, Taken, Bits
<1>8. RxByte' = RxByte
  BY <1>2 DEF RxByte
<1>9. CASE line = 0
  <2>1. rx_inprogress'
    BY <1>2, <1>9, Zenon
  <2>2. RxLeft' = 9 * BitClk + Half /\ RxLeft = 0
    BY <1>1, <1>2, <1>3, <2>1 DEF RxLeft, Remaining
  <2>3. RxWire' \in Payload \union {Garbled}
    BY DEF RxWire
  <2> QED BY <1>2, <1>4, <1>5, <1>6, <1>7, <1>8, <2>2, <2>3, RxStartOf
<1>10. CASE line = 1
  <2>1. ~rx_inprogress' /\ in_step' = in_step /\ ~first
    BY <1>2, <1>10
  <2>2. RxLeft = 0 /\ RxLeft' = 0
    BY <1>1, <2>1 DEF RxLeft
  <2>3. RxWire' = RxWire
    BY <2>1 DEF RxWire
  <2>4. rx_ready' = (RxLeft = 1)
    BY <1>4, <1>2, <2>2 DEF RxFlags
  <2>5. Frame!RxStep
    BY <1>8, <2>2, <2>3, <2>4, RxStepOf
  <2> QED BY <2>5, <1>4, <1>5, <1>6, <1>7 DEF RxFrame
<1> QED BY <1>9, <1>10

\* Steps of a receiver under way count RxLeft down by one and leave the wire as it is.
LEMMA WireStays ==
  ASSUME IInv, NEW line \in {0, 1}, NEW first \in BOOLEAN, PeerEdge(line, first), rx_inprogress
  PROVE  in_step' = in_step /\ RxWire' = RxWire
<1>1. in_step' = in_step
  BY DEF PeerEdge, Receive
<1> QED BY <1>1, InStepGoesOn DEF RxWire

LEMMA RxCountSide ==
  ASSUME IInv, NEW line \in {0, 1}, NEW first \in BOOLEAN, PeerEdge(line, first), RxCount
  PROVE  RxInv' /\ RxFrame
<1> USE Bounds DEF IInv, RxInv, RxCount
<1>1. /\ rx_inprogress /\ rx_inprogress' /\ ~rx_ready' /\ rx_bit' = rx_bit /\ rx_data' = rx_data
      /\ rx_stopbit' = rx_stopbit /\ mixed' = mixed /\ in_step' = in_step
  BY DEF PeerEdge, Receive
<1>2. /\ Remaining(rx_cnt) \in Nat /\ Remaining(rx_cnt) >= 2
      /\ (Remaining(rx_cnt))' = Remaining(rx_cnt) - 1
      /\ rx_cnt' \in 0..(CntMod - 1)
      /\ rx_bit # 0 => rx_cnt' \in 1..BitClk /\ Remaining(rx_cnt) <= BitClk
  BY <1>1 DEF Remaining, Decrement, RxNumbers, RxCounts
<1>3. RxLeft' = RxLeft - 1 /\ RxLeft \in Nat /\ RxLeft >= 2
  <2>1. (8 - rx_bit) * BitClk \in Nat
    BY DEF RxNumbers
  <2> QED BY <1>1, <1>2, <2>1 DEF RxLeft
<1>4. RxLeft # BitClk + 1 /\ RxLeft # 8 * BitClk + 1
  <2>1. rx_bit \in {0, 1, 2, 3, 4, 5, 6, 7, 8}
    BY DEF RxNumbers
  <2> QED BY <1>1, <1>2, <2>1 DEF RxLeft
<1>5. RxFlags'
  BY <1>1, Zenon DEF RxFlags, PeerEdge, Receive
<1>6. RxNumbers' /\ RxRest' /\ RxCounts' /\ RxMixes'
  BY <1>1, <1>2 DEF RxNumbers, RxRest, RxCounts, RxMixes, PeerEdge
<1>7. RxStops'
  BY <1>1 DEF RxStops
<1>8. InPlace' /\ Taken'
  BY <1>1, <1>3, InStepGoesOn DEF InPlace, Taken, RxNumbers
<1>9. Frame!RxStep
  <2>1. rx_ready' = (RxLeft = 1)
    BY <1>1, <1>3, <1>5 DEF RxFlags
  <2>2. RxByte' = RxByte
    BY <1>1 DEF RxByte
  <2> QED BY <1>3, <1>4, <2>1, <2>2, WireStays, RxStepOf
<1> QED BY <1>5, <1>6, <1>7, <1>8, <1>9 DEF RxFrame

LEMMA RxSampleSide ==
  ASSUME IInv, NEW line \in {0, 1}, NEW first \in BOOLEAN, PeerEdge(line, first), RxSample(line)
  PROVE  RxInv' /\ RxFrame
<1> USE Bounds DEF IInv, RxInv
<1>1. /\ rx_inprogress /\ rx_inprogress' /\ ~rx_ready' /\ rx_bit \in 0..7 /\ ~rx_stopbit
      /\ rx_cnt = 1 /\ rx_bit' = rx_bit + 1 /\ rx_cnt' = BitClk
      /\ rx_data' = [rx_data EXCEPT ![rx_bit] = line] /\ rx_data \in Byte
      /\ in_step' = in_step /\ peer_data' \in Payload /\ peer_left' \in 0..(FrameBits - 1)
  BY DEF RxSample, PeerEdge, Receive, RxNumbers, RxStops
<1>2. mixed' = (rx_bit # 7 \/ ~in_step)
  <2>1. rx_bit' # rx_bit /\ rx_bit # 8
    BY <1>1
  <2> QED BY <2>1, Zenon DEF PeerEdge, Receive
<1>3. rx_stopbit' = (rx_bit = 7)
  BY <1>1, Zenon DEF RxSample
<1>14. /\ rx_bit # 7 => mixed' /\ ~rx_stopbit'
       /\ rx_bit = 7 => mixed' = ~in_step /\ rx_stopbit'
       /\ ~in_step => mixed'
       /\ mixed' \in BOOLEAN /\ rx_stopbit' \in BOOLEAN
  BY <1>2, <1>3, Zenon
<1>4. RxLeft = (8 - rx_bit) * BitClk + 1 /\ RxLeft' = RxLeft - 1
  <2>1. Remaining(rx_cnt) = 1 /\ (Remaining(rx_cnt))' = BitClk
    BY <1>1 DEF Remaining
  <2> QED BY <1>1, <2>1 DEF RxLeft
<1>5. rx_data' \in Byte /\ \A i \in Bits : rx_data'[i] = IF i = rx_bit THEN line ELSE rx_data[i]
  BY <1>1 DEF Byte, Bits
<1>6. RxFlags'
  <2>1. rx_inprogress' \in BOOLEAN /\ rx_ready' \in BOOLEAN
    BY Zenon DEF RxSample, RxFlags
  <2>2. in_step' \in BOOLEAN
    BY <1>1, Zenon DEF RxFlags
  <2> QED BY <1>14, <2>1, <2>2, Zenon DEF RxFlags
<1>7. RxNumbers'
  BY <1>1, <1>5 DEF RxNumbers
<1>8. RxRest' /\ RxCounts' /\ RxStops' /\ RxMixes'
  BY <1>1, <1>14 DEF RxRest, RxCounts, RxStops, RxMixes, RxNumbers
<1>9. InPlace'
  BY <1>1, <1>4, InStepGoesOn DEF InPlace, RxNumbers
<1>10. in_step => peer_data' = peer_data /\ peer_data \in Byte /\ line = peer_data[rx_bit]
  <2> SUFFICES ASSUME in_step
               PROVE  peer_data' = peer_data /\ peer_data \in Byte /\ line = peer_data[rx_bit]
    OBVIOUS
  <2>1. peer_left = RxLeft + BitClk - Half - 1 /\ peer_left \in Int
    BY <1>1 DEF InPlace, RxNumbers
  <2>2. FrameBits - peer_left = OneAndHalfBitClk + rx_bit * BitClk
    BY <1>1, <1>4, <2>1
  <2>3. peer_data \in Byte
    BY PayloadAssumption DEF RxNumbers
  <2>4. Level(peer_left, peer_data) = peer_data[rx_bit]
    BY <1>1, <2>1, <2>2, <2>3, SampleLevel
  <2> QED BY <1>1, <2>3, <2>4, InStepGoesOn
<1>11. Taken'
  BY <1>1, <1>5, <1>10 DEF Taken, Bits
<1>12. RxByte' = (IF RxLeft = BitClk + 1 THEN RxWire
                  ELSE IF RxLeft = 8 * BitClk + 1 THEN Garbled ELSE RxByte)
  <2>1. CASE rx_bit = 7
    <3>1. CASE in_step
      <4>1. \A i \in Bits : rx_data'[i] = peer_data[i]
        BY <1>1, <1>10, <1>11, <2>1, <3>1 DEF Taken, Bits
      <4>2. rx_data' = peer_data
        BY <1>5, <1>10, <3>1, <4>1 DEF Byte
      <4>3. ~mixed'
        BY <1>14, <2>1, <3>1, Zenon
      <4>4. RxByte' = peer_data /\ RxWire = peer_data
        BY <3>1, <4>2, <4>3, Zenon DEF RxByte, RxWire
      <4>5. RxLeft = BitClk + 1
        BY <1>4, <2>1
      <4> QED BY <4>4, <4>5
    <3>2. CASE ~in_step
      <4>1. RxByte' = Garbled /\ RxWire = Garbled
        BY <1>14, <3>2, Zenon DEF RxByte, RxWire
      <4>2. RxLeft = BitClk + 1
        BY <1>4, <2>1
      <4> QED BY <4>1, <4>2
    <3> QED BY <3>1, <3>2
  <2>2. CASE rx_bit = 0
    BY <1>14, <1>4, <2>2 DEF RxByte
  <2>3. CASE rx_bit \in 1..6
    <3>1. mixed /\ mixed'
      BY <1>1, <1>14, <2>3 DEF RxMixes
    <3>2. rx_bit \in {1, 2, 3, 4, 5, 6}
      BY <2>3
    <3>3. RxLeft # BitClk + 1 /\ RxLeft # 8 * BitClk + 1
      BY <1>4, <3>2
    <3> QED BY <3>1, <3>3 DEF RxByte
  <2> QED BY <1>1, <2>1, <2>2, <2>3
<1>13. Frame!RxStep
  <2>1. RxLeft \in Int /\ RxLeft >= BitClk + 1
    <3>1. rx_bit \in {0, 1, 2, 3, 4, 5, 6, 7}
      BY <1>1
    <3> QED BY <1>4, <3>1
  <2>2. rx_ready' = (RxLeft = 1)
    BY <1>1, <1>6, <2>1 DEF RxFlags
  <2> QED BY <1>1, <1>4, <1>12, <2>1, <2>2, WireStays, RxStepOf
<1> QED BY <1>6, <1>7, <1>8, <1>9, <1>11, <1>13 DEF RxFrame

LEMMA RxDoneSide ==
  ASSUME IInv, NEW line \in {0, 1}, NEW first \in BOOLEAN, PeerEdge(line, first), RxDone
  PROVE  RxInv' /\ RxFrame
<1> USE Bounds DEF IInv, RxInv
<1>1. /\ rx_inprogress /\ ~rx_inprogress' /\ rx_ready' /\ rx_bit = 8 /\ rx_bit' = 0
      /\ rx_cnt = 1 /\ rx_cnt' = Load(OneAndHalfBitClk) /\ rx_data' = rx_data /\ ~rx_stopbit'
      /\ in_step' = in_step /\ mixed' = mixed
  BY DEF RxDone, PeerEdge, Receive
<1>2. RxLeft = 1 /\ RxLeft' = 0
  BY <1>1 DEF RxLeft, Remaining
<1>3. RxFlags'
  BY <1>1, Zenon DEF RxFlags, RxDone
<1>4. RxNumbers' /\ RxRest' /\ RxCounts' /\ RxStops' /\ RxMixes' /\ InPlace' /\ Taken'
  BY <1>1 DEF RxNumbers, RxRest, RxCounts, RxStops, RxMixes, InPlace, Taken, Load, PeerEdge
<1>5. Frame!RxStep
  <2>1. rx_ready' = (RxLeft = 1)
    BY <1>1, <1>2, <1>3 DEF RxFlags
  <2>2. RxByte' = RxByte
    BY <1>1 DEF RxByte
  <2>3. RxWire' = RxWire
    BY <1>1, WireStays, Zenon
  <2>4. RxLeft' = (IF RxLeft = 0 THEN 0 ELSE RxLeft - 1)
    BY <1>2
  <2>5. RxByte' = (IF RxLeft = BitClk + 1 THEN RxWire
                   ELSE IF RxLeft = 8 * BitClk + 1 THEN Garbled ELSE RxByte)
    BY <1>2, <2>2
  <2> QED BY <2>1, <2>3, <2>4, <2>5, RxStepOf
<1> QED BY <1>3, <1>4, <1>5 DEF RxFrame

LEMMA RxSide ==
  ASSUME IInv, PeerIdle \/ PeerDrive \/ \E b \in Payload : PeerStart(b)
  PROVE  RxInv' /\ RxFrame
<1>1. \E line \in {0, 1}, first \in BOOLEAN : PeerEdge(line, first)
  <2> USE Bounds, PayloadAssumption DEF IInv, RxInv, RxNumbers
  <2>1. ASSUME PeerIdle PROVE PeerEdge(1, FALSE)
    <3>1. peer_left' = peer_left /\ peer_data' = peer_data /\ peer_left = 0 /\ Receive(1, FALSE)
      BY <2>1, Zenon DEF PeerIdle
    <3>2. peer_left' \in 0..(FrameBits - 1) /\ ~(peer_left > 0)
      BY <3>1
    <3> QED BY <3>1, <3>2, Zenon DEF PeerEdge
  <2>2. ASSUME PeerDrive
        PROVE  PeerEdge(Level(peer_left, peer_data), FALSE) /\ Level(peer_left, peer_data) \in {0, 1}
    <3>1. Level(peer_left, peer_data) \in {0, 1}
      BY LevelIsBit
    <3>2. /\ peer_left > 0 /\ Receive(Level(peer_left, peer_data), FALSE)
          /\ peer_left' = peer_left - 1 /\ peer_data' = peer_data
      BY <2>2, Zenon DEF PeerDrive
    <3>3. peer_left' \in 0..(FrameBits - 1)
      BY <3>2
    <3> QED BY <3>1, <3>2, <3>3, Zenon DEF PeerEdge
  <2>3. ASSUME NEW b \in Payload, PeerStart(b)
        PROVE  PeerEdge(0, TRUE)
    <3>1. Level(FrameBits, b) = 0
      BY StartLevel
    <3>2. /\ peer_left = 0 /\ Receive(0, TRUE)
          /\ peer_left' = FrameBits - 1 /\ peer_data' = b
      BY <2>3, <3>1, Zenon DEF PeerStart
    <3>3. peer_left' \in 0..(FrameBits - 1)
      BY <3>2
    <3> QED BY <3>2, <3>3, Zenon DEF PeerEdge
  <2> QED BY <2>1, <2>2, <2>3, Zenon
<1>2. PICK line \in {0, 1}, first \in BOOLEAN : PeerEdge(line, first)
  BY <1>1
<1>3. RxIdle(line) \/ RxCount \/ RxSample(line) \/ RxDone
  BY <1>2 DEF PeerEdge, Receive, RxTick
<1> QED BY <1>2, <1>3, RxIdleSide, RxCountSide, RxSampleSide, RxDoneSide

-----------------------------------------------------------------------------
(* The transmitter's side of it.                                           *)

LEMMA TxStepOf ==
  ASSUME NEW write \in BOOLEAN, NEW data \in Payload, TxLeft \in Nat,
         TxLeft' = (IF TxLeft > 0 THEN TxLeft - 1 ELSE IF write THEN 10 * BitClk ELSE 0),
         tx_finished' = (TxLeft = 1),
         TxWire' = (IF TxLeft = 0 /\ write THEN Garbled
                    ELSE IF TxLeft = 9 * BitClk + 1 THEN data
                    ELSE IF (\E k \in 2..8 : TxLeft = k * BitClk + 1) /\ data # TxWire
                    THEN Garbled ELSE TxWire)
  PROVE  Frame!TxStep(write, data)
<1>1. TxLeft' = CASE TxLeft > 0 -> TxLeft - 1
                  [] TxLeft = 0 /\ write -> Frame!TxCycles
                  [] OTHER -> 0
  BY DEF Frame!TxCycles
<1>2. TxWire' = CASE TxLeft = 0 /\ write -> Garbled
                  [] TxLeft = 9 * BitClk + 1 -> data
                  [] (\E k \in 2..8 : TxLeft = k * BitClk + 1) /\ data # TxWire -> Garbled
                  [] OTHER -> TxWire
  <2> DEFINE second == \E k \in 2..8 : TxLeft = k * BitClk + 1
  <2>1. TxLeft = 9 * BitClk + 1 => ~second
    <3> SUFFICES ASSUME TxLeft = 9 * BitClk + 1, NEW k \in 2..8, TxLeft = k * BitClk + 1
                 PROVE  FALSE
      OBVIOUS
    <3>1. k \in {2, 3, 4, 5, 6, 7, 8}
      OBVIOUS
    <3> QED BY <3>1, Bounds
  <2>2. TxLeft = 0 => ~second /\ TxLeft # 9 * BitClk + 1
    BY Bounds
  <2> HIDE DEF second
  <2>3. CASE TxLeft = 0 /\ write
    BY <2>2, <2>3 DEF second
  <2>4. CASE TxLeft = 9 * BitClk + 1
    BY <2>1, <2>2, <2>4 DEF second
  <2>5. CASE second /\ data # TxWire
    BY <2>1, <2>2, <2>5 DEF second
  <2>6. CASE ~(TxLeft = 0 /\ write) /\ TxLeft # 9 * BitClk + 1 /\ ~(second /\ data # TxWire)
    BY <2>6 DEF second
  <2> QED BY <2>3, <2>4, <2>5, <2>6
<1> QED BY <1>1, <1>2 DEF Frame!TxStep, TxLeft, TxWire

\* A frame under way is where a shift is due only at the last cycle of a bit.
LEMMA TxPlace ==
  ASSUME IInv, tx_inprogress
  PROVE  /\ TxLeft = (9 - tx_bit) * BitClk + tx_cnt /\ TxLeft \in Nat /\ TxLeft >= 1
         /\ \A k \in 1..9 : TxLeft = k * BitClk + 1 <=> tx_cnt = 1 /\ k = 9 - tx_bit
         /\ TxLeft = 1 <=> tx_cnt = 1 /\ tx_bit = 9
<1> USE Bounds DEF IInv, TxInv, TxNumbers
<1> DEFINE left == 9 - tx_bit
<1>1. TxLeft = left * BitClk + tx_cnt /\ left \in 0..9 /\ tx_cnt \in 1..BitClk
  BY DEF TxLeft
<1> HIDE DEF left
<1>2. left * BitClk \in Nat
  BY <1>1
<1>3. ASSUME NEW k \in 0..9, TxLeft = k * BitClk + 1
      PROVE  tx_cnt = 1 /\ k = left
  <2>1. tx_cnt - 1 \in 0..(BitClk - 1) /\ 0 \in 0..(BitClk - 1)
    BY <1>1
  <2>2. left * BitClk + (tx_cnt - 1) = k * BitClk + 0
    BY <1>1, <1>2, <1>3
  <2>3. (left * BitClk + (tx_cnt - 1)) \div BitClk = left
    BY <1>1, <2>1, Quotient
  <2>4. (k * BitClk + 0) \div BitClk = k
    BY <2>1, Quotient
  <2>5. k = left
    BY <2>2, <2>3, <2>4
  <2> QED BY <1>1, <1>2, <1>3, <2>5
<1>4. TxLeft = 0 * BitClk + 1 <=> TxLeft = 1
  OBVIOUS
<1>5. tx_cnt = 1 => TxLeft = left * BitClk + 1
  BY <1>1
<1> QED BY <1>1, <1>2, <1>3, <1>4, <1>5 DEF left

LEMMA TxSide ==
  ASSUME IInv, NEW write \in BOOLEAN, NEW data \in Payload, ClientEdge(write, data)
  PROVE  TxInv' /\ Frame!TxStep(write, data)
<1> USE Bounds, PayloadAssumption DEF IInv, TxInv
<1>1. CASE write /\ TxStart
  <2>1. /\ ~tx_inprogress /\ tx_inprogress' /\ ~tx_finished' /\ tx_' = 0
        /\ tx_bit = 0 /\ tx_bit' = 0 /\ tx_cnt = BitClk /\ tx_cnt' = BitClk /\ sent' = {}
    BY <1>1 DEF TxStart, TxRest, ClientEdge
  <2>2. TxFlags'
    BY <1>1, Zenon DEF TxFlags, TxStart
  <2>3. TxNumbers' /\ TxRest' /\ TxSent'
    BY <2>1 DEF TxNumbers, TxRest, TxSent
  <2>4. TxLeft = 0 /\ TxLeft' = 10 * BitClk
    BY <2>1 DEF TxLeft
  <2>5. TxWire' = Garbled
    BY <2>1 DEF TxWire
  <2>6. tx_finished' = (TxLeft = 1)
    BY <2>1, <2>2, <2>4 DEF TxFlags
  <2>7. TxWire' = (IF TxLeft = 0 /\ write THEN Garbled
                   ELSE IF TxLeft = 9 * BitClk + 1 THEN data
                   ELSE IF (\E k \in 2..8 : TxLeft = k * BitClk + 1) /\ data # TxWire
                   THEN Garbled ELSE TxWire)
    BY <1>1, <2>4, <2>5
  <2>8. TxLeft \in Nat /\ TxLeft' = (IF TxLeft > 0 THEN TxLeft - 1 ELSE IF write THEN 10 * BitClk ELSE 0)
    BY <1>1, <2>4
  <2>9. Frame!TxStep(write, data)
    BY <2>6, <2>7, <2>8, TxStepOf
  <2> QED BY <2>2, <2>3, <2>9
<1>2. CASE ~write /\ TxIdle
  <2>1. /\ ~tx_inprogress /\ ~tx_inprogress' /\ ~tx_finished' /\ tx_' = tx_
        /\ tx_bit' = tx_bit /\ tx_cnt' = tx_cnt /\ sent' = sent
    BY <1>2 DEF TxIdle, ClientEdge
  <2>2. TxFlags'
    BY <1>2, Zenon DEF TxFlags, TxIdle
  <2>3. TxNumbers' /\ TxRest' /\ TxSent'
    BY <2>1 DEF TxNumbers, TxRest, TxSent
  <2>4. TxLeft = 0 /\ TxLeft' = 0
    BY <2>1 DEF TxLeft
  <2>5. TxWire' = TxWire
    BY <2>1 DEF TxWire
  <2>6. tx_finished' = (TxLeft = 1)
    BY <2>1, <2>2, <2>4 DEF TxFlags
  <2>7. TxWire' = (IF TxLeft = 0 /\ write THEN Garbled
                   ELSE IF TxLeft = 9 * BitClk + 1 THEN data
                   ELSE IF (\E k \in 2..8 : TxLeft = k * BitClk + 1) /\ data # TxWire
                   THEN Garbled ELSE TxWire)
    BY <1>2, <2>4, <2>5
  <2> QED BY <1>2, <2>2, <2>3, <2>4, <2>6, <2>7, TxStepOf
<1>3. CASE TxCount
  <2>1. /\ tx_inprogress /\ tx_inprogress' /\ ~tx_finished' /\ tx_' = tx_
        /\ tx_bit' = tx_bit /\ tx_cnt # 1 /\ tx_cnt' = tx_cnt - 1 /\ sent' = sent
    BY <1>3 DEF TxCount, ClientEdge
  <2>2. TxFlags'
    BY <1>3, Zenon DEF TxFlags, TxCount
  <2>3. TxNumbers' /\ TxRest' /\ TxSent'
    BY <2>1 DEF TxNumbers, TxRest, TxSent
  <2>4. TxLeft \in Nat /\ TxLeft > 1 /\ TxLeft' = TxLeft - 1
    BY <2>1, TxPlace DEF TxLeft, TxNumbers
  <2>5. TxWire' = TxWire
    BY <2>1 DEF TxWire
  <2>6. tx_finished' = (TxLeft = 1)
    BY <2>1, <2>2, <2>4 DEF TxFlags
  <2>7. \A k \in 1..9 : TxLeft # k * BitClk + 1
    BY <2>1, TxPlace
  <2> QED BY <2>2, <2>3, <2>4, <2>5, <2>6, <2>7, TxStepOf
<1>4. CASE TxShift(data)
  <2>1. /\ tx_inprogress /\ tx_inprogress' /\ ~tx_finished'
        /\ tx_cnt = 1 /\ tx_cnt' = BitClk /\ tx_bit \in 0..8 /\ tx_bit' = tx_bit + 1
        /\ sent' = IF tx_bit < 8 THEN sent \union {data} ELSE sent
    BY <1>4 DEF TxShift, ClientEdge, TxNumbers
  <2>2. TxFlags'
    BY <1>4, Zenon DEF TxFlags, TxShift
  <2>3. TxNumbers'
    <3>1. tx_bit < 8 => data[tx_bit] \in {0, 1}
      BY <2>1 DEF Byte, Bits
    <3>2. tx_' \in {0, 1}
      BY <1>4, <2>1, <3>1 DEF TxShift
    <3> QED BY <2>1, <3>2 DEF TxNumbers
  <2>4. TxRest' /\ TxSent'
    BY <2>1 DEF TxRest, TxSent
  <2>5. TxLeft = (9 - tx_bit) * BitClk + 1 /\ TxLeft \in Nat /\ TxLeft > 1 /\ TxLeft' = TxLeft - 1
    BY <2>1, TxPlace DEF TxLeft
  <2>6. tx_finished' = (TxLeft = 1)
    BY <2>1, <2>2, <2>5 DEF TxFlags
  <2>7. TxWire' = (IF TxLeft = 9 * BitClk + 1 THEN data
                   ELSE IF (\E k \in 2..8 : TxLeft = k * BitClk + 1) /\ data # TxWire
                   THEN Garbled ELSE TxWire)
    <3>1. CASE tx_bit = 0
      <4>1. sent' = {data}
        BY <2>1, <3>1 DEF TxSent
      <4>2. TxWire' = data
        BY <4>1 DEF TxWire
      <4> QED BY <2>5, <3>1, <4>2
    <3>2. CASE tx_bit \in 1..7
      <4>1. sent # {} /\ sent' = sent \union {data} /\ data # Garbled
        BY <2>1, <3>2 DEF TxSent
      <4>2. TxLeft # 9 * BitClk + 1 /\ \E k \in 2..8 : TxLeft = k * BitClk + 1
        BY <2>1, <2>5, <3>2, TxPlace
      <4>3. CASE sent = {data}
        <5>1. sent' = {data}
          BY <4>1, <4>3
        <5> QED BY <4>2, <4>3, <5>1 DEF TxWire
      <4>4. CASE sent # {data}
        <5>1. TxWire # data
          BY <4>1, <4>4 DEF TxWire
        <5>2. TxWire' = Garbled
          BY <4>1, <4>4 DEF TxWire
        <5> QED BY <4>2, <5>1, <5>2
      <4> QED BY <4>3, <4>4
    <3>3. CASE tx_bit = 8
      <4>1. TxWire' = TxWire
        BY <2>1, <3>3 DEF TxWire
      <4>2. \A k \in 2..9 : TxLeft # k * BitClk + 1
        BY <2>1, <3>3, TxPlace
      <4> QED BY <4>1, <4>2
    <3> QED BY <2>1, <3>1, <3>2, <3>3
  <2> QED BY <2>2, <2>3, <2>4, <2>5, <2>6, <2>7, TxStepOf
<1>5. CASE TxDone
  <2>1. /\ tx_inprogress /\ ~tx_inprogress' /\ tx_finished' /\ tx_' = tx_
        /\ tx_bit = 9 /\ tx_bit' = 0 /\ tx_cnt = 1 /\ tx_cnt' = BitClk /\ sent' = sent
    BY <1>5 DEF TxDone, ClientEdge
  <2>2. TxFlags'
    BY <1>5, Zenon DEF TxFlags, TxDone
  <2>3. TxNumbers' /\ TxRest' /\ TxSent'
    BY <2>1 DEF TxNumbers, TxRest, TxSent
  <2>4. TxLeft = 1 /\ TxLeft' = 0
    BY <2>1 DEF TxLeft
  <2>5. TxWire' = TxWire
    BY <2>1 DEF TxWire
  <2>6. tx_finished' = (TxLeft = 1)
    BY <2>1, <2>2, <2>4 DEF TxFlags
  <2>7. \A k \in 1..9 : TxLeft # k * BitClk + 1
    BY <2>1, TxPlace
  <2>8. TxWire' = (IF TxLeft = 0 /\ write THEN Garbled
                   ELSE IF TxLeft = 9 * BitClk + 1 THEN data
                   ELSE IF (\E k \in 2..8 : TxLeft = k * BitClk + 1) /\ data # TxWire
                   THEN Garbled ELSE TxWire)
    BY <2>4, <2>5, <2>7
  <2>9. TxLeft \in Nat /\ TxLeft' = (IF TxLeft > 0 THEN TxLeft - 1 ELSE IF write THEN 10 * BitClk ELSE 0)
    BY <2>4
  <2>10. Frame!TxStep(write, data)
    BY <2>6, <2>8, <2>9, TxStepOf
  <2> QED BY <2>2, <2>3, <2>10
<1> QED BY <1>1, <1>2, <1>3, <1>4, <1>5 DEF ClientEdge, TxTick

-----------------------------------------------------------------------------

LEMMA ResetSide ==
  ASSUME IInv, Reset
  PROVE  IInv' /\ Frame!FrameReset
<1> USE Bounds DEF IInv, RxInv, TxInv
<1>1. /\ ~rx_inprogress' /\ rx_bit' = 0 /\ rx_cnt' = Load(OneAndHalfBitClk) /\ rx_data' = rx_data
      /\ ~rx_stopbit' /\ ~rx_ready' /\ mixed' = mixed /\ in_step' = in_step
      /\ peer_data' = peer_data /\ peer_left' \in 0..(FrameBits - 1)
  BY DEF Reset, RxReset, RxNumbers
<1>2. /\ ~tx_inprogress' /\ tx_bit' = 0 /\ tx_cnt' = BitClk /\ ~tx_finished' /\ tx_' = 1
      /\ sent' = {}
  BY DEF Reset, TxReset
<1>3. RxFlags' /\ TxFlags'
  BY Zenon DEF RxFlags, TxFlags, Reset, RxReset, TxReset
<1>4. RxNumbers' /\ RxRest' /\ RxCounts' /\ RxStops' /\ RxMixes' /\ InPlace' /\ Taken'
  BY <1>1 DEF RxNumbers, RxRest, RxCounts, RxStops, RxMixes, InPlace, Taken, Load
<1>5. TxNumbers' /\ TxRest' /\ TxSent'
  BY <1>2 DEF TxNumbers, TxRest, TxSent
<1>6. RxLeft' = 0 /\ TxLeft' = 0 /\ rx_ready' = FALSE /\ tx_finished' = FALSE
  BY <1>1, <1>2, <1>3 DEF RxLeft, TxLeft, RxFlags, TxFlags
<1>7. RxByte' = RxByte /\ RxWire' = RxWire /\ TxWire' = Garbled
  BY <1>1, <1>2 DEF RxByte, RxWire, TxWire
<1>8. Frame!FrameReset
  BY <1>6, <1>7 DEF Frame!FrameReset, RxLeft, TxLeft, RxByte, RxWire, TxWire
<1> QED BY <1>3, <1>4, <1>5, <1>8

LEMMA TickSide ==
  ASSUME IInv, Tick
  PROVE  IInv' /\ Frame!FrameNext
<1>1. RxInv' /\ RxFrame
  BY RxSide DEF Tick
<1>2. PICK write \in BOOLEAN, data \in Payload : ClientEdge(write, data)
  BY DEF Tick
<1>3. TxInv' /\ Frame!TxStep(write, data)
  BY <1>2, TxSide
<1>4. Frame!FrameTick(write, data) /\ data \in Frame!Known
  BY <1>1, <1>3, Zenon DEF Frame!FrameTick, RxFrame, Frame!Known
<1> QED BY <1>1, <1>3, <1>4, Zenon DEF IInv, Frame!FrameNext

LEMMA StutterSide ==
  ASSUME IInv, UNCHANGED vars
  PROVE  IInv' /\ UNCHANGED Frame!frameVars
<1>1. /\ UNCHANGED <<tx_inprogress, tx_bit, tx_cnt, tx_finished, tx_>>
      /\ UNCHANGED <<rx_inprogress, rx_bit, rx_cnt, rx_data, rx_stopbit, rx_ready>>
      /\ UNCHANGED <<peer_left, peer_data, in_step, mixed, sent>>
  BY Zenon DEF vars, txVars, rxVars
<1>2. RxInv'
  BY <1>1 DEF IInv, RxInv, RxFlags, RxNumbers, RxRest, RxCounts, RxStops, RxMixes, InPlace, Taken,
              RxLeft, Remaining
<1>3. TxInv'
  BY <1>1 DEF IInv, TxInv, TxFlags, TxNumbers, TxRest, TxSent
<1>4. UNCHANGED Frame!frameVars
  BY <1>1 DEF Frame!frameVars, Remaining
<1> QED BY <1>2, <1>3, <1>4 DEF IInv

\* The registers keep their meaning, whatever the bit time and the width of
\* the counters, the line, the client and the resets do.
THEOREM UartInvariance == Spec => []IInv
<1>1. IInv /\ [Next]_vars => IInv'
  BY TickSide, ResetSide, StutterSide DEF Next
<1> QED BY InvInit, <1>1, PTL DEF Spec

\* The registers of uart.v keep their ranges (uart.v:24-47,118-183).
THEOREM UartTypeCorrect == Spec => []UartTypeOK
<1>1. IInv => UartTypeOK
  BY Bounds DEF IInv, RxInv, RxFlags, RxNumbers, TxInv, TxFlags, TxNumbers, UartTypeOK, TxTypeOK,
                RxTypeOK
<1> QED BY UartInvariance, <1>1, PTL

\* rx_stopbit is the window before rx_ready in which the units raise cts
\* (uart.v:77-96).
THEOREM StopbitInPlace == Spec => []StopbitWindow
<1>1. IInv => StopbitWindow
  <2> SUFFICES ASSUME IInv PROVE rx_stopbit <=> RxLeft \in 1..BitClk
    BY DEF StopbitWindow, Frame!uart_rx_stopbit, RxLeft
  <2> USE Bounds DEF IInv, RxInv
  <2>1. CASE ~rx_inprogress
    BY <2>1 DEF RxStops, RxLeft
  <2>2. CASE rx_inprogress
    <3>1. rx_bit \in {0, 1, 2, 3, 4, 5, 6, 7, 8}
      BY DEF RxNumbers
    <3>2. Remaining(rx_cnt) \in Nat /\ Remaining(rx_cnt) >= 1
      BY DEF Remaining, RxNumbers
    <3>3. RxLeft = (8 - rx_bit) * BitClk + Remaining(rx_cnt)
      BY <2>2 DEF RxLeft
    <3>4. CASE rx_bit = 8
      <4>1. Remaining(rx_cnt) \in 1..BitClk
        BY <2>2, <3>4 DEF RxCounts, Remaining
      <4>2. RxLeft \in 1..BitClk
        BY <3>3, <3>4, <4>1
      <4> QED BY <2>2, <3>4, <4>2 DEF RxStops
    <3>5. CASE rx_bit # 8
      BY <2>2, <3>1, <3>2, <3>3, <3>5 DEF RxStops
    <3> QED BY <3>4, <3>5
  <2> QED BY <2>1, <2>2
<1> QED BY UartInvariance, <1>1, PTL

\* The registers of uart.v, bit by bit, implement the frame timing that
\* dbgu32 and uartblk are modelled on, wherever a reset falls and whatever
\* byte the peer is in the middle of (uart.v:49-114,124-183).
THEOREM UartImplementsFrame == Spec => ImplementsFrame
<1>1. Init => Frame!FrameInit
  BY DEF Init, TxInit, RxInit, Frame!FrameInit, Frame!Known
<1>2. IInv /\ [Next]_vars => [Frame!FrameNext]_(Frame!frameVars)
  BY TickSide, ResetSide, StutterSide DEF Next, Frame!FrameNext
<1> QED BY UartInvariance, <1>1, <1>2, PTL DEF Spec, ImplementsFrame, Frame!FrameSpec
=============================================================================
