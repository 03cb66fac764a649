--------------------------- MODULE UartLinkProofs ---------------------------
(***************************************************************************)
(* The safety of UartLink for every bit time, counter width and drift the  *)
(* assumptions allow.  The invariant ties the position of the receiver in  *)
(* the frame to the transmitter's: in a frame, one is ahead of the other   *)
(* by exactly the skew.                                                    *)
(***************************************************************************)
EXTENDS UartLink, SequenceTheorems, TLAPS

Half == BitClk \div 2

\* The receiver has not seen the start bit.
Waiting == ~rx_inprogress /\ tx_bit = 0 /\ TxElapsed = skew

Receiving == rx_inprogress /\ TxElapsed = RxElapsed + 1 + skew

\* The receiver is done with the frame, the stop bit goes on.
Received ==
  /\ ~rx_inprogress
  /\ tx_bit = 9
  /\ TxElapsed >= OneAndHalfBitClk + 8 * BitClk + 1 + skew

DrivenBit ==
  IF tx_bit = 0 THEN 0 ELSE IF tx_bit = 9 THEN 1 ELSE tx_data[tx_bit - 1]

IdleInv ==
  /\ ~tx_inprogress => tx_bit = 0 /\ tx_cnt = BitClk /\ tx_ = 1 /\ ~rx_inprogress
  /\ ~rx_inprogress => rx_bit = 0 /\ rx_cnt = Load(OneAndHalfBitClk)

CountInv ==
  rx_inprogress => IF rx_bit = 0 THEN Remaining(rx_cnt) <= OneAndHalfBitClk
                                 ELSE rx_cnt \in 1..BitClk

LineInv == tx_inprogress => tx_ = DrivenBit
PositionInv == tx_inprogress => Waiting \/ Receiving \/ Received
DataInv == rx_inprogress => \A i \in Bits : i < rx_bit => rx_data[i] = tx_data[i]

\* LinkTypeOK in two parts: the provers take flags and numbers apart.
Flags ==
  /\ tx_inprogress \in BOOLEAN /\ tx_finished \in BOOLEAN
  /\ rx_inprogress \in BOOLEAN /\ rx_stopbit \in BOOLEAN /\ rx_ready \in BOOLEAN

Numbers ==
  /\ tx_bit \in 0..9 /\ tx_cnt \in 1..BitClk /\ tx_ \in {0, 1}
  /\ rx_bit \in 0..8 /\ rx_cnt \in 0..(CntMod - 1) /\ rx_data \in Byte
  /\ tx_data \in Payload /\ taken \in Byte /\ skew \in -Lag..Lead

IInv == Flags /\ Numbers /\ IdleInv /\ CountInv /\ LineInv /\ PositionInv /\ DataInv

-----------------------------------------------------------------------------

(* The bounds that the arithmetic of the proof rests on.                   *)
LEMMA Bounds ==
  /\ BitClk \in Nat /\ BitClk >= 2
  /\ Half \in Nat /\ Half >= 1 /\ Half < BitClk
  /\ OneAndHalfBitClk = BitClk + Half
  /\ CntMod \in Nat /\ CntMod >= BitClk + Half
  /\ Lead \in Nat /\ Lead + Half < BitClk
  /\ Lag \in Nat /\ Lag <= Half + 1
BY UartAssumption, LinkAssumption, SMT DEF Half, OneAndHalfBitClk

(* Multiples of the bit time keep the order of their factors.              *)
LEMMA Multiples ==
  ASSUME NEW B \in Nat, B >= 1, NEW a \in Int, NEW b \in Int, a <= b
  PROVE  a * B <= b * B
<1>1. b - a >= 0
  OBVIOUS
<1>2. (b - a) * B >= 0
  BY <1>1, SMT
<1>. QED
  BY <1>2, SMT

(* The one bit a sample can fall in: with the transmitter in bit tb and    *)
(* the receiver about to take sample rb, tb is rb + 1.                     *)
LEMMA SampleSlot ==
  ASSUME NEW B \in Nat, B >= 2,
         NEW h \in Nat, NEW s \in Int, -h <= s, s + h < B,
         NEW tb \in Int, NEW rb \in Int, NEW tc \in 1..B,
         (tb + 1) * B - tc = B + h + rb * B - 1 + 1 + s
  PROVE  tb = rb + 1
<1> DEFINE d == tb - rb
<1>1. d * B = h + tc + s
  BY SMT DEF d
<1>2. d * B >= 1 /\ d * B <= 2 * B - 1
  BY <1>1, SMT
<1>3. d \in Int
  BY DEF d
<1>4. CASE d <= 0
  BY <1>2, <1>3, <1>4, Multiples, SMT
<1>5. CASE d >= 2
  BY <1>2, <1>3, <1>5, Multiples, SMT
<1>6. CASE d = 1
  BY <1>6, SMT DEF d
<1>. QED
  BY <1>3, <1>4, <1>5, <1>6, SMT

LEMMA InitInvariant == Init => IInv
<1> SUFFICES ASSUME Init PROVE IInv
  OBVIOUS
<1> USE Bounds DEF Init, TxInit, RxInit
<1>1. Flags
  BY Zenon DEF Flags
<1>3. Numbers
  BY LinkAssumption DEF Numbers, Load, Byte, Bits
<1>2. IdleInv /\ CountInv /\ LineInv /\ PositionInv /\ DataInv
  BY DEF IdleInv, CountInv, LineInv, PositionInv, DataInv
<1>. QED
  BY <1>1, <1>2, <1>3 DEF IInv

-----------------------------------------------------------------------------
(* The transmitter's clock.                                                *)

LEMMA SendPreserves ==
  ASSUME IInv, NEW b \in Payload, Send(b)
  PROVE  IInv'
<1> USE Bounds DEF IInv, Send, TxStart, rxVars
<1>1. Flags'
  BY Zenon DEF Flags
<1>5. Numbers'
  BY DEF Numbers
<1>2. ~rx_inprogress' /\ tx_bit' = 0 /\ tx_cnt' = BitClk
  BY DEF IdleInv
<1>3. IdleInv' /\ CountInv' /\ LineInv' /\ DataInv'
  BY <1>2 DEF IdleInv, CountInv, LineInv, DataInv, DrivenBit
<1>4. PositionInv'
  BY <1>2 DEF PositionInv, Waiting, TxElapsed
<1>. QED
  BY <1>1, <1>3, <1>4, <1>5

LEMMA TxClockPreserves ==
  ASSUME IInv, TxClock
  PROVE  IInv'
<1> USE Bounds DEF IInv, TxClock, rxVars
<1>1. /\ tx_bit \in 0..9 /\ tx_cnt \in 1..BitClk /\ skew \in -Lag..Lead
      /\ rx_bit \in 0..8 /\ rx_cnt \in 0..(CntMod - 1) /\ tx_data \in Byte
  BY LinkAssumption DEF Numbers
<1>2. RxElapsed' = RxElapsed
  BY DEF RxElapsed
<1>3. RxElapsed \in Int /\ TxElapsed \in Int
  BY <1>1 DEF RxElapsed, TxElapsed, Remaining
<1>4. CASE TxIdle
  <2>1. Flags' /\ IdleInv' /\ CountInv' /\ LineInv' /\ PositionInv' /\ DataInv'
    BY <1>4, Zenon DEF TxIdle, Flags, IdleInv, CountInv, LineInv, PositionInv, DataInv
  <2>2. Numbers'
    BY <1>4 DEF TxIdle, Numbers
  <2>. QED
    BY <2>1, <2>2
<1>5. CASE TxCount
  <2>a. Flags'
    BY <1>5, Zenon DEF TxCount, Flags
  <2>b. Numbers'
    BY <1>1, <1>5 DEF TxCount, Numbers
  <2>1. IdleInv' /\ CountInv' /\ DataInv'
    BY <1>1, <1>5 DEF TxCount, IdleInv, CountInv, DataInv
  <2>2. LineInv'
    BY <1>5 DEF TxCount, LineInv, DrivenBit
  <2>3. TxElapsed' = TxElapsed + 1 /\ skew' = skew + 1
    BY <1>1, <1>5 DEF TxCount, TxElapsed
  <2>4. PositionInv'
    BY <1>1, <1>2, <1>3, <1>5, <2>3
       DEF TxCount, PositionInv, Waiting, Receiving, Received
  <2>. QED
    BY <2>a, <2>b, <2>1, <2>2, <2>4
<1>6. CASE TxShift(tx_data)
  <2>a. Flags'
    BY <1>6, Zenon DEF TxShift, Flags
  <2>b. Numbers'
    BY <1>1, <1>6 DEF TxShift, Numbers, Byte, Bits
  <2>1. IdleInv' /\ CountInv' /\ DataInv'
    BY <1>1, <1>6 DEF TxShift, IdleInv, CountInv, DataInv
  <2>2. LineInv'
    BY <1>1, <1>6 DEF TxShift, LineInv, DrivenBit
  <2>3. TxElapsed' = TxElapsed + 1 /\ skew' = skew + 1
    BY <1>1, <1>6 DEF TxShift, TxElapsed
  <2>4. ~Waiting
    BY <1>1, <1>6 DEF TxShift, Waiting, TxElapsed
  <2>5. PositionInv'
    BY <1>1, <1>2, <1>3, <1>6, <2>3, <2>4
       DEF TxShift, PositionInv, Waiting, Receiving, Received
  <2>. QED
    BY <2>a, <2>b, <2>1, <2>2, <2>5
<1>7. CASE TxDone
  <2>1. TxElapsed = 10 * BitClk - 1 /\ skew < Lead
    BY <1>1, <1>7 DEF TxDone, TxElapsed
  <2>2. ~Receiving
    <3> SUFFICES ASSUME Receiving PROVE FALSE
      OBVIOUS
    <3>1. RxElapsed >= 9 * BitClk + Half
      BY <1>1, <1>3, <2>1 DEF Receiving
    <3>2. Remaining(rx_cnt) \in Int /\ Remaining(rx_cnt) >= 1
      BY <1>1 DEF Remaining
    <3>3. rx_bit * BitClk <= 8 * BitClk
      BY <1>1, Multiples
    <3>4. rx_bit * BitClk \in Int
      BY <1>1
    <3>. QED
      BY <3>1, <3>2, <3>3, <3>4 DEF RxElapsed
  <2>3. ~rx_inprogress
    BY <1>7, <2>2 DEF TxDone, PositionInv, Waiting, Received
  <2>4. tx_ = 1
    BY <1>7 DEF TxDone, LineInv, DrivenBit
  <2>a. Flags'
    BY <1>7, Zenon DEF TxDone, Flags
  <2>5. Numbers'
    BY <1>1, <1>7 DEF TxDone, Numbers
  <2>6. IdleInv' /\ CountInv' /\ LineInv' /\ PositionInv' /\ DataInv'
    BY <1>7, <2>3, <2>4 DEF TxDone, IdleInv, CountInv, LineInv, PositionInv, DataInv
  <2>. QED
    BY <2>a, <2>5, <2>6
<1>. QED
  BY <1>4, <1>5, <1>6, <1>7 DEF TxTick

-----------------------------------------------------------------------------
(* The receiver's clock.                                                   *)

(* What the receiver sees at its edge: within a frame, at a sample, the    *)
(* bit whose turn it is.                                                   *)
LEMMA SampleIsInPlace ==
  ASSUME IInv, Sampling
  PROVE  tx_inprogress /\ tx_bit = rx_bit + 1
<1> USE Bounds DEF IInv, Sampling
<1>1. /\ tx_bit \in 0..9 /\ tx_cnt \in 1..BitClk /\ skew \in -Lag..Lead
      /\ rx_bit \in 0..8
  BY DEF Numbers
<1>2. tx_inprogress
  BY DEF IdleInv
<1>3. Receiving
  BY <1>2 DEF PositionInv, Waiting, Received
<1>4. (tx_bit + 1) * BitClk - tx_cnt
        = BitClk + Half + rx_bit * BitClk - 1 + 1 + skew
  BY <1>1, <1>3 DEF Receiving, TxElapsed, RxElapsed, Remaining
<1>5. -Half <= skew /\ skew + Half < BitClk
  BY <1>1, <1>2
<1>6. tx_bit = rx_bit + 1
  BY <1>1, <1>4, <1>5, SampleSlot
<1>. QED
  BY <1>2, <1>6

LEMMA RxClockPreserves ==
  ASSUME IInv, RxClock
  PROVE  IInv'
<1> USE Bounds DEF IInv, RxClock, txVars
<1>1. /\ tx_bit \in 0..9 /\ tx_cnt \in 1..BitClk /\ skew \in -Lag..Lead
      /\ rx_bit \in 0..8 /\ rx_cnt \in 0..(CntMod - 1)
      /\ tx_ \in {0, 1} /\ rx_data \in Byte /\ taken \in Byte
  BY DEF Numbers
<1>2. TxElapsed' = TxElapsed
  BY DEF TxElapsed
<1>3. TxElapsed \in Int /\ RxElapsed \in Int
  BY <1>1 DEF TxElapsed, RxElapsed, Remaining
<1>4. taken' \in Byte
  BY <1>1
<1>5. skew' \in -Lag..Lead
  BY <1>1
<1>6. LineInv'
  BY DEF LineInv, DrivenBit
<1>7. CASE RxIdle(tx_)
  <2>5. rx_inprogress' <=> tx_ = 0
    BY <1>7 DEF RxIdle
  <2>6. /\ ~rx_inprogress /\ UNCHANGED <<rx_bit, rx_cnt, rx_data>>
        /\ rx_bit = 0 /\ rx_cnt = Load(OneAndHalfBitClk)
    BY <1>7 DEF RxIdle, IdleInv
  <2>7. Remaining(rx_cnt) = OneAndHalfBitClk
    BY <2>6 DEF Load, Remaining
  <2>1. Flags' /\ DataInv'
    <3>1. Flags'
      BY <1>7, Zenon DEF RxIdle, Flags
    <3>2. DataInv'
      BY <1>1, <1>7 DEF RxIdle, DataInv, IdleInv, Bits
    <3>. QED
      BY <3>1, <3>2
  <2>2. Numbers'
    BY <1>1, <1>4, <1>5, <1>7 DEF RxIdle, Numbers
  <2>3. IdleInv' /\ CountInv'
    BY <2>5, <2>6, <2>7 DEF IdleInv, CountInv, Remaining
  <2>4. PositionInv'
    <3>1. CASE ~tx_inprogress
      BY <3>1 DEF PositionInv
    <3>2. CASE tx_inprogress /\ Waiting
      <4>1. tx_ = 0
        BY <3>2 DEF Waiting, LineInv, DrivenBit
      <4>2. RxElapsed' = 0
        BY <2>6, <2>7 DEF RxElapsed, Remaining
      <4>3. Receiving'
        BY <1>1, <1>2, <1>3, <2>5, <3>2, <4>1, <4>2 DEF Receiving, Waiting
      <4>. QED
        BY <4>3 DEF PositionInv
    <3>3. CASE tx_inprogress /\ Received
      <4>1. tx_ = 1
        BY <3>3 DEF Received, LineInv, DrivenBit
      <4>2. Received'
        BY <1>1, <1>2, <1>3, <2>5, <3>3, <4>1 DEF Received
      <4>. QED
        BY <4>2 DEF PositionInv
    <3>. QED
      BY <1>7, <3>1, <3>2, <3>3 DEF RxIdle, PositionInv, Receiving
  <2>. QED
    BY <1>6, <2>1, <2>2, <2>3, <2>4
<1>8. CASE rx_inprogress
  <2>1. tx_inprogress /\ Receiving /\ skew' = skew - 1
    BY <1>8 DEF IdleInv, PositionInv, Waiting, Received
  <2>2. CASE RxCount
    <3>1. Flags'
      BY <2>2, Zenon DEF RxCount, Flags
    <3>2. Numbers'
      BY <1>1, <1>4, <1>5, <2>2 DEF RxCount, Numbers, Decrement
    <3>3. Remaining(rx_cnt)' = Remaining(rx_cnt) - 1
      BY <1>1, <2>2 DEF RxCount, Decrement, Remaining
    <3>4. IdleInv' /\ CountInv' /\ DataInv'
      BY <1>1, <1>8, <2>1, <2>2, <3>3
         DEF RxCount, IdleInv, CountInv, DataInv, Decrement, Remaining
    <3>5. RxElapsed' = RxElapsed + 1
      BY <1>1, <2>2, <3>3 DEF RxCount, RxElapsed, Remaining
    <3>6. Receiving'
      BY <1>1, <1>2, <1>3, <2>1, <2>2, <3>5 DEF RxCount, Receiving
    <3>. QED
      BY <1>6, <3>1, <3>2, <3>4, <3>6 DEF PositionInv
  <2>3. CASE RxSample(tx_)
    <3>1. tx_bit = rx_bit + 1 /\ rx_bit # 8
      BY <1>8, <2>1, <2>3, SampleIsInPlace DEF RxSample, Sampling
    <3>2. tx_ = tx_data[rx_bit]
      BY <1>1, <2>1, <3>1 DEF LineInv, DrivenBit
    <3>3. Flags'
      <4>1. rx_stopbit' \in BOOLEAN
        BY <2>3, Zenon DEF RxSample
      <4>. QED
        BY <2>3, <4>1, Zenon DEF RxSample, Flags
    <3>4. Numbers'
      BY <1>1, <1>4, <1>5, <2>3 DEF RxSample, Numbers, Byte, Bits
    <3>5. IdleInv' /\ CountInv'
      BY <1>1, <1>8, <2>1, <2>3 DEF RxSample, IdleInv, CountInv
    <3>6. DataInv'
      BY <1>1, <1>8, <2>3, <3>1, <3>2 DEF RxSample, DataInv, Byte, Bits
    <3>7. RxElapsed' = RxElapsed + 1
      BY <1>1, <2>3 DEF RxSample, RxElapsed, Remaining
    <3>8. Receiving'
      BY <1>1, <1>2, <1>3, <2>1, <2>3, <3>7 DEF RxSample, Receiving
    <3>. QED
      BY <1>6, <3>3, <3>4, <3>5, <3>6, <3>8 DEF PositionInv
  <2>4. CASE RxDone
    <3>1. tx_bit = 9
      BY <1>8, <2>1, <2>4, SampleIsInPlace DEF RxDone, Sampling
    <3>2. Flags'
      BY <2>4, Zenon DEF RxDone, Flags
    <3>3. Numbers'
      BY <1>1, <1>4, <1>5, <2>4 DEF RxDone, Numbers, Load
    <3>4. IdleInv' /\ CountInv' /\ DataInv'
      BY <2>1, <2>4 DEF RxDone, IdleInv, CountInv, DataInv
    <3>5. RxElapsed = OneAndHalfBitClk + 8 * BitClk - 1
      BY <2>4 DEF RxDone, RxElapsed, Remaining
    <3>6. Received'
      BY <1>1, <1>2, <2>1, <2>4, <3>1, <3>5 DEF RxDone, Received, Receiving
    <3>. QED
      BY <1>6, <3>2, <3>3, <3>4, <3>6 DEF PositionInv
  <2>. QED
    BY <1>8, <2>2, <2>3, <2>4 DEF RxTick, RxIdle
<1>. QED
  BY <1>7, <1>8 DEF RxTick, RxCount, RxSample, RxDone

-----------------------------------------------------------------------------

LEMMA Invariance == Spec => []IInv
<1>1. Init => IInv
  BY InitInvariant
<1>2. IInv /\ [Next]_vars => IInv'
  <2> SUFFICES ASSUME IInv, [Next]_vars PROVE IInv'
    OBVIOUS
  <2>1. CASE UNCHANGED vars
    BY <2>1 DEF vars, txVars, rxVars, IInv, Flags, Numbers, IdleInv, CountInv,
                LineInv, PositionInv, DataInv, Waiting, Receiving, Received,
                TxElapsed, RxElapsed, DrivenBit
  <2>2. CASE Next
    BY <2>2, SendPreserves, TxClockPreserves, RxClockPreserves DEF Next
  <2>. QED
    BY <2>1, <2>2
<1>. QED
  BY <1>1, <1>2, PTL DEF Spec

(* The registers of both ends keep their ranges, for every bit time.       *)
THEOREM TypeCorrect == Spec => []LinkTypeOK
<1>1. IInv => LinkTypeOK
  BY Zenon DEF IInv, Flags, Numbers, LinkTypeOK, TxTypeOK, RxTypeOK
<1>. QED
  BY <1>1, Invariance, PTL

(* Every data bit is sampled while the transmitter drives it, for every    *)
(* bit time and every drift up to half a bit (uart.v:72-97,150-176).       *)
THEOREM SamplesInPlace == Spec => []SampledInItsBit
<1>1. IInv => SampledInItsBit
  BY SampleIsInPlace DEF SampledInItsBit
<1>. QED
  BY <1>1, Invariance, PTL

(* The receiver ends every frame within the stop bit (uart.v:74-85).       *)
THEOREM FramesEndInPlace == Spec => []EndsInStopBit
<1>1. IInv => EndsInStopBit
  BY SampleIsInPlace DEF EndsInStopBit, IInv, IdleInv
<1>. QED
  BY <1>1, Invariance, PTL

(* A byte is announced only when it is the one transmitted.                *)
THEOREM AnnouncesWhole == Spec => AnnouncedWhole
<1>1. IInv /\ IInv' /\ [Next]_vars /\ ~UNCHANGED vars /\ rx_ready' /\ ~rx_ready
        => rx_data' = tx_data
  <2> SUFFICES ASSUME IInv, [Next]_vars, rx_ready', ~rx_ready
               PROVE  rx_data' = tx_data
    OBVIOUS
  <2>1. RxClock /\ RxDone
    BY DEF Next, vars, rxVars, Send, TxClock, RxClock, RxTick, RxIdle, RxCount,
           RxSample
  <2>2. rx_data' = rx_data /\ rx_inprogress /\ rx_bit = 8
    BY <2>1 DEF RxDone
  <2>3. \A i \in Bits : rx_data[i] = tx_data[i]
    BY <2>2 DEF IInv, DataInv, Bits
  <2>4. rx_data \in Byte /\ tx_data \in Byte
    BY LinkAssumption DEF IInv, Numbers
  <2>. QED
    BY <2>2, <2>3, <2>4 DEF Byte
<1>. QED
  BY <1>1, Invariance, PTL DEF Spec, AnnouncedWhole

-----------------------------------------------------------------------------
(* The link as a channel.                                                  *)

\* The byte is taken on the edge after it was announced, before the next
\* start bit is seen.
ReadyInv == rx_ready => ~rx_inprogress

\* Sequences of one and of two, as the queue of the link grows and shrinks.
LEMMA PairOf ==
  ASSUME NEW x, NEW y
  PROVE  <<x>> \o <<y>> = <<x, y>>
<1>1. <<x>> \in Seq({x, y}) /\ <<y>> \in Seq({x, y}) /\ <<x, y>> \in Seq({x, y})
  OBVIOUS
<1>2. Len(<<x>>) = 1 /\ Len(<<y>>) = 1 /\ Len(<<x, y>>) = 2
  OBVIOUS
<1> DEFINE s == <<x>> \o <<y>>
<1>3. s \in Seq({x, y}) /\ Len(s) = 2
      /\ \A i \in 1..2 : s[i] = IF i <= 1 THEN <<x>>[i] ELSE <<y>>[i - 1]
  BY <1>1, <1>2, ConcatProperties
<1>4. s[1] = x /\ s[2] = y
  BY <1>3
<1> HIDE DEF s
<1>5. \A i \in 1..2 : s[i] = <<x, y>>[i]
  BY <1>4
<1>6. s = <<x, y>>
  BY <1>1, <1>2, <1>3, <1>5, SeqEqual
<1>. QED
  BY <1>6 DEF s

LEMMA ShortQueues ==
  ASSUME NEW x, NEW y
  PROVE  /\ Append(<<>>, y) = <<y>> /\ Append(<<x>>, y) = <<x, y>>
         /\ Len(<<>>) = 0 /\ Len(<<x>>) = 1
         /\ Head(<<x>>) = x /\ Tail(<<x>>) = <<>>
         /\ Head(<<x, y>>) = x /\ Tail(<<x, y>>) = <<y>>
         /\ <<x>> # <<>> /\ <<x, y>> # <<>>
<1>1. Append(<<x>>, y) = <<x>> \o <<y>>
  OBVIOUS
<1>2. Append(<<x>>, y) = <<x, y>>
  BY <1>1, PairOf
<1>3. Append(<<>>, y) = <<y>> /\ Len(<<>>) = 0 /\ Len(<<x>>) = 1
  OBVIOUS
<1>4. Head(<<x>>) = x /\ Tail(<<x>>) = <<>> /\ Head(<<x, y>>) = x /\ Tail(<<x, y>>) = <<y>>
  OBVIOUS
<1>5. <<x>> # <<>> /\ <<x, y>> # <<>>
  OBVIOUS
<1>. QED
  BY <1>2, <1>3, <1>4, <1>5

\* The four contents the queue of the channel may have.
UnderWayIs ==
  UnderWay = IF rx_ready
             THEN IF OnWire THEN <<rx_data, tx_data>> ELSE <<rx_data>>
             ELSE IF OnWire THEN <<tx_data>> ELSE <<>>

LEMMA QueueKnown == UnderWayIs
<1>1. ASSUME NEW x, NEW y
      PROVE  <<x>> \o <<>> = <<x>> /\ <<>> \o <<y>> = <<y>> /\ <<>> \o <<>> = <<>>
  OBVIOUS
<1>. QED
  BY <1>1, PairOf DEF UnderWayIs, UnderWay

LEMMA ReadyInvNext ==
  ASSUME IInv, ReadyInv, [Next]_vars
  PROVE  ReadyInv'
<1>1. CASE RxClock
  BY <1>1 DEF RxClock, RxTick, RxIdle, RxCount, RxSample, RxDone, ReadyInv
<1>2. CASE UNCHANGED rxVars
  BY <1>2 DEF rxVars, ReadyInv
<1>. QED
  BY <1>1, <1>2 DEF Next, Send, TxClock, vars

LEMMA SendIsSent ==
  ASSUME IInv, NEW b \in Payload, Send(b)
  PROVE  Channel!Send(b)
<1>1. ~OnWire /\ OnWire' /\ rx_ready' = rx_ready /\ rx_data' = rx_data
      /\ tx_data' = b /\ taken' = taken
  BY DEF Send, TxStart, OnWire, IInv, IdleInv, rxVars
<1>2. UnderWay = IF rx_ready THEN <<rx_data>> ELSE <<>>
  BY <1>1, QueueKnown DEF UnderWayIs
<1>3. UnderWay' = IF rx_ready THEN <<rx_data, b>> ELSE <<b>>
  <2>1. UnderWayIs'
    BY QueueKnown, PTL
  <2>. QED
    BY <1>1, <2>1 DEF UnderWayIs
<1>4. Len(UnderWay) < 2 /\ UnderWay' = Append(UnderWay, b)
  <2>1. CASE rx_ready
    BY <1>2, <1>3, <2>1, ShortQueues
  <2>2. CASE ~rx_ready
    BY <1>2, <1>3, <2>2, ShortQueues
  <2>. QED
    BY <2>1, <2>2
<1>. QED
  BY <1>1, <1>4 DEF Channel!Send

LEMMA TxClockIsSilent ==
  ASSUME IInv, TxClock
  PROVE  UnderWay' = UnderWay /\ taken' = taken
<1>1. UNCHANGED <<rx_ready, rx_data, tx_data, taken, rx_inprogress>>
  BY DEF TxClock, rxVars
<1>2. OnWire' <=> OnWire
  <2>1. CASE TxIdle
    BY <1>1, <2>1 DEF TxIdle, OnWire
  <2>2. CASE TxCount
    BY <1>1, <2>2 DEF TxCount, OnWire
  <2>3. CASE TxShift(tx_data)
    <3>1. tx_bit \in 0..8 /\ tx_bit' = tx_bit + 1 /\ tx_inprogress /\ tx_inprogress'
      BY <2>3 DEF TxShift, IInv, Numbers
    <3>2. CASE tx_bit = 8
      BY <1>1, <3>1, <3>2 DEF OnWire, IInv, PositionInv, Waiting, Receiving, Received
    <3>3. CASE tx_bit # 8
      BY <1>1, <3>1, <3>3 DEF OnWire
    <3>. QED
      BY <3>2, <3>3
  <2>4. CASE TxDone
    <3>1. ~rx_inprogress'
      BY <2>4, TxClockPreserves DEF TxDone, IInv, IdleInv
    <3>. QED
      BY <1>1, <2>4, <3>1 DEF TxDone, OnWire
  <2>. QED
    BY <2>1, <2>2, <2>3, <2>4 DEF TxClock, TxTick
<1>. QED
  BY <1>1, <1>2 DEF UnderWay

LEMMA RxClockTakes ==
  ASSUME IInv, ReadyInv, RxClock
  PROVE  Channel!Take \/ (UnderWay' = UnderWay /\ taken' = taken)
<1>1. UNCHANGED <<tx_inprogress, tx_bit, tx_data>> /\ taken' = IF rx_ready THEN rx_data ELSE taken
  BY DEF RxClock, txVars
<1>2. UnderWayIs /\ UnderWayIs'
  BY QueueKnown, PTL
<1>3. CASE RxIdle(tx_)
  <2>1. ~rx_ready' /\ rx_data' = rx_data /\ ~rx_inprogress /\ (rx_inprogress' <=> tx_ = 0)
    BY <1>3 DEF RxIdle
  <2>2. OnWire' <=> OnWire
    <3>1. CASE ~tx_inprogress
      BY <1>1, <3>1 DEF OnWire
    <3>2. CASE tx_inprogress /\ Waiting
      BY <1>1, <3>2 DEF OnWire, Waiting
    <3>3. CASE tx_inprogress /\ Received
      BY <1>1, <2>1, <3>3 DEF OnWire, Received, IInv, LineInv, DrivenBit
    <3>. QED
      BY <2>1, <3>1, <3>2, <3>3 DEF IInv, PositionInv, Receiving
  <2>3. CASE rx_ready
    BY <1>1, <1>2, <2>1, <2>2, <2>3, ShortQueues DEF UnderWayIs, Channel!Take
  <2>4. CASE ~rx_ready
    BY <1>1, <1>2, <2>1, <2>2, <2>4 DEF UnderWayIs
  <2>. QED
    BY <2>3, <2>4
<1>4. CASE RxCount \/ RxSample(tx_)
  <2>1. ~rx_ready /\ ~rx_ready' /\ rx_inprogress /\ rx_inprogress'
    BY <1>4 DEF RxCount, RxSample, ReadyInv
  <2>. QED
    BY <1>1, <1>2, <2>1 DEF UnderWayIs, OnWire
<1>5. CASE RxDone
  <2>1. ~rx_ready /\ rx_ready' /\ rx_inprogress /\ ~rx_inprogress' /\ rx_data' = rx_data
    BY <1>5, Zenon DEF RxDone, ReadyInv
  <2>2. tx_inprogress /\ tx_bit = 9
    <3>1. tx_inprogress
      BY <2>1 DEF IInv, IdleInv
    <3>2. skew > -Lag
      BY <3>1 DEF RxClock
    <3>. QED
      BY <1>5, <2>1, <3>1, <3>2, SampleIsInPlace DEF RxDone, Sampling
  <2>3. rx_data = tx_data
    <3>1. \A i \in Bits : rx_data[i] = tx_data[i]
      BY <1>5 DEF RxDone, IInv, DataInv, Bits
    <3>2. rx_data \in Byte /\ tx_data \in Byte
      BY LinkAssumption DEF IInv, Numbers
    <3>. QED
      BY <3>1, <3>2 DEF Byte
  <2>4. OnWire /\ ~OnWire'
    BY <1>1, <2>1, <2>2 DEF OnWire
  <2>. QED
    BY <1>1, <1>2, <2>1, <2>3, <2>4 DEF UnderWayIs
<1>. QED
  BY <1>3, <1>4, <1>5 DEF RxClock, RxTick

(* The link delivers every byte sent, whole, in order and once, for every  *)
(* bit time and drift: all of ImplementsChannel but the promise that it is *)
(* delivered at last (uart.v:49-183).                                      *)
THEOREM LinkIsChannel == Spec => Channel!Safety
<1>1. Init => Channel!Init /\ ReadyInv
  <2> SUFFICES ASSUME Init PROVE Channel!Init /\ ReadyInv
    OBVIOUS
  <2>1. UnderWay = <<>>
    BY QueueKnown DEF Init, TxInit, RxInit, UnderWayIs, OnWire
  <2>. QED
    BY <2>1 DEF Init, RxInit, Channel!Init, ReadyInv
<1>2. IInv /\ ReadyInv /\ [Next]_vars => ReadyInv'
  BY ReadyInvNext
<1>3. IInv /\ ReadyInv /\ [Next]_vars => [Channel!Next]_Channel!vars
  <2> SUFFICES ASSUME IInv, ReadyInv, [Next]_vars PROVE [Channel!Next]_Channel!vars
    OBVIOUS
  <2>1. ASSUME NEW b \in Payload, Send(b) PROVE Channel!Next
    BY <2>1, SendIsSent DEF Channel!Next
  <2>2. CASE TxClock
    BY <2>2, TxClockIsSilent DEF Channel!vars
  <2>3. CASE RxClock
    BY <2>3, RxClockTakes DEF Channel!Next, Channel!vars
  <2>4. CASE UNCHANGED vars
    BY <2>4 DEF vars, txVars, rxVars, UnderWay, OnWire, Channel!vars
  <2>. QED
    BY <2>1, <2>2, <2>3, <2>4 DEF Next
<1>. QED
  BY <1>1, <1>2, <1>3, Invariance, PTL DEF Spec, Channel!Safety
=============================================================================
