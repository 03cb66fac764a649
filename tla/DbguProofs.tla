----------------------------- MODULE DbguProofs -----------------------------
(***************************************************************************)
(* The registers of the debug unit keep their ranges and a command to      *)
(* reset the CPU takes effect, for every set of commands, bit time and     *)
(* size of memory, with resets and with a host that does not wait.  For a  *)
(* host that waits, the phases of an exchange (DbguPhases) exclude each    *)
(* other, so that no byte and no response is lost, and each step of the    *)
(* unit is one of DbgProtocol.                                             *)
(***************************************************************************)
EXTENDS DbguPhases, SequenceTheorems, TLAPS

RxRanges ==
  /\ rx_left \in 0..RxCycles /\ rx_wire \in Known /\ uart_rx_data \in Known
  /\ rx_byte \in 0..7 /\ rx_data \in [0..4 -> U8]

\* The byte the receiver announces is one of the host's.
RxWhole ==
  /\ rx_left > 0 => rx_wire \in U8
  /\ rx_left \in 1..BitClk \/ uart_rx_ready => uart_rx_data \in U8

TxRanges ==
  /\ tx_left \in 0..TxCycles /\ tx_wire \in Known
  /\ tx_byte \in 0..7 /\ tx_data \in [0..3 -> U8] /\ uart_tx_data \in Known

RxBooleans == uart_rx_ready \in BOOLEAN /\ instr_rx_decode \in BOOLEAN /\ instr_rx_finish \in BOOLEAN
TxBooleans == /\ uart_tx_finished \in BOOLEAN /\ instr_tx_finish \in BOOLEAN
              /\ tx_req \in BOOLEAN /\ uart_tx_write \in BOOLEAN
MemBooleans == /\ busy \in BOOLEAN /\ mem_write \in BOOLEAN /\ mem_read \in BOOLEAN
               /\ mem_rdy \in BOOLEAN
CpuBooleans == cpu_run \in BOOLEAN /\ cpu_n_reset \in BOOLEAN

MemRanges ==
  /\ RW \in {0, 1} /\ adr_ptr \in Word /\ data_bus_out \in Word
  /\ data_bus_in \in Word /\ mem \in [0..(Cells - 1) -> Word]

HostRanges ==
  /\ asked \in Commands \union {<<>>} /\ to_send \in Seq(U8)
  /\ host_left \in 0..TxCycles /\ heard \in Seq(Known)

\* cpu_n_reset is low for one cycle of a running CPU, and no command ends in it.
RunReleases == cpu_run /\ ~cpu_n_reset => ~instr_rx_finish

Ranges == RxRanges /\ RxWhole /\ TxRanges /\ MemRanges /\ cpu_cycles \in U8 /\ HostRanges
Booleans == RxBooleans /\ TxBooleans /\ MemBooleans /\ CpuBooleans

IInv == Ranges /\ Booleans /\ RunReleases

-----------------------------------------------------------------------------

LEMMA Cycles ==
  /\ BitClk \in Nat /\ BitClk >= 2
  /\ RxCycles \in Nat /\ TxCycles \in Nat /\ TxCycles = 10 * BitClk
  /\ RxCycles > 9 * BitClk
BY FrameAssumption DEF RxCycles, TxCycles

LEMMA KnownBytes == U8 \subseteq Known /\ Garbled \in Known
BY DataAssumption DEF Known

LEMMA Add4Word ==
  ASSUME NEW adr \in Word
  PROVE  Add4(adr) \in Word
<1> DEFINE carry(i) == \A j \in 1..(i - 1) : adr[j] >= IF j = 1 THEN 252 ELSE 255
<1>1. ASSUME NEW i \in 1..4
      PROVE  (IF i = 1 THEN (adr[1] + 4) % 256
              ELSE IF carry(i) THEN (adr[i] + 1) % 256 ELSE adr[i]) \in U8
  <2>1. adr[1] \in U8 /\ adr[i] \in U8
    BY DEF Word
  <2>2. (adr[1] + 4) % 256 \in U8 /\ (adr[i] + 1) % 256 \in U8
    BY <2>1 DEF U8
  <2> HIDE DEF carry
  <2> QED BY <2>1, <2>2
<1> QED BY <1>1 DEF Add4, Word

LEMMA CellInMemory ==
  ASSUME NEW adr \in Word
  PROVE  Cell(adr) \in 0..(Cells - 1)
<1>1. adr[1] \in U8
  BY DEF Word
<1> DEFINE word == adr[1] \div 4
<1>2. word \in Nat
  BY <1>1 DEF U8
<1> HIDE DEF word
<1>3. Cells \in Nat /\ Cells > 0
  BY CommandsAssumption
<1>4. word % Cells \in 0..(Cells - 1)
  BY <1>2, <1>3
<1> QED BY <1>4 DEF Cell, word

LEMMA InvInit == Init => IInv
<1> SUFFICES ASSUME Init PROVE IInv
  OBVIOUS
<1> USE DEF Init, FrameInit
<1>1. Booleans
  BY Zenon DEF Booleans, RxBooleans, TxBooleans, MemBooleans, CpuBooleans
<1>2. Zero \in Word
  BY DEF Zero, Word, U8
<1>3. RxRanges /\ RxWhole /\ TxRanges
  BY Cycles, KnownBytes DEF RxRanges, RxWhole, TxRanges, U8
<1>4. MemRanges /\ cpu_cycles \in U8
  BY <1>2 DEF MemRanges, U8
<1>5. HostRanges
  BY Cycles DEF HostRanges
<1>6. RunReleases
  BY DEF RunReleases
<1> QED BY <1>1, <1>3, <1>4, <1>5, <1>6 DEF IInv, Ranges

-----------------------------------------------------------------------------

LEMMA BooleansKept ==
  ASSUME IInv, UnitEdge, uart_rx_ready' \in BOOLEAN
  PROVE  Booleans'
<1> USE DEF IInv, Booleans, UnitEdge
<1>1. RxBooleans'
  BY Zenon DEF RxBooleans, Reception
<1>2. uart_tx_finished' \in BOOLEAN
  BY Zenon DEF TxStep
<1>3. TxBooleans'
  BY <1>2, Zenon DEF TxBooleans, Transmission
<1>4. MemBooleans'
  <2>1. busy' \in BOOLEAN
    BY Zenon DEF Cts
  <2>2. mem_write' \in BOOLEAN /\ mem_read' \in BOOLEAN
    BY Zenon DEF MemoryAccess
  <2>3. mem_rdy' \in BOOLEAN
    BY Zenon DEF MemoryAnswers, mem_op
  <2> QED BY <2>1, <2>2, <2>3, Zenon DEF MemBooleans
<1>5. CpuBooleans'
  <2>1. cpu_n_reset' \in BOOLEAN
    BY Zenon DEF CpuControl
  <2>2. cpu_run' \in BOOLEAN
    BY DEF CpuControl, CpuBooleans
  <2> QED BY <2>1, <2>2, Zenon DEF CpuBooleans
<1> QED BY <1>1, <1>3, <1>4, <1>5

\* What an edge of the unit does to the registers.
LEMMA UnitKept ==
  ASSUME IInv, UnitEdge
  PROVE  /\ rx_byte' \in 0..7 /\ rx_data' \in [0..4 -> U8]
         /\ TxRanges' /\ MemRanges' /\ cpu_cycles' \in U8
<1> USE Cycles, KnownBytes DEF IInv, Ranges, UnitEdge
<1>1. rx_byte' \in 0..7
  BY DEF Reception, RxRanges
<1>2. rx_data' \in [0..4 -> U8]
  BY DEF Reception, RxRanges, RxWhole
<1>3. tx_left' \in 0..TxCycles
  BY DEF TxStep, TxRanges
<1>4. tx_wire' \in Known
  BY DEF TxStep, TxRanges
<1>5. tx_byte' \in 0..7
  BY DEF Transmission, TxRanges
<1>6. uart_tx_data' \in Known
  BY DEF Transmission, TxRanges
<1>7. tx_data' \in [0..3 -> U8]
  <2>1. \A w \in Word : [i \in 0..3 |-> w[i + 1]] \in [0..3 -> U8]
    BY DEF Word
  <2> DEFINE byte(regs, b) == [regs EXCEPT ![0] = b]
             decoded ==
               CASE tx_nak -> byte(tx_data, NAK)
                 [] Executes(I_ADR_PTR_GET) -> [i \in 0..3 |-> adr_ptr[i + 1]]
                 [] \E i \in {I_ADR_PTR_SET, I_CPU_RESET, I_CPU_FREERUN} : Executes(i) ->
                      byte(tx_data, ACK)
                 [] OTHER -> tx_data
             accessed == CASE MemDone /\ mem_read -> [i \in 0..3 |-> data_bus_in[i + 1]]
                           [] MemDone /\ ~mem_read -> byte(decoded, ACK)
                           [] OTHER -> decoded
  <2>2. \A regs \in [0..3 -> U8], b \in {ACK, NAK} : byte(regs, b) \in [0..3 -> U8]
    BY DEF ACK, NAK, U8
  <2>3. tx_data' = IF LastCycle THEN byte(accessed, ACK) ELSE accessed
    BY DEF Response
  <2>4. tx_data \in [0..3 -> U8] /\ adr_ptr \in Word /\ data_bus_in \in Word
    BY DEF TxRanges, MemRanges
  <2> HIDE DEF byte
  <2>5. decoded \in [0..3 -> U8]
    BY ONLY <2>1, <2>2, <2>4
  <2> HIDE DEF decoded
  <2>6. accessed \in [0..3 -> U8]
    BY ONLY <2>1, <2>2, <2>4, <2>5
  <2> HIDE DEF accessed
  <2> QED BY ONLY <2>2, <2>3, <2>6
<1>8. Operand \in Word
  BY DEF Operand, Word, RxRanges
<1>9. adr_ptr' \in Word
  BY <1>8, Add4Word DEF MemoryAccess, MemRanges
<1>10. RW' \in {0, 1} /\ data_bus_out' \in Word
  BY <1>8 DEF MemoryAccess, MemRanges
<1>11. Cell(adr_ptr) \in 0..(Cells - 1)
  BY CellInMemory DEF MemRanges
<1>12. data_bus_in' \in Word /\ mem' \in [0..(Cells - 1) -> Word]
  BY <1>11 DEF MemoryAnswers, MemRanges
<1>13. cpu_cycles' \in U8
  BY DEF CpuControl, RxRanges, U8
<1> QED BY <1>1, <1>2, <1>3, <1>4, <1>5, <1>6, <1>7, <1>9, <1>10, <1>12, <1>13 DEF TxRanges, MemRanges

LEMMA StepReceives ==
  ASSUME IInv, RxStep
  PROVE  /\ rx_left' \in 0..RxCycles /\ rx_wire' \in Known /\ uart_rx_data' \in Known
         /\ RxWhole' /\ uart_rx_ready' \in BOOLEAN
<1> USE Cycles, KnownBytes DEF IInv, Ranges, RxRanges, RxStep
<1>1. uart_rx_ready' \in BOOLEAN
  BY Zenon
<1>2. rx_left' \in 0..RxCycles /\ rx_wire' = rx_wire /\ uart_rx_data' \in Known
  OBVIOUS
<1>3. rx_left' > 0 => rx_wire' \in U8
  BY DEF RxWhole
<1>4. rx_left = BitClk + 1 => uart_rx_data' \in U8
  BY DEF RxWhole
<1>5. rx_left \in 1..BitClk => uart_rx_data' \in U8
  BY DEF RxWhole
<1>6. rx_left' \in 1..BitClk => rx_left \in 1..(BitClk + 1)
  OBVIOUS
<1>7. uart_rx_ready' => rx_left = 1
  BY Zenon
<1> QED BY <1>1, <1>2, <1>3, <1>4, <1>5, <1>6, <1>7 DEF RxWhole

LEMMA StartReceives ==
  ASSUME IInv, NEW b \in U8, RxStart(b)
  PROVE  /\ rx_left' \in 0..RxCycles /\ rx_wire' \in Known /\ uart_rx_data' \in Known
         /\ RxWhole' /\ uart_rx_ready' \in BOOLEAN
<1> USE Cycles, KnownBytes DEF IInv, Ranges, RxRanges, RxStart
<1>1. uart_rx_ready' \in BOOLEAN /\ ~uart_rx_ready'
  BY Zenon
<1>2. rx_left' = RxCycles /\ rx_wire' = b /\ uart_rx_data' = uart_rx_data
  OBVIOUS
<1> QED BY <1>1, <1>2 DEF RxWhole

\* A command that ends raises cpu_n_reset again only one cycle later.
LEMMA RunReleasesKept ==
  ASSUME IInv, UnitEdge
  PROVE  RunReleases'
<1> SUFFICES ASSUME cpu_run', ~cpu_n_reset', instr_rx_finish'
             PROVE  FALSE
  BY Zenon DEF RunReleases
<1>1. ~instr_rx_finish
  BY Zenon DEF UnitEdge, Reception
<1>2. cpu_run /\ ~Executes(I_CPU_RESET)
  BY <1>1 DEF UnitEdge, CpuControl, Executes
<1>3. cpu_n_reset' = ((cpu_run /\ ~cpu_n_reset) \/ (cpu_n_reset /\ ~Executes(I_CPU_RESET)))
  BY Zenon DEF UnitEdge, CpuControl
<1> QED BY <1>2, <1>3, Zenon DEF IInv, Booleans, CpuBooleans

LEMMA UnitEdgeKeeps ==
  ASSUME IInv, UnitEdge, HostRanges', RxStep \/ \E b \in U8 : RxStart(b)
  PROVE  IInv'
<1>1. /\ rx_left' \in 0..RxCycles /\ rx_wire' \in Known /\ uart_rx_data' \in Known
      /\ RxWhole' /\ uart_rx_ready' \in BOOLEAN
  BY StepReceives, StartReceives, Zenon
<1> QED BY <1>1, BooleansKept, UnitKept, RunReleasesKept DEF IInv, Ranges, RxRanges

-----------------------------------------------------------------------------

LEMMA EdgeKeeps == IInv /\ Edge => IInv'
<1> SUFFICES ASSUME IInv, Edge PROVE IInv'
  OBVIOUS
<1>1. HostRanges'
  BY Cycles DEF Edge, HostRanges, IInv, Ranges, TxRanges, Hear
<1> QED BY <1>1, UnitEdgeKeeps DEF Edge

LEMMA ContinueKeeps == IInv /\ ContinueCommand => IInv'
<1> SUFFICES ASSUME IInv, ContinueCommand PROVE IInv'
  OBVIOUS
<1>1. Head(to_send) \in U8 /\ Tail(to_send) \in Seq(U8)
  BY DEF ContinueCommand, IInv, Ranges, HostRanges
<1>2. HostRanges'
  BY <1>1, Cycles DEF ContinueCommand, StartByte, HostRanges, IInv, Ranges, TxRanges, Hear
<1>3. RxStart(Head(to_send)) /\ UnitEdge
  BY DEF ContinueCommand, StartByte
<1> QED BY <1>1, <1>2, <1>3, UnitEdgeKeeps

LEMMA BeginKeeps ==
  ASSUME IInv, NEW c \in Commands, BeginCommand(c)
  PROVE  IInv'
<1>1. Head(c) \in U8 /\ Tail(c) \in Seq(U8)
  BY CommandsAssumption
<1>2. HostRanges'
  <2>1. heard' \in Seq(Known)
    BY DEF BeginCommand, IInv, Ranges, TxRanges
  <2>2. asked' = c /\ to_send' = Tail(c) /\ host_left' = TxCycles - 1
    BY DEF BeginCommand, StartByte
  <2> QED BY <1>1, <2>1, <2>2, Cycles DEF HostRanges
<1>3. RxStart(Head(c)) /\ UnitEdge
  BY DEF BeginCommand, StartByte
<1> QED BY <1>1, <1>2, <1>3, UnitEdgeKeeps

LEMMA ResetKeeps == IInv /\ Reset => IInv'
<1> SUFFICES ASSUME IInv, Reset PROVE IInv'
  OBVIOUS
<1> USE DEF IInv, Ranges, Booleans, Reset, ResetRegisters, FrameReset
<1>1. RxBooleans' /\ TxBooleans' /\ CpuBooleans'
  BY Zenon DEF RxBooleans, TxBooleans, CpuBooleans
<1>2. MemBooleans'
  BY Zenon DEF MemBooleans, MemoryAnswers, mem_op
<1>3. RxRanges' /\ RxWhole' /\ TxRanges'
  BY Cycles, KnownBytes DEF RxRanges, RxWhole, TxRanges
<1>4. MemRanges' /\ cpu_cycles' \in U8
  <2>1. Cell(adr_ptr) \in 0..(Cells - 1)
    BY CellInMemory DEF MemRanges
  <2> QED BY <2>1 DEF MemRanges, MemoryAnswers, U8
<1>5. HostRanges' /\ RunReleases'
  BY Cycles DEF HostRanges, RunReleases
<1> QED BY <1>1, <1>2, <1>3, <1>4, <1>5

LEMMA StutterKeeps == IInv /\ UNCHANGED vars => IInv'
BY DEF vars, frameVars, rxRegs, txRegs, memRegs, cpuRegs, memory, host, IInv, Ranges, Booleans,
       RxRanges, RxWhole, TxRanges, RxBooleans, TxBooleans, MemBooleans, CpuBooleans, MemRanges,
       HostRanges, RunReleases

\* The bytes and words of the unit keep their ranges, and a running CPU is
\* never in reset when a command ends.
THEOREM DbguInvariance == Spec => []IInv
<1>1. IInv /\ [Next]_vars => IInv'
  BY EdgeKeeps, ContinueKeeps, BeginKeeps, ResetKeeps, StutterKeeps DEF Next
<1> QED BY InvInit, <1>1, PTL DEF Spec

\* Types: a byte of which the host sent only a part is neither announced nor
\* taken into a register of the command or the response, resets or not
\* (dbgu32.v:93-144,178-367).
THEOREM DbguTypeCorrect == Spec => []DbgTypeOK
<1>1. IInv => DbgTypeOK
  BY KnownBytes DEF uart_rx_stopbit, IInv, Ranges, Booleans, RxRanges, RxWhole, TxRanges, RxBooleans, TxBooleans,
       MemBooleans, CpuBooleans, MemRanges, HostRanges, DbgTypeOK, FrameTypeOK
<1> QED BY DbguInvariance, <1>1, PTL

\* The reset command lowers cpu_n_reset although a running CPU raises it in
\* the same block (dbgu32.v:261-265,302-303).
THEOREM CpuResetWorks == Spec => CpuResetTakesEffect
<1>1. ASSUME IInv, Executes(I_CPU_RESET), UnitEdge
      PROVE  ~cpu_n_reset'
  <2>1. cpu_n_reset' = ((cpu_run /\ ~cpu_n_reset) \/ (cpu_n_reset /\ ~Executes(I_CPU_RESET)))
    BY <1>1, Zenon DEF UnitEdge, CpuControl
  <2>2. ~(cpu_run /\ ~cpu_n_reset)
    BY <1>1 DEF IInv, RunReleases, Executes
  <2> QED BY <1>1, <2>1, <2>2, Zenon
<1>2. ASSUME Reset
      PROVE  ~cpu_n_reset'
  BY <1>2, Zenon DEF Reset, ResetRegisters
<1>3. IInv /\ [Next]_vars => [Executes(I_CPU_RESET) => ~cpu_n_reset']_vars
  BY <1>1, <1>2 DEF Next, Edge, ContinueCommand, BeginCommand
<1> QED BY DbguInvariance, <1>3, PTL DEF Spec, CpuResetTakesEffect

-----------------------------------------------------------------------------
(* What an edge does to the parts of a phase.                              *)

LEMMA CommandLengths ==
  ASSUME NEW c \in Commands
  PROVE  /\ c \in Seq(U8) /\ c[1] \in U8
         /\ Len(c) = RX_DATA_LEN(c[1]) /\ Len(c) \in 1..5
<1>1. c \in Seq(U8) /\ c # <<>> /\ Len(c) = RX_DATA_LEN(c[1])
  BY CommandsAssumption
<1> QED BY <1>1 DEF RX_DATA_LEN

LEMMA ResponseLengths == TxLen \in 1..4
BY DEF TxLen, TX_DATA_LEN

\* The flags of the unit after an edge.
LEMMA Flags ==
  ASSUME UnitEdge
  PROVE  /\ uart_tx_finished' <=> tx_left = 1
         /\ instr_rx_decode' <=> uart_rx_ready /\ ~instr_rx_decode
         /\ instr_rx_finish' <=> Complete /\ ~instr_rx_finish
         /\ tx_req' <=> (tx_req \/ Respond) /\ ~(tx_req /\ ~instr_tx_finish)
         /\ uart_tx_write' <=> tx_next_byte /\ ~uart_tx_write
         /\ instr_tx_finish' <=> LastByteSent \/ (instr_tx_finish /\ ~uart_tx_finished)
         /\ mem_write' <=> (Executes(I_MEM_WR) \/ mem_write) /\ ~(MemDone /\ mem_write)
         /\ mem_read' <=> (Executes(I_MEM_RD) \/ mem_read) /\ ~(MemDone /\ mem_read)
         /\ mem_rdy' <=> mem_op
         /\ busy' <=> (uart_rx_stopbit \/ busy) /\ ~(Partial \/ tx_ack \/ tx_nak \/ LastByteSent)
<1> USE DEF UnitEdge
<1>1. uart_tx_finished' <=> tx_left = 1
  BY Zenon DEF TxStep
<1>2. /\ instr_rx_decode' <=> uart_rx_ready /\ ~instr_rx_decode
      /\ instr_rx_finish' <=> Complete /\ ~instr_rx_finish
  BY Zenon DEF Reception
<1>3. /\ tx_req' <=> (tx_req \/ Respond) /\ ~(tx_req /\ ~instr_tx_finish)
      /\ uart_tx_write' <=> tx_next_byte /\ ~uart_tx_write
  BY Zenon DEF Transmission
<1>7. instr_tx_finish' <=> LastByteSent \/ (instr_tx_finish /\ ~uart_tx_finished)
  BY Zenon DEF Transmission
<1>4. /\ mem_write' <=> (Executes(I_MEM_WR) \/ mem_write) /\ ~(MemDone /\ mem_write)
      /\ mem_read' <=> (Executes(I_MEM_RD) \/ mem_read) /\ ~(MemDone /\ mem_read)
  BY Zenon DEF MemoryAccess
<1>5. mem_rdy' <=> mem_op
  BY Zenon DEF MemoryAnswers
<1>6. busy' <=> (uart_rx_stopbit \/ busy) /\ ~(Partial \/ tx_ack \/ tx_nak \/ LastByteSent)
  BY Zenon DEF Cts
<1> QED BY <1>1, <1>2, <1>3, <1>4, <1>5, <1>6, <1>7

\* A running CPU is out of its reset an edge later at the latest.
LEMMA ResetPin ==
  ASSUME IInv, UnitEdge, ~Executes(I_CPU_RESET)
  PROVE  cpu_n_reset' <=> cpu_run \/ cpu_n_reset
<1>1. cpu_n_reset' = ((cpu_run /\ ~cpu_n_reset) \/ (cpu_n_reset /\ ~Executes(I_CPU_RESET)))
  BY Zenon DEF UnitEdge, CpuControl
<1> QED BY <1>1, Zenon DEF IInv, Booleans, CpuBooleans

\* cpu_run stays while no command that changes it ends.
LEMMA RunPin ==
  ASSUME IInv, UnitEdge, ~Executes(I_CPU_RUN_CYC), ~Executes(I_CPU_FREERUN), ~LastCycle
  PROVE  cpu_run' = cpu_run
BY Zenon DEF UnitEdge, CpuControl

\* The counters of the UART after one at which the host starts no byte.
LEMMA LineStep ==
  ASSUME IInv, RxStep
  PROVE  /\ rx_left' = IF rx_left = 0 THEN 0 ELSE rx_left - 1
         /\ uart_rx_ready' <=> rx_left = 1
         /\ rx_wire' = rx_wire
<1>1. uart_rx_ready' <=> rx_left = 1
  BY Zenon DEF RxStep
<1> QED BY <1>1 DEF RxStep

LEMMA TxLeftStep ==
  ASSUME IInv, UnitEdge
  PROVE  /\ tx_left > 0 => tx_left' = tx_left - 1
         /\ tx_left = 0 /\ uart_tx_write => tx_left' = TxCycles
         /\ tx_left = 0 /\ ~uart_tx_write => tx_left' = 0
<1>1. tx_left' = CASE tx_left > 0 -> tx_left - 1
                   [] tx_left = 0 /\ uart_tx_write -> TxCycles
                   [] OTHER -> 0
  BY Zenon DEF UnitEdge, TxStep
<1>2. tx_left \in 0..TxCycles /\ uart_tx_write \in BOOLEAN
  BY DEF IInv, Ranges, TxRanges, Booleans, TxBooleans
<1> QED BY <1>1, <1>2

\* While nothing executes, only the end of a reception starts something.
LEMMA NoExecStep ==
  ASSUME IInv, NoExec, UnitEdge
  PROVE  /\ ~Respond /\ ~tx_ack /\ ~tx_nak
         /\ ~mem_op' /\ ~mem_rdy' /\ mem' = mem /\ cpu_cycles' = 0 /\ adr_ptr' = adr_ptr
         /\ cpu_run' = cpu_run /\ tx_data' = tx_data
         /\ instr_rx_finish' = Complete
<1> USE DEF NoExec, UnitEdge, IInv, Booleans
<1>1. ~Respond /\ ~tx_ack /\ ~tx_nak /\ ~LastCycle /\ ~MemDone /\ \A i : ~Executes(i)
  BY DEF Respond, tx_ack, tx_nak, LastCycle, MemDone, Executes
<1>2. ~mem_op' /\ adr_ptr' = adr_ptr
  BY <1>1 DEF MemoryAccess, mem_op
<1>3. ~mem_rdy' /\ mem' = mem
  BY DEF MemoryAnswers, mem_op
<1>4. cpu_cycles' = 0
  BY <1>1 DEF CpuControl
<1>7. cpu_run' = cpu_run
  BY <1>1, Zenon DEF CpuControl
<1>5. tx_data' = tx_data
  BY <1>1 DEF Response
<1>6. instr_rx_finish' = Complete
  BY Zenon DEF Reception, RxBooleans, Complete
<1> QED BY <1>1, <1>2, <1>3, <1>4, <1>5, <1>6, <1>7

LEMMA TxIdleStep ==
  ASSUME IInv, TxIdle, UnitEdge, ~Respond
  PROVE  TxIdle'
<1>1. tx_left' = 0 /\ ~uart_tx_finished'
  BY TxLeftStep, Flags DEF TxIdle
<1>2. ~tx_req' /\ ~uart_tx_write' /\ ~instr_tx_finish'
  BY Flags DEF TxIdle, tx_next_byte, LastByteSent
<1>3. tx_byte' = 0
  BY DEF TxIdle, UnitEdge, Transmission, tx_next_byte
<1> QED BY <1>1, <1>2, <1>3 DEF TxIdle

LEMMA TxEndingStep ==
  ASSUME IInv, TxEnding, UnitEdge, ~Respond, rx_data'[0] = rx_data[0]
  PROVE  IF tx_left = 0 THEN TxIdle' ELSE TxEnding' /\ tx_left' = tx_left - 1
<1> USE Cycles DEF TxEnding
<1>1. ~tx_req' /\ ~uart_tx_write'
  BY Flags DEF tx_next_byte
<1>2. CASE tx_left = 0
  <2>1. tx_left' = 0 /\ ~uart_tx_finished'
    BY <1>2, TxLeftStep, Flags
  <2>2. ~instr_tx_finish'
    BY <1>2, Flags DEF LastByteSent
  <2>3. tx_byte' = 0
    BY <1>2 DEF UnitEdge, Transmission, tx_next_byte
  <2> QED BY <1>1, <1>2, <2>1, <2>2, <2>3 DEF TxIdle
<1>3. CASE tx_left \in 1..BitClk
  <2>1. tx_left' = tx_left - 1 /\ (uart_tx_finished' <=> tx_left = 1)
    BY <1>3, TxLeftStep, Flags
  <2>2. instr_tx_finish'
    BY <1>3, Flags
  <2>3. tx_byte' = tx_byte
    BY <1>3 DEF UnitEdge, Transmission, tx_next_byte
  <2> QED BY <1>1, <1>3, <2>1, <2>2, <2>3 DEF TxLen
<1> QED BY <1>2, <1>3

LEMMA HeardKept ==
  ASSUME tx_left = 0 \/ tx_left \in 1..BitClk, Hear
  PROVE  heard' = heard
BY Cycles DEF Hear, ByteArrives

-----------------------------------------------------------------------------
(* The phases under an edge at which the host starts no byte.              *)

LEMMA IdleStep == IInv /\ Idle /\ Edge => Idle'
<1> SUFFICES ASSUME IInv, Idle, Edge PROVE Idle'
  OBVIOUS
<1> USE Cycles DEF Idle, Edge, RxIdle
<1>1. UnitEdge /\ NoExec
  OBVIOUS
<1>2. ~Respond /\ ~mem_op' /\ cpu_cycles' = 0 /\ instr_rx_finish' = Complete
  BY <1>1, NoExecStep
<1>3. rx_left' = 0 /\ ~uart_rx_ready'
  BY LineStep
<1>4. ~instr_rx_decode' /\ rx_byte' = 0 /\ rx_data' = rx_data
  BY <1>1 DEF UnitEdge, Reception, NoExec
<1>5. ~Complete
  BY DEF Complete
<1>6. TxIdle' \/ TxEnding'
  BY <1>1, <1>2, <1>4, TxIdleStep, TxEndingStep
<1>7. heard' = heard
  BY HeardKept DEF TxIdle, TxEnding
<1>8. Answered' /\ to_send' = <<>>
  BY <1>7 DEF Answered
<1> QED BY <1>2, <1>3, <1>4, <1>5, <1>6, <1>8 DEF NoExec

\* The bytes of the command the host has sent, and the length the unit finds.
LEMMA CommandFacts ==
  ASSUME IInv, Command
  PROVE  /\ asked \in Commands /\ asked \in Seq(U8)
         /\ Len(asked) = RX_DATA_LEN(asked[1]) /\ Len(asked) \in 1..5
         /\ Sent \in 1..Len(asked) /\ Len(to_send) = Len(asked) - Sent
         /\ asked[Sent] \in U8
<1>1. asked \in Commands /\ to_send \in Seq(U8)
  BY DEF IInv, Ranges, HostRanges, Command
<1>2. /\ asked \in Seq(U8) /\ Len(asked) = RX_DATA_LEN(asked[1]) /\ Len(asked) \in 1..5
  BY <1>1, CommandLengths
<1>3. Len(to_send) \in Nat /\ Len(to_send) < Len(asked)
  BY <1>1 DEF Command
<1>4. Sent \in 1..Len(asked) /\ Len(to_send) = Len(asked) - Sent
  BY <1>2, <1>3 DEF Sent
<1> QED BY <1>1, <1>2, <1>4

LEMMA IncomingStep ==
  ASSUME IInv, Command, Incoming, Edge
  PROVE  Command' /\ (Incoming' \/ Ready')
<1> USE Cycles DEF Incoming
<1>1. UnitEdge /\ RxStep /\ Hear /\ UNCHANGED <<asked, to_send>> /\ NoExec
  BY DEF Edge, Command
<1>2. /\ ~Respond /\ ~tx_ack /\ ~tx_nak /\ NoExec'
  BY <1>1, NoExecStep DEF NoExec, Complete
<1>3. rx_byte' = rx_byte /\ rx_data' = rx_data
  BY <1>1 DEF UnitEdge, Reception, NoExec
<1>4. ~instr_rx_decode'
  BY <1>1, Flags
<1>5. rx_left' = rx_left - 1 /\ (uart_rx_ready' <=> rx_left = 1) /\ rx_wire' = rx_wire
  BY <1>1, LineStep DEF IInv, Ranges, RxRanges
<1>6. Sent' = Sent /\ heard' = heard
  BY <1>1, HeardKept DEF TxIdle, TxEnding, Sent
<1>7. Command'
  BY <1>1, <1>2, <1>3, <1>6 DEF Command, Stored
<1>8. rx_left' <= BitClk => uart_rx_data' = asked[Sent]
  <2>1. CASE rx_left = BitClk + 1
    BY <1>1, <2>1 DEF RxStep
  <2>2. CASE rx_left <= BitClk
    BY <1>1, <2>2 DEF RxStep, IInv, Ranges, RxRanges
  <2> QED BY <1>5, <2>1, <2>2 DEF IInv, Ranges, RxRanges
<1>9. rx_left' < BitClk => busy'
  <2>1. rx_left' < BitClk => uart_rx_stopbit
    BY <1>5 DEF uart_rx_stopbit, IInv, Ranges, RxRanges
  <2>2. ~Partial /\ ~LastByteSent
    BY DEF Partial, LastByteSent, TxIdle, TxEnding
  <2> QED BY <1>1, <1>2, <2>1, <2>2, Flags
<1>10. TxIdle => TxIdle'
  BY <1>1, <1>2, TxIdleStep
<1>11. CASE rx_left = 1
  <2>1. TxIdle'
    BY <1>10, <1>11 DEF TxEnding
  <2>2. rx_left' = 0 /\ uart_rx_ready' /\ rx_byte' = Sent' - 1
    BY <1>3, <1>5, <1>6, <1>11
  <2>3. uart_rx_data' = asked'[Sent'] /\ busy'
    BY <1>1, <1>6, <1>8, <1>9, <2>2
  <2> QED BY <1>4, <1>7, <2>1, <2>2, <2>3 DEF Ready
<1>12. CASE rx_left > 1
  <2>1. TxEnding => TxIdle' \/ (TxEnding' /\ tx_left' = tx_left - 1)
    BY <1>1, <1>2, <1>3, TxEndingStep
  <2>2. TxIdle' \/ (TxEnding' /\ rx_left' >= tx_left' + RxCycles - BitClk)
    BY <1>5, <1>10, <2>1 DEF IInv, Ranges, RxRanges, TxRanges
  <2>3. rx_left' > 0 /\ ~uart_rx_ready'
    BY <1>5, <1>12 DEF IInv, Ranges, RxRanges
  <2>4. /\ rx_byte' = Sent' - 1 /\ rx_wire' = asked'[Sent']
        /\ rx_left' <= BitClk => uart_rx_data' = asked'[Sent']
    BY <1>1, <1>3, <1>5, <1>6, <1>8
  <2>5. Incoming'
    BY <1>4, <1>9, <2>2, <2>3, <2>4
  <2> QED BY <1>7, <2>5
<1> QED BY <1>11, <1>12 DEF IInv, Ranges, RxRanges

LEMMA ReadyStep ==
  ASSUME IInv, Command, Ready, Edge
  PROVE  Command' /\ Decoding'
<1> USE Cycles DEF Ready
<1>1. UnitEdge /\ RxStep /\ Hear /\ UNCHANGED <<asked, to_send>> /\ NoExec
  BY DEF Edge, Command
<1>2. ~Respond /\ ~tx_ack /\ ~tx_nak /\ NoExec'
  BY <1>1, NoExecStep DEF NoExec, Complete
<1>3. Sent \in 1..5 /\ asked[Sent] \in U8
  BY CommandFacts
<1>4. rx_byte' = Sent /\ rx_data' = [rx_data EXCEPT ![Sent - 1] = asked[Sent]]
  BY <1>1, <1>3 DEF UnitEdge, Reception, NoExec
<1>5. rx_left' = 0 /\ ~uart_rx_ready'
  BY <1>1, LineStep
<1>6. instr_rx_decode' /\ busy'
  BY <1>1, <1>2, Flags DEF Partial, LastByteSent, TxIdle
<1>7. TxIdle'
  BY <1>1, <1>2, TxIdleStep
<1>8. Sent' = Sent /\ heard' = heard
  BY <1>1, HeardKept DEF TxIdle, Sent
<1>9. Stored(rx_byte)'
  <2> SUFFICES ASSUME NEW i \in 1..Sent PROVE rx_data'[i - 1] = asked[i]
    BY <1>1, <1>4 DEF Stored
  <2>1. i < Sent => rx_data[i - 1] = asked[i]
    BY <1>3 DEF Command, Stored
  <2> QED BY <1>3, <1>4, <2>1 DEF IInv, Ranges, RxRanges
<1>10. Command'
  BY <1>1, <1>2, <1>8, <1>9 DEF Command
<1> QED BY <1>4, <1>5, <1>6, <1>7, <1>8, <1>10 DEF Decoding

LEMMA DecodingStep ==
  ASSUME IInv, Command, Decoding, Edge
  PROVE  (Command' /\ Gap') \/ Finishing'
<1> USE Cycles DEF Decoding
<1>1. UnitEdge /\ RxStep /\ Hear /\ UNCHANGED <<asked, to_send>> /\ NoExec
  BY DEF Edge, Command
<1>2. /\ ~Respond /\ ~tx_ack /\ ~tx_nak /\ ~mem_op' /\ ~mem_rdy' /\ cpu_cycles' = 0
      /\ instr_rx_finish' = Complete
  BY <1>1, NoExecStep
<1>3. rx_byte' = rx_byte /\ rx_data' = rx_data
  BY <1>1 DEF UnitEdge, Reception, NoExec
<1>4. RxIdle'
  BY <1>1, LineStep, Flags DEF RxIdle
<1>5. TxIdle'
  BY <1>1, <1>2, TxIdleStep
<1>6. Sent' = Sent /\ heard' = heard
  BY <1>1, HeardKept DEF TxIdle, Sent
<1>7. Complete <=> Sent = Len(asked)
  <2>1. rx_data[0] = asked[1]
    BY CommandFacts DEF Command, Stored
  <2> QED BY <2>1, CommandFacts DEF Complete, RxLen
<1>8. Stored(Sent)'
  BY <1>1, <1>3, <1>6 DEF Command, Stored
<1>9. CASE Sent = Len(asked)
  <2>1. to_send = <<>>
    BY <1>9, CommandFacts DEF IInv, Ranges, HostRanges
  <2>2. busy'
    BY <1>1, <1>2, <1>7, <1>9, Flags DEF Partial, Complete, LastByteSent, TxIdle
  <2>3. asked' # <<>> /\ heard' = <<>>
    BY <1>1, <1>6 DEF Command
  <2> QED BY <1>1, <1>2, <1>4, <1>5, <1>6, <1>7, <1>8, <1>9, <2>1, <2>2, <2>3
    DEF Finishing, Unanswered, Received
<1>10. CASE Sent # Len(asked)
  <2>1. to_send # <<>> /\ NoExec'
    BY <1>2, <1>7, <1>10, CommandFacts DEF NoExec
  <2>2. Command'
    BY <1>1, <1>3, <1>6, <1>8, <2>1 DEF Command
  <2> QED BY <1>1, <1>3, <1>4, <1>5, <1>6, <2>1, <2>2 DEF Gap
<1> QED BY <1>9, <1>10

LEMMA GapStep ==
  ASSUME IInv, Command, Gap, Edge
  PROVE  Command' /\ Gap'
<1> USE DEF Gap, RxIdle
<1>1. UnitEdge /\ RxStep /\ Hear /\ UNCHANGED <<asked, to_send>> /\ NoExec
  BY DEF Edge, Command
<1>2. ~Respond /\ NoExec'
  BY <1>1, NoExecStep DEF NoExec, Complete
<1>3. rx_byte' = rx_byte /\ rx_data' = rx_data
  BY <1>1 DEF UnitEdge, Reception, NoExec
<1>4. RxIdle'
  BY <1>1, LineStep, Flags
<1>5. TxIdle'
  BY <1>1, <1>2, TxIdleStep
<1>6. Sent' = Sent /\ heard' = heard
  BY <1>1, HeardKept DEF TxIdle, Sent
<1>7. Command'
  BY <1>1, <1>2, <1>3, <1>6 DEF Command, Stored
<1> QED BY <1>1, <1>3, <1>4, <1>5, <1>6, <1>7

\* An edge at which a command received waits for its response.
LEMMA UnansweredStep ==
  ASSUME IInv, Unanswered, Edge
  PROVE  /\ UnitEdge /\ asked' # <<>> /\ to_send' = <<>> /\ heard' = <<>>
         /\ rx_data' = rx_data /\ Received' /\ ~instr_rx_finish'
         /\ instr_rx_finish \/ rx_byte = 0 => rx_byte' = 0
         /\ IF Respond THEN Requested' ELSE TxIdle'
         /\ busy /\ ~tx_ack /\ ~tx_nak => busy'
<1> USE DEF Unanswered, Received, RxIdle
<1>1. UnitEdge /\ RxStep /\ Hear /\ UNCHANGED <<asked, to_send>>
  BY DEF Edge
<1>2. rx_data' = rx_data /\ (instr_rx_finish \/ rx_byte = 0 => rx_byte' = 0)
  BY <1>1 DEF UnitEdge, Reception, IInv, Booleans, RxBooleans
<1>3. RxIdle' /\ ~instr_rx_finish'
  BY <1>1, LineStep, Flags DEF Complete
<1>4. heard' = heard
  BY <1>1, HeardKept DEF TxIdle
<1>5. Stored(Len(asked))'
  BY <1>1, <1>2 DEF Stored
<1>6. ASSUME Respond PROVE Requested'
  <2>1. tx_left' = 0 /\ ~uart_tx_finished' /\ ~uart_tx_write' /\ ~instr_tx_finish' /\ tx_req'
    BY <1>1, <1>6, TxLeftStep, Flags DEF TxIdle, tx_next_byte, LastByteSent
  <2>2. tx_byte' = 0
    BY <1>1 DEF TxIdle, UnitEdge, Transmission, tx_next_byte
  <2> QED BY <1>4, <2>1, <2>2 DEF Requested
<1>7. ~Respond => TxIdle'
  BY <1>1, TxIdleStep
<1>8. busy /\ ~tx_ack /\ ~tx_nak => busy'
  BY <1>1, Flags DEF Partial, LastByteSent, TxIdle
<1> QED BY <1>1, <1>2, <1>3, <1>4, <1>5, <1>6, <1>7, <1>8

\* A command either asks the memory or starts the CPU, or is answered at once.
LEMMA FinishingStep == IInv /\ Finishing /\ Edge => Accessing' \/ Running' \/ Mute' \/ Responding'
<1> SUFFICES ASSUME IInv, Finishing, Edge
             PROVE  Accessing' \/ Running' \/ Mute' \/ Responding'
  OBVIOUS
<1> USE DEF Finishing
<1>1. /\ UnitEdge /\ asked' # <<>> /\ to_send' = <<>> /\ heard' = <<>>
      /\ rx_data' = rx_data /\ Received' /\ ~instr_rx_finish' /\ rx_byte' = 0
      /\ IF Respond THEN Requested' ELSE TxIdle'
      /\ ~tx_ack /\ ~tx_nak => busy'
  BY UnansweredStep
<1>2. ~MemDone /\ ~LastCycle /\ ~mem_write /\ ~mem_read
  BY DEF MemDone, LastCycle, mem_op
<1>3. ~mem_rdy'
  BY <1>1, Flags
<1>4. /\ mem_write' <=> rx_data[0] = I_MEM_WR
      /\ mem_read' <=> rx_data[0] = I_MEM_RD
  BY <1>1, <1>2, Flags DEF Executes
<1>5. cpu_cycles' = IF rx_data[0] = I_CPU_RUN_CYC THEN rx_data[1] ELSE 0
  BY <1>1 DEF UnitEdge, CpuControl, Executes
<1>6. rx_data[1] \in U8
  BY DEF IInv, Ranges, RxRanges
<1> USE DEF I_ADR_PTR_SET, I_ADR_PTR_GET, I_MEM_WR, I_MEM_RD, I_CPU_RUN_CYC, I_CPU_RESET, I_CPU_FREERUN
<1>11. rx_data[0] \in {I_MEM_WR, I_MEM_RD} => Released'
  <2> SUFFICES ASSUME rx_data[0] \in {I_MEM_WR, I_MEM_RD} PROVE Released'
    OBVIOUS
  <2>1. ~Executes(I_CPU_RESET) /\ ~Executes(I_CPU_RUN_CYC) /\ ~Executes(I_CPU_FREERUN)
    BY DEF Executes
  <2> QED BY <1>1, <1>2, <2>1, ResetPin, RunPin DEF Released
<1>7. CASE rx_data[0] = I_MEM_WR
  <2>1. ~Respond /\ ~tx_ack /\ ~tx_nak
    BY <1>2, <1>7 DEF Respond, tx_ack, tx_nak, Executes, Instructions
  <2>2. data_bus_out' = Operand /\ Operand' = Operand
    BY <1>1, <1>7 DEF UnitEdge, MemoryAccess, Executes, Operand
  <2>3. Writing'
    BY <1>1, <1>3, <1>4, <1>7, <2>2 DEF Writing
  <2> QED BY <1>1, <1>5, <1>7, <1>11, <2>1, <2>3 DEF Accessing, Unanswered
<1>8. CASE rx_data[0] = I_MEM_RD
  <2>1. ~Respond /\ ~tx_ack /\ ~tx_nak
    BY <1>2, <1>8 DEF Respond, tx_ack, tx_nak, Executes, Instructions
  <2>2. Reading'
    BY <1>1, <1>3, <1>4, <1>8 DEF Reading
  <2> QED BY <1>1, <1>5, <1>8, <1>11, <2>1, <2>2 DEF Accessing, Unanswered
<1>9. CASE rx_data[0] = I_CPU_RUN_CYC
  <2>1. ~Respond /\ ~tx_ack /\ ~tx_nak
    BY <1>2, <1>9 DEF Respond, tx_ack, tx_nak, Executes, Instructions
  <2>2. ~mem_op' /\ cpu_cycles' = rx_data[1]
    BY <1>4, <1>5, <1>9 DEF mem_op
  <2>3. CASE rx_data[1] = 0
    BY <1>1, <1>9, <2>1, <2>2, <2>3 DEF Mute, NoExec, Unanswered
  <2>4. CASE rx_data[1] > 0
    BY <1>1, <1>9, <2>1, <2>2, <2>4 DEF Running, Unanswered
  <2> QED BY <1>6, <2>3, <2>4 DEF U8
<1>10. CASE rx_data[0] \notin {I_MEM_WR, I_MEM_RD, I_CPU_RUN_CYC}
  <2>1. Respond
    BY <1>10 DEF Respond, tx_ack, tx_nak, Executes, Instructions
  <2>2. NoExec'
    BY <1>1, <1>4, <1>5, <1>10 DEF NoExec, mem_op
  <2> QED BY <1>1, <2>1, <2>2 DEF Responding
<1> QED BY <1>7, <1>8, <1>9, <1>10

\* The memory answers one edge after it is asked, and the response goes out.
LEMMA AccessingStep == IInv /\ Accessing /\ Edge => Accessing' \/ Responding'
<1> SUFFICES ASSUME IInv, Accessing, Edge PROVE Accessing' \/ Responding'
  OBVIOUS
<1> USE DEF Accessing
<1>1. /\ UnitEdge /\ asked' # <<>> /\ to_send' = <<>> /\ heard' = <<>>
      /\ rx_data' = rx_data /\ Received' /\ ~instr_rx_finish' /\ rx_byte' = 0
      /\ IF Respond THEN Requested' ELSE TxIdle'
      /\ ~tx_ack /\ ~tx_nak => busy'
  BY UnansweredStep
<1>2. mem_op /\ ~LastCycle /\ \A i : ~Executes(i)
  BY DEF mem_op, LastCycle, Executes, Writing, Reading
<1>3. cpu_cycles' = 0
  BY <1>1, <1>2 DEF UnitEdge, CpuControl
<1>4. /\ mem_write' <=> mem_write /\ ~mem_rdy
      /\ mem_read' <=> mem_read /\ ~mem_rdy
  BY <1>1, <1>2, Flags DEF MemDone
<1>5. CASE mem_rdy
  <2>1. Respond
    BY <1>2, <1>5 DEF Respond, tx_ack, MemDone, mem_op
  <2>2. NoExec'
    BY <1>1, <1>3, <1>4, <1>5 DEF NoExec, mem_op
  <2> QED BY <1>1, <2>1, <2>2 DEF Responding
<1>6. CASE ~mem_rdy
  <2>1. ~Respond /\ ~tx_ack /\ ~tx_nak
    BY <1>2, <1>6 DEF Respond, tx_ack, tx_nak, MemDone
  <2>2. adr_ptr' = adr_ptr /\ data_bus_out' = data_bus_out
    BY <1>1, <1>2, <1>6 DEF UnitEdge, MemoryAccess, MemDone
  <2>3. Cell(adr_ptr) \in 0..(Cells - 1) /\ Cell(adr_ptr)' = Cell(adr_ptr)
    BY <2>2, CellInMemory DEF IInv, Ranges, MemRanges, Cell
  <2>6. Released'
    BY <1>1, <1>2, ResetPin, RunPin DEF Released
  <2>4. CASE Writing
    <3>1. mem'[Cell(adr_ptr)] = data_bus_out
      BY <1>1, <2>3, <2>4 DEF UnitEdge, MemoryAnswers, Writing, IInv, Ranges, MemRanges
    <3>2. Operand' = Operand
      BY <1>1 DEF Operand
    <3>3. Writing'
      BY <1>1, <1>4, <1>6, <2>2, <2>3, <2>4, <3>1, <3>2 DEF Writing
    <3> QED BY <1>1, <1>3, <2>1, <2>6, <3>3 DEF Unanswered
  <2>5. CASE Reading
    <3>1. data_bus_in' = mem[Cell(adr_ptr)] /\ mem' = mem
      BY <1>1, <2>5 DEF UnitEdge, MemoryAnswers, Reading
    <3>2. Reading'
      BY <1>1, <1>4, <1>6, <2>3, <2>5, <3>1 DEF Reading
    <3> QED BY <1>1, <1>3, <2>1, <2>6, <3>2 DEF Unanswered
  <2> QED BY <2>4, <2>5
<1> QED BY <1>5, <1>6

LEMMA RunningStep == IInv /\ Running /\ Edge => Running' \/ Responding'
<1> SUFFICES ASSUME IInv, Running, Edge PROVE Running' \/ Responding'
  OBVIOUS
<1> USE DEF Running
<1>1. /\ UnitEdge /\ asked' # <<>> /\ to_send' = <<>> /\ heard' = <<>>
      /\ rx_data' = rx_data /\ Received' /\ ~instr_rx_finish' /\ rx_byte' = 0
      /\ IF Respond THEN Requested' ELSE TxIdle'
      /\ ~tx_ack /\ ~tx_nak => busy'
  BY UnansweredStep
<1>2. ~MemDone /\ \A i : ~Executes(i)
  BY DEF MemDone, Executes
<1>3. ~mem_op'
  BY <1>1, <1>2, Flags DEF mem_op
<1>4. cpu_cycles \in U8 /\ cpu_cycles' = cpu_cycles - 1
  BY <1>1 DEF UnitEdge, CpuControl, IInv, Ranges
<1>5. CASE LastCycle
  <2>1. Respond /\ NoExec'
    BY <1>1, <1>3, <1>4, <1>5 DEF Respond, tx_ack, LastCycle, NoExec
  <2> QED BY <1>1, <2>1 DEF Responding
<1>6. CASE ~LastCycle
  <2>1. ~Respond /\ ~tx_ack /\ ~tx_nak
    BY <1>2, <1>6 DEF Respond, tx_ack, tx_nak, Executes
  <2>2. cpu_cycles' > 0
    BY <1>4, <1>6 DEF LastCycle, U8
  <2> QED BY <1>1, <1>3, <2>1, <2>2 DEF Unanswered
<1> QED BY <1>5, <1>6

LEMMA MuteStep == IInv /\ Mute /\ Edge => Mute'
<1> SUFFICES ASSUME IInv, Mute, Edge PROVE Mute'
  OBVIOUS
<1>1. UnitEdge /\ NoExec
  BY DEF Edge, Mute
<1>2. ~Respond /\ ~mem_op' /\ cpu_cycles' = 0
  BY <1>1, NoExecStep
<1> QED BY <1>2, UnansweredStep DEF Mute, NoExec, Unanswered

\* Received is kept, and a response is as long as the host expects.
LEMMA ReceivedFacts ==
  ASSUME IInv, Received
  PROVE  asked \in Commands /\ rx_data[0] = asked[1] /\ TxLen = TX_DATA_LEN(asked[1]) /\ TxLen \in 1..4
<1>1. asked \in Commands
  BY DEF IInv, Ranges, HostRanges, Received
<1>2. rx_data[0] = asked[1]
  BY <1>1, CommandLengths DEF Received, Stored
<1> QED BY <1>1, <1>2, ResponseLengths DEF TxLen

LEMMA RespondingFacts ==
  ASSUME IInv, Responding, Edge
  PROVE  /\ UnitEdge /\ ~Respond /\ rx_byte' = 0 /\ NoExec' /\ Received' /\ TxLen' = TxLen
         /\ rx_data' = rx_data /\ tx_data' = tx_data /\ asked' = asked /\ to_send' = <<>>
         /\ heard' = IF tx_left = BitClk + 1 THEN Append(heard, tx_wire) ELSE heard
         /\ TxLen \in 1..4 /\ TxLen = TX_DATA_LEN(asked[1])
         /\ adr_ptr' = adr_ptr /\ mem' = mem /\ cpu_cycles' = cpu_cycles /\ cpu_run' = cpu_run
         /\ Released' /\ (cpu_n_reset' <=> cpu_run \/ cpu_n_reset)
<1> USE DEF Responding, Received, RxIdle
<1>1. UnitEdge /\ RxStep /\ Hear /\ UNCHANGED <<asked, to_send>>
  BY DEF Edge
<1>2. /\ ~Respond /\ NoExec' /\ tx_data' = tx_data
      /\ adr_ptr' = adr_ptr /\ mem' = mem /\ cpu_cycles' = cpu_cycles /\ cpu_run' = cpu_run
  BY <1>1, NoExecStep DEF NoExec, Complete
<1>8. Released' /\ (cpu_n_reset' <=> cpu_run \/ cpu_n_reset)
  BY <1>1, <1>2, ResetPin DEF Released, NoExec, Executes
<1>3. rx_byte' = 0 /\ rx_data' = rx_data
  BY <1>1 DEF UnitEdge, Reception, NoExec
<1>4. RxIdle'
  BY <1>1, LineStep, Flags
<1>5. Stored(Len(asked))'
  BY <1>1, <1>3 DEF Stored
<1>6. TxLen' = TxLen
  BY <1>3 DEF TxLen
<1>7. heard' = IF tx_left = BitClk + 1 THEN Append(heard, tx_wire) ELSE heard
  BY <1>1 DEF Hear, ByteArrives
<1> QED BY <1>1, <1>2, <1>3, <1>4, <1>5, <1>6, <1>7, <1>8, ReceivedFacts

\* The next byte of the response is handed to the UART.
LEMMA HandOver ==
  ASSUME IInv, UnitEdge, ~Respond, ~uart_tx_write, ~instr_tx_finish, tx_left = 0,
         tx_req \/ uart_tx_finished,
         tx_byte < TxLen, heard' = heard, TxLen' = TxLen, tx_byte = Len(heard)
  PROVE  Written' /\ uart_tx_data' = tx_data[tx_byte]
<1>1. tx_byte \in 0..3
  BY ResponseLengths DEF IInv, Ranges, TxRanges
<1>2. tx_next_byte
  BY DEF tx_next_byte
<1>3. ~tx_req' /\ uart_tx_write' /\ ~uart_tx_finished' /\ ~instr_tx_finish' /\ tx_left' = 0
  BY <1>2, Flags, TxLeftStep DEF LastByteSent
<1>4. tx_byte' = tx_byte + 1
  BY <1>1, <1>2 DEF UnitEdge, Transmission
<1>5. uart_tx_data' = tx_data[tx_byte]
  BY <1>1, <1>2 DEF UnitEdge, Transmission
<1>6. uart_tx_data' \in U8
  BY <1>1, <1>5 DEF IInv, Ranges, TxRanges
<1> QED BY <1>1, <1>3, <1>4, <1>5, <1>6, ResponseLengths DEF Written

LEMMA WrittenStep ==
  ASSUME IInv, Responding, Written, Edge
  PROVE  Outgoing' /\ uart_tx_data' = uart_tx_data
<1> USE Cycles DEF Written
<1>1. UnitEdge /\ ~Respond /\ heard' = heard /\ TxLen' = TxLen /\ Released'
  BY RespondingFacts
<1>2. ~tx_req' /\ ~uart_tx_write' /\ ~uart_tx_finished' /\ tx_left' = TxCycles
  BY <1>1, Flags, TxLeftStep
<1>3. tx_byte' = tx_byte /\ uart_tx_data' = uart_tx_data
  BY <1>1 DEF UnitEdge, Transmission, tx_next_byte
<1>4. instr_tx_finish' <=> tx_byte = TxLen
  BY <1>1, Flags DEF LastByteSent
<1> QED BY <1>1, <1>2, <1>3, <1>4 DEF Outgoing

\* The wire carries the byte written from its first bit on.
LEMMA WireStep ==
  ASSUME IInv, Outgoing, UnitEdge, tx_left <= 9 * BitClk + 1
  PROVE  tx_wire' = uart_tx_data
<1> USE Cycles DEF Outgoing
<1>1. ASSUME NEW k \in 2..8 PROVE k * BitClk < 9 * BitClk
  <2>1. k = 2 \/ k = 3 \/ k = 4 \/ k = 5 \/ k = 6 \/ k = 7 \/ k = 8
    OBVIOUS
  <2> QED BY <2>1
<1>2. tx_left \in Nat
  BY DEF IInv, Ranges, TxRanges
<1> DEFINE bit == \E k \in 2..8 : tx_left = k * BitClk + 1
<1>3. tx_left = 9 * BitClk + 1 => ~bit
  BY <1>1
<1>4. bit => tx_left <= 9 * BitClk
  BY <1>1
<1>5. tx_wire' = CASE tx_left = 0 /\ uart_tx_write -> Garbled
                   [] tx_left = 9 * BitClk + 1 -> uart_tx_data
                   [] bit /\ uart_tx_data # tx_wire -> Garbled
                   [] OTHER -> tx_wire
  BY Zenon DEF UnitEdge, TxStep
<1> HIDE DEF bit
<1>6. CASE tx_left = 9 * BitClk + 1
  BY <1>2, <1>3, <1>5, <1>6
<1>7. CASE tx_left <= 9 * BitClk
  BY <1>2, <1>5, <1>7
<1> QED BY <1>2, <1>6, <1>7

LEMMA OutgoingStep ==
  ASSUME IInv, Responding, Outgoing, Edge, heard \in Seq(U8)
  PROVE  /\ heard' \in Seq(U8)
         /\ IF tx_left = BitClk + 1 THEN Between' \/ (TxEnding' /\ Answered')
                                    ELSE Outgoing'
         /\ uart_tx_data' = uart_tx_data /\ tx_byte' = tx_byte
<1> USE Cycles DEF Outgoing
<1>1. /\ UnitEdge /\ ~Respond /\ TxLen' = TxLen /\ asked' = asked /\ Released'
      /\ heard' = IF tx_left = BitClk + 1 THEN Append(heard, tx_wire) ELSE heard
      /\ TxLen \in 1..4 /\ TxLen = TX_DATA_LEN(asked[1])
  BY RespondingFacts
<1>2. tx_left \in Nat /\ tx_left' = tx_left - 1
  BY <1>1, TxLeftStep DEF IInv, Ranges, TxRanges
<1>3. /\ ~tx_req' /\ ~uart_tx_write' /\ (uart_tx_finished' <=> tx_left = 1)
      /\ instr_tx_finish' <=> instr_tx_finish
  BY <1>1, Flags DEF tx_next_byte, LastByteSent
<1>4. tx_byte' = tx_byte /\ uart_tx_data' = uart_tx_data
  BY <1>1 DEF UnitEdge, Transmission, tx_next_byte
<1>5. CASE tx_left = BitClk + 1
  <2>1. heard' = Append(heard, uart_tx_data)
    BY <1>1, <1>5
  <2>2. Len(heard') = Len(heard) + 1 /\ heard' \in Seq(U8)
    BY <2>1
  <2>3. tx_left' \in 1..BitClk /\ ~uart_tx_finished'
    BY <1>2, <1>3, <1>5
  <2>4. CASE tx_byte = TxLen
    BY <1>1, <1>3, <1>4, <2>2, <2>3, <2>4, <1>5 DEF TxEnding, Answered
  <2>5. CASE tx_byte # TxLen
    <3>1. tx_byte' = Len(heard') /\ tx_byte' \in 1..(TxLen' - 1)
      BY <1>1, <1>4, <2>2, <2>5 DEF IInv, Ranges, TxRanges
    <3> QED BY <1>3, <2>3, <2>2, <2>5, <3>1, <1>5, <1>4 DEF Between
  <2> QED BY <2>4, <2>5
<1>6. CASE tx_left # BitClk + 1
  <2>1. tx_left' > BitClk /\ ~uart_tx_finished'
    BY <1>2, <1>3, <1>6
  <2>2. tx_left' <= 9 * BitClk => tx_wire' = uart_tx_data
    BY <1>1, <1>2, WireStep
  <2>3. heard' = heard
    BY <1>1, <1>6
  <2>4. Outgoing'
    BY <1>1, <1>3, <1>4, <2>1, <2>2, <2>3
  <2> QED BY <1>4, <1>6, <2>3, <2>4
<1> QED BY <1>5, <1>6

LEMMA BetweenStep ==
  ASSUME IInv, Responding, Between, Edge
  PROVE  IF tx_left = 0 THEN Written' /\ uart_tx_data' = tx_data[tx_byte]
         ELSE Between' /\ tx_byte' = tx_byte
<1> USE Cycles DEF Between
<1>1. UnitEdge /\ ~Respond /\ heard' = heard /\ TxLen' = TxLen
  BY RespondingFacts
<1>2. CASE tx_left = 0
  <2>1. tx_byte < TxLen /\ uart_tx_finished
    BY <1>2, ResponseLengths
  <2> QED BY <1>1, <1>2, <2>1, HandOver
<1>3. CASE tx_left \in 1..BitClk
  <2>1. tx_left' = tx_left - 1
    BY <1>1, <1>3, TxLeftStep
  <2>2. /\ ~tx_req' /\ ~uart_tx_write' /\ (uart_tx_finished' <=> tx_left = 1) /\ ~instr_tx_finish'
    BY <1>1, <1>3, Flags DEF tx_next_byte, LastByteSent
  <2>3. tx_byte' = tx_byte
    BY <1>1, <1>3 DEF UnitEdge, Transmission, tx_next_byte
  <2> QED BY <1>1, <1>3, <2>1, <2>2, <2>3
<1> QED BY <1>2, <1>3

LEMMA RequestedStep ==
  ASSUME IInv, Responding, Requested, Edge
  PROVE  Written' /\ uart_tx_data' = tx_data[0] /\ heard' = heard
<1>1. UnitEdge /\ ~Respond /\ heard' = heard /\ TxLen' = TxLen /\ TxLen \in 1..4
  BY RespondingFacts, Cycles DEF Requested
<1> QED BY <1>1, HandOver DEF Requested

LEMMA RespondingStep ==
  ASSUME IInv, PhaseInv, Responding, Edge
  PROVE  heard' \in Seq(U8) /\ (Responding' \/ Idle')
<1>1. /\ rx_byte' = 0 /\ NoExec' /\ Received' /\ to_send' = <<>> /\ heard \in Seq(U8)
  BY RespondingFacts DEF PhaseInv
<1>2. CASE Requested
  BY <1>1, <1>2, RequestedStep DEF Responding
<1>3. CASE Written
  <2>1. heard' = heard
    BY <1>3, RespondingFacts, Cycles DEF Written
  <2> QED BY <1>1, <1>3, <2>1, WrittenStep DEF Responding
<1>4. CASE Outgoing
  <2>1. heard' \in Seq(U8) /\ (Between' \/ (TxEnding' /\ Answered') \/ Outgoing')
    BY <1>1, <1>4, OutgoingStep
  <2> QED BY <1>1, <2>1 DEF Responding, Idle, Received
<1>5. CASE Between
  <2>1. heard' = heard
    BY <1>5, RespondingFacts, Cycles DEF Between
  <2> QED BY <1>1, <1>5, <2>1, BetweenStep DEF Responding
<1> QED BY <1>2, <1>3, <1>4, <1>5 DEF Responding

-----------------------------------------------------------------------------
(* The phases under the other steps.                                       *)

LEMMA PhaseEdge == IInv /\ PhaseInv /\ Edge => PhaseInv'
<1> SUFFICES ASSUME IInv, PhaseInv, Edge PROVE PhaseInv'
  OBVIOUS
<1>1. CASE Responding
  BY <1>1, RespondingStep DEF PhaseInv, Phases
<1>2. CASE ~Responding
  <2>1. heard' = heard
    BY <1>2, HeardKept
    DEF Edge, PhaseInv, Phases, Idle, Commanded, Incoming, Ready, Decoding, Gap, Finishing,
        Accessing, Running, Mute, Unanswered, TxIdle, TxEnding
  <2>2. Commanded => Commanded' \/ Finishing'
    BY IncomingStep, ReadyStep, DecodingStep, GapStep DEF Commanded
  <2>3. Phases'
    BY <1>2, <2>2, IdleStep, FinishingStep, AccessingStep, RunningStep, MuteStep DEF PhaseInv, Phases
  <2> QED BY <2>1, <2>3 DEF PhaseInv
<1> QED BY <1>1, <1>2

\* A byte is begun only while cts is low.
LEMMA StartStep ==
  ASSUME IInv, NEW b \in U8, StartByte(b)
  PROVE  /\ rx_left = 0 /\ ~busy /\ rx_left' = RxCycles /\ rx_wire' = b /\ ~uart_rx_ready'
         /\ RxCycles > BitClk
BY Cycles DEF StartByte, MayStartByte, RxStart

LEMMA ContinueStep ==
  ASSUME IInv, PhaseInv, ContinueCommand
  PROVE  Command /\ Gap /\ Command' /\ Incoming' /\ heard' = heard
<1> USE Cycles
<1>1. UnitEdge /\ Hear /\ asked' = asked /\ to_send' = Tail(to_send) /\ to_send # <<>>
  BY DEF ContinueCommand
<1>2. to_send \in Seq(U8) /\ Head(to_send) = to_send[1] /\ to_send[1] \in U8 /\ Len(to_send) \in Nat \ {0}
  BY <1>1 DEF IInv, Ranges, HostRanges
<1>3. rx_left = 0 /\ ~busy /\ rx_left' = RxCycles /\ rx_wire' = to_send[1] /\ ~uart_rx_ready'
  BY <1>2, StartStep DEF ContinueCommand
<1>4. Command /\ Gap
  BY <1>1, <1>3 DEF PhaseInv, Phases, Idle, Commanded, Incoming, Ready, Decoding, Finishing,
       Accessing, Running, Mute, Responding, Received, Unanswered
<1>5. NoExec /\ ~Respond /\ NoExec'
  BY <1>1, <1>4, NoExecStep DEF Command, NoExec, Complete, Gap, RxIdle
<1>6. rx_byte' = rx_byte /\ rx_data' = rx_data
  BY <1>1, <1>4, <1>5 DEF UnitEdge, Reception, NoExec, Gap, RxIdle
<1>7. ~instr_rx_decode'
  BY <1>1, <1>4, Flags DEF Gap, RxIdle
<1>8. TxIdle' /\ heard' = heard
  BY <1>1, <1>4, <1>5, TxIdleStep, HeardKept DEF Gap, TxIdle
<1>9. Sent' = Sent + 1 /\ Len(to_send') = Len(to_send) - 1 /\ Sent \in 1..5
  <2>1. Len(to_send') = Len(to_send) - 1
    BY <1>1, <1>2
  <2>2. Len(asked) \in 1..5 /\ Sent \in 1..5
    BY <1>4, CommandFacts
  <2> QED BY <1>1, <1>2, <2>1, <2>2 DEF Sent
<1>10. to_send[1] = asked[Sent + 1]
  BY <1>2, <1>4 DEF Command
<1>11. ASSUME NEW i \in 1..Len(to_send') PROVE to_send'[i] = asked[Sent + 1 + i]
  <2>1. to_send'[i] = to_send[i + 1] /\ i + 1 \in 1..Len(to_send)
    BY <1>1, <1>2, <1>9
  <2> QED BY <1>4, <1>9, <2>1 DEF Command
<1>12. Command'
  <2>1. Len(to_send') < Len(asked)
    BY <1>2, <1>4, <1>9, CommandFacts
  <2>2. Stored(rx_byte)'
    BY <1>1, <1>4, <1>6 DEF Command, Stored
  <2> QED BY <1>1, <1>4, <1>5, <1>8, <1>9, <1>11, <2>1, <2>2 DEF Command
<1>13. Incoming'
  <2>1. rx_byte' = Sent' - 1 /\ rx_wire' = asked'[Sent']
    BY <1>1, <1>3, <1>4, <1>6, <1>9, <1>10 DEF Gap
  <2> QED BY <1>3, <1>7, <1>8, <2>1 DEF Incoming
<1> QED BY <1>4, <1>8, <1>12, <1>13

LEMMA BeginStep ==
  ASSUME IInv, PhaseInv, ~Pipelined, NEW c \in Commands, BeginCommand(c)
  PROVE  Idle /\ Command' /\ Incoming' /\ rx_data' = rx_data
<1> USE Cycles
<1>1. UnitEdge /\ asked' = c /\ to_send' = Tail(c) /\ heard' = <<>> /\ to_send = <<>> /\ Answered
  BY DEF BeginCommand
<1>2. c \in Seq(U8) /\ Head(c) = c[1] /\ c[1] \in U8 /\ Len(c) \in 1..5
  BY CommandLengths
<1>3. rx_left = 0 /\ ~busy /\ rx_left' = RxCycles /\ rx_wire' = c[1] /\ ~uart_rx_ready'
  BY <1>2, StartStep DEF BeginCommand
<1>4. Idle
  <2>1. ~Commanded
    <3>1. Commanded => heard = <<>> /\ asked # <<>>
      BY DEF Commanded, Command
    <3> QED BY <1>1, <3>1 DEF Answered, TX_DATA_LEN
  <2>2. ~Responding
    <3>1. Responding => Len(heard) < TxLen /\ TxLen = TX_DATA_LEN(asked[1]) /\ asked # <<>>
      BY ReceivedFacts DEF Responding, Requested, Written, Outgoing, Between, Received,
           PhaseInv
    <3> QED BY <1>1, <3>1 DEF Answered
  <2>3. ~Mute
    <3>1. Mute => heard = <<>> /\ asked # <<>>
      BY DEF Mute, Unanswered, Received
    <3> QED BY <1>1, <3>1 DEF Answered, TX_DATA_LEN
  <2> QED BY <1>3, <2>1, <2>2, <2>3 DEF PhaseInv, Phases, Finishing, Accessing, Running
<1>5. NoExec /\ ~Respond /\ NoExec'
  BY <1>1, <1>4, NoExecStep DEF Idle, NoExec, Complete, RxIdle
<1>6. rx_byte' = 0 /\ rx_data' = rx_data
  BY <1>1, <1>4, <1>5 DEF UnitEdge, Reception, NoExec, Idle, RxIdle
<1>7. ~instr_rx_decode'
  BY <1>1, <1>4, Flags DEF Idle, RxIdle
<1>8. TxIdle' \/ (TxEnding' /\ tx_left' <= BitClk)
  <2>1. TxIdle => TxIdle'
    BY <1>1, <1>5, TxIdleStep
  <2>2. TxEnding => TxIdle' \/ TxEnding'
    BY <1>1, <1>5, <1>6, TxEndingStep
  <2> QED BY <1>4, <2>1, <2>2 DEF Idle, TxEnding
<1>9. Len(to_send') = Len(c) - 1 /\ Sent' = 1
  BY <1>1, <1>2 DEF Sent
<1>10. Command'
  <2>1. ASSUME NEW i \in 1..Len(to_send') PROVE to_send'[i] = c[1 + i]
    BY <1>1, <1>2, <1>9
  <2>2. Stored(rx_byte)'
    BY <1>6 DEF Stored
  <2> QED BY <1>1, <1>2, <1>5, <1>9, <2>1, <2>2 DEF Command
<1>11. Incoming'
  <2>1. rx_left' >= tx_left' + RxCycles - BitClk \/ TxIdle'
    BY <1>3, <1>8 DEF TxEnding
  <2>2. rx_left' > BitClk /\ rx_left' > 0
    BY <1>3
  <2>3. rx_byte' = Sent' - 1 /\ rx_wire' = asked'[Sent']
    BY <1>1, <1>3, <1>6, <1>9
  <2> QED BY <1>3, <1>7, <1>8, <2>1, <2>2, <2>3 DEF Incoming
<1> QED BY <1>4, <1>6, <1>10, <1>11

LEMMA ResetStep == IInv /\ Reset => PhaseInv'
<1> SUFFICES ASSUME Reset PROVE PhaseInv'
  OBVIOUS
<1> USE Zenon DEF Reset, ResetRegisters, FrameReset
<1>1. RxIdle' /\ NoExec' /\ TxIdle' /\ rx_byte' = 0
  BY DEF RxIdle, NoExec, mem_op, TxIdle
<1>2. asked' = <<>> /\ to_send' = <<>> /\ heard' = <<>>
  OBVIOUS
<1>3. Idle'
  BY <1>1, <1>2 DEF Idle, Answered
<1> QED BY <1>2, <1>3, SMT DEF PhaseInv, Phases

LEMMA PhaseInit == Init => PhaseInv
<1> SUFFICES ASSUME Init PROVE PhaseInv
  OBVIOUS
<1>1. Idle
  BY Zenon DEF Init, FrameInit, Idle, RxIdle, NoExec, mem_op, TxIdle, Answered
<1> QED BY <1>1 DEF PhaseInv, Phases, Init

LEMMA PhaseStutter == PhaseInv /\ UNCHANGED vars => PhaseInv'
<1> SUFFICES ASSUME PhaseInv, UNCHANGED vars PROVE PhaseInv'
  OBVIOUS
<1> USE DEF vars, frameVars, rxRegs, txRegs, memRegs, cpuRegs, memory, host
<1>1. UNCHANGED <<TxIdle, TxEnding, RxIdle, NoExec, Sent, Received, TxLen, Answered, Released>>
  BY DEF Released, TxIdle, TxEnding, RxIdle, NoExec, mem_op, Sent, Received, Stored, TxLen, Answered
<1> QED BY <1>1 DEF PhaseInv, Phases, Idle, Commanded, Command, Incoming, Ready, Decoding, Gap,
     Stored, Finishing, Unanswered, Accessing, Writing, Reading, Operand, Running, Mute,
     Responding, Requested, Written, Outgoing, Between, mem_op

-----------------------------------------------------------------------------
(* What the phases say of a host that waits for each response.             *)

\* The phases follow each other, with a reset of the board at any edge.
THEOREM PhaseInvariance ==
  ASSUME ~Pipelined
  PROVE  Spec => [](IInv /\ PhaseInv)
<1>1. IInv /\ PhaseInv /\ [Next]_vars => IInv' /\ PhaseInv'
  <2> SUFFICES ASSUME IInv, PhaseInv, [Next]_vars PROVE IInv' /\ PhaseInv'
    OBVIOUS
  <2>1. IInv'
    BY EdgeKeeps, ContinueKeeps, BeginKeeps, ResetKeeps, StutterKeeps DEF Next
  <2>2. PhaseInv'
    <3>1. CASE Edge
      BY <3>1, PhaseEdge
    <3>2. CASE ContinueCommand
      BY <3>2, ContinueStep DEF PhaseInv, Phases, Commanded
    <3>3. ASSUME NEW c \in Commands, BeginCommand(c) PROVE PhaseInv'
      <4>1. heard' = <<>>
        BY <3>3 DEF BeginCommand
      <4> QED BY <3>3, <4>1, BeginStep DEF PhaseInv, Phases, Commanded
    <3>4. CASE Reset
      BY <3>4, ResetStep
    <3>5. CASE UNCHANGED vars
      BY <3>5, PhaseStutter
    <3> QED BY <3>1, <3>2, <3>3, <3>4, <3>5 DEF Next
  <2> QED BY <2>1, <2>2
<1> QED BY InvInit, PhaseInit, <1>1, PTL DEF Spec

\* cts is up while a command is decoded, executed and unanswered
\* (dbgu32.v:178-206,363).
THEOREM CtsCovers ==
  ASSUME ~Pipelined
  PROVE  Spec => []CtsCoversCommand
<1>1. IInv /\ PhaseInv => CtsCoversCommand
  BY DEF PhaseInv, Phases, CtsCoversCommand, Complete, Executing, Idle, Commanded, Command,
       Incoming, Ready, Decoding, Gap, RxIdle, NoExec, Finishing, Accessing, Running, Mute,
       Unanswered, Received, Responding
<1> QED BY PhaseInvariance, <1>1, PTL

\* tx_data and tx_req hold no earlier response when one is given
\* (dbgu32.v:281-319).
THEOREM ResponsesKept ==
  ASSUME ~Pipelined
  PROVE  Spec => []NoResponseLost
<1>1. ASSUME IInv, PhaseInv PROVE NoResponseLost
  <2>1. NoExec => ~Respond
    BY DEF NoExec, Respond, tx_ack, tx_nak, LastCycle, MemDone, Executes
  <2>2. ~NoExec => ~tx_req
    BY <1>1 DEF PhaseInv, Phases, Idle, Commanded, Command, Finishing, Accessing, Running, Mute,
         Unanswered, TxIdle, Responding
  <2> QED BY <2>1, <2>2 DEF NoResponseLost
<1> QED BY PhaseInvariance, <1>1, PTL

\* The UART is idle whenever a byte is handed to it, and every byte the host
\* hears is one of a response (dbgu32.v:144-150,315-340).
THEOREM BytesKept ==
  ASSUME ~Pipelined
  PROVE  Spec => []NothingDropped
<1>1. ASSUME IInv, PhaseInv PROVE NothingDropped
  <2>1. uart_tx_write => tx_left = 0
    BY <1>1 DEF PhaseInv, Phases, Idle, Commanded, Incoming, Ready, Decoding, Gap, Finishing,
         Accessing, Running, Mute, Unanswered, TxIdle, TxEnding, Responding, Requested, Written,
         Outgoing, Between
  <2>2. Garbled \notin U8
    BY FrameAssumption, DataAssumption
  <2>3. \A i \in DOMAIN heard : heard[i] \in U8
    BY <1>1 DEF PhaseInv
  <2> QED BY <2>1, <2>2, <2>3, Zenon DEF NothingDropped
<1> QED BY PhaseInvariance, <1>1, PTL

\* rx_data is not overwritten under the command or the response it decides
\* (dbgu32.v:185-206,353-356).
THEOREM RxDataKept ==
  ASSUME ~Pipelined
  PROVE  Spec => []NoOverrun
<1>1. ASSUME IInv, PhaseInv PROVE NoOverrun
  <2> SUFFICES ASSUME uart_rx_ready
               PROVE  ~(instr_rx_decode \/ Executing) /\ Reply = <<>>
    BY DEF NoOverrun
  <2>1. Command /\ Ready
    BY <1>1 DEF PhaseInv, Phases, Idle, Commanded, Incoming, Ready, Decoding, Gap, Finishing,
         Accessing, Running, Mute, Unanswered, Received, RxIdle, Responding
  <2>2. Reply = <<>>
    BY <2>1, Cycles DEF Ready, TxIdle, Reply
  <2> QED BY <2>1, <2>2 DEF Command, Ready, NoExec, Executing
<1> QED BY PhaseInvariance, <1>1, PTL

-----------------------------------------------------------------------------
(* The exchange as the host sees it, in each phase.                        *)

\* The bytes of a response of n bytes from the one at index k on.
From(n, d, k) == [i \in 1..(n - k) |-> d[k + i - 1]]

LEMMA FromIsSeq ==
  ASSUME NEW n \in 1..4, NEW k \in 0..n, NEW d \in [0..3 -> U8]
  PROVE  From(n, d, k) \in Seq(U8) /\ Len(From(n, d, k)) = n - k
<1>1. From(n, d, k) \in [1..(n - k) -> U8]
  BY DEF From
<1>2. n - k \in Nat
  OBVIOUS
<1> QED BY <1>1, <1>2

LEMMA FromEnd ==
  ASSUME NEW n \in 1..4, NEW d
  PROVE  From(n, d, n) = <<>>
BY DEF From

LEMMA FromFirst ==
  ASSUME NEW n \in 1..4, NEW k \in 0..(n - 1), NEW d \in [0..3 -> U8]
  PROVE  From(n, d, k) = <<d[k]>> \o From(n, d, k + 1)
<1>1. d[k] \in U8 /\ k \in 0..n /\ k + 1 \in 0..n
  OBVIOUS
<1>2. From(n, d, k) \in Seq(U8) /\ Len(From(n, d, k)) = n - k
  BY <1>1, FromIsSeq
<1>3. From(n, d, k + 1) \in Seq(U8) /\ Len(From(n, d, k + 1)) = n - (k + 1)
  BY <1>1, FromIsSeq
<1>4. \A i \in 1..(n - k) : From(n, d, k)[i] = d[k + i - 1]
  BY DEF From
<1>5. \A i \in 1..(n - k - 1) : From(n, d, k + 1)[i] = d[k + i]
  BY DEF From
<1>6. <<d[k]>> \o From(n, d, k + 1) \in Seq(U8)
  BY <1>1, <1>3
<1>7. Len(<<d[k]>> \o From(n, d, k + 1)) = n - k
  BY <1>1, <1>3
<1>8. ASSUME NEW i \in 1..(n - k)
      PROVE  (<<d[k]>> \o From(n, d, k + 1))[i] = From(n, d, k)[i]
  <2>1. CASE i = 1
    <3>1. (<<d[k]>> \o From(n, d, k + 1))[1] = d[k]
      BY <1>1, <1>3
    <3>2. From(n, d, k)[1] = d[k]
      BY <1>4, <2>1
    <3> QED BY <2>1, <3>1, <3>2
  <2>2. CASE i # 1
    <3>1. i - 1 \in 1..(n - k - 1) /\ k + i - 1 = k + (i - 1)
      BY <2>2
    <3>2. From(n, d, k + 1)[i - 1] = d[k + i - 1]
      BY <1>5, <3>1
    <3>3. (<<d[k]>> \o From(n, d, k + 1))[i] = From(n, d, k + 1)[i - 1]
      BY <1>1, <1>3, <3>1
    <3> QED BY <1>4, <3>2, <3>3
  <2> QED BY <2>1, <2>2
<1> QED BY <1>2, <1>6, <1>7, <1>8, SeqEqual

LEMMA PopFirst ==
  ASSUME NEW x \in U8, NEW s \in Seq(U8)
  PROVE  /\ <<x>> \o s # <<>> /\ Head(<<x>> \o s) = x /\ Tail(<<x>> \o s) = s
OBVIOUS

\* What the host has still to hear.
ReplyShape ==
  /\ TxIdle \/ TxEnding => Reply = <<>>
  /\ Requested => Reply = From(TxLen, tx_data, 0)
  /\ Written \/ Outgoing => Reply = <<uart_tx_data>> \o From(TxLen, tx_data, tx_byte)
  /\ Between => Reply = From(TxLen, tx_data, tx_byte)

\* Whether it waits for a reply, and whether there is one.
PendingShape ==
  /\ Idle => ~Pending /\ Reply = <<>>
  /\ Commanded \/ Unanswered => Pending /\ Reply = <<>>
  /\ Responding => ~Pending /\ Reply # <<>>

LEMMA ReplyWhen == IInv => ReplyShape
<1> SUFFICES ASSUME IInv PROVE ReplyShape
  OBVIOUS
<1> USE Cycles, ResponseLengths
<1>1. Unsent = From(TxLen, tx_data, tx_byte)
  BY DEF Unsent, From
<1>2. TxIdle => Reply = <<>>
  BY DEF TxIdle, Reply
<1>3. TxEnding => Reply = <<>>
  <2> SUFFICES ASSUME TxEnding PROVE Reply = <<>>
    OBVIOUS
  <2>1. Reply = Unsent
    BY DEF TxEnding, Reply
  <2> QED BY <1>1, <2>1, FromEnd DEF TxEnding
<1>4. Requested => Reply = From(TxLen, tx_data, 0)
  BY DEF Requested, Reply, From
<1>5. Written \/ Outgoing => Reply = <<uart_tx_data>> \o Unsent
  BY DEF Written, Outgoing, Reply
<1>6. Between => Reply = Unsent
  BY DEF Between, Reply
<1> QED BY <1>1, <1>2, <1>3, <1>4, <1>5, <1>6 DEF ReplyShape

LEMMA PendingWhen == IInv => PendingShape
<1> SUFFICES ASSUME IInv PROVE PendingShape
  OBVIOUS
<1> USE DEF ReplyShape
<1>1. Idle => ~Pending /\ Reply = <<>>
  BY ReplyWhen DEF Idle, Pending
<1>2. asked # <<>> /\ heard = <<>> => ~Answered
  BY DEF Answered, TX_DATA_LEN
<1>3. Commanded => Pending /\ Reply = <<>>
  <2>1. Commanded => Reply = <<>>
    BY ReplyWhen DEF Commanded, Incoming, Ready, Decoding, Gap
  <2> QED BY <1>2, <2>1 DEF Commanded, Command, Pending
<1>4. Unanswered => Pending /\ Reply = <<>>
  <2>1. Unanswered => Reply = <<>>
    BY ReplyWhen DEF Unanswered
  <2> QED BY <1>2, <2>1 DEF Unanswered, Received, Pending
<1>5. Responding => Reply # <<>>
  <2> SUFFICES ASSUME Responding PROVE Reply # <<>>
    OBVIOUS
  <2> USE ResponseLengths
  <2>1. tx_data \in [0..3 -> U8]
    BY DEF IInv, Ranges, TxRanges
  <2>2. CASE Requested
    <3>1. 0 \in 0..TxLen
      OBVIOUS
    <3>2. Len(From(TxLen, tx_data, 0)) = TxLen - 0
      BY <2>1, <3>1, FromIsSeq
    <3> QED BY <2>2, <3>2, ReplyWhen
  <2>3. CASE Written \/ Outgoing
    <3>1. From(TxLen, tx_data, tx_byte) \in Seq(U8) /\ uart_tx_data \in U8
      <4>1. tx_byte \in 0..TxLen
        BY <2>3 DEF Written, Outgoing, IInv, Ranges, TxRanges
      <4> QED BY <2>1, <2>3, <4>1, FromIsSeq DEF Written, Outgoing
    <3> QED BY <2>3, <3>1, ReplyWhen, PopFirst
  <2>4. CASE Between
    <3>1. tx_byte \in 0..TxLen /\ tx_byte < TxLen
      BY <2>4 DEF Between
    <3>2. Len(From(TxLen, tx_data, tx_byte)) = TxLen - tx_byte
      BY <2>1, <3>1, FromIsSeq
    <3> QED BY <2>4, <3>1, <3>2, ReplyWhen
  <2> QED BY <2>2, <2>3, <2>4 DEF Responding
<1> QED BY <1>1, <1>3, <1>4, <1>5 DEF Pending, PendingShape

\* The same after a step.
LEMMA ShapesAfter == IInv' => ReplyShape' /\ PendingShape'
BY ReplyWhen, PendingWhen, PTL

-----------------------------------------------------------------------------
(* Each step of the unit is one of the protocol, or none.                  *)

LEMMA QuietExec ==
  ASSUME IInv, NoExec, UnitEdge
  PROVE  /\ UNCHANGED <<adr_ptr, mem, cpu_run, cpu_cycles>>
         /\ cpu_n_reset' <=> cpu_run \/ cpu_n_reset
<1>1. adr_ptr' = adr_ptr /\ mem' = mem /\ cpu_run' = cpu_run /\ cpu_cycles' = cpu_cycles
  BY NoExecStep DEF NoExec
<1>2. ~Executes(I_CPU_RESET)
  BY DEF NoExec, Executes
<1> QED BY <1>1, <1>2, ResetPin

\* At most the CPU comes out of its reset.
LEMMA SilentStep ==
  ASSUME IInv, IInv',
         UNCHANGED <<asked, Reply, heard, adr_ptr, mem, cpu_run, cpu_cycles>>,
         Pending' <=> Pending,
         cpu_n_reset' <=> cpu_run \/ cpu_n_reset
  PROVE  [Protocol!Next]_Protocol!vars
<1>1. cpu_n_reset \in BOOLEAN /\ cpu_n_reset' \in BOOLEAN
  BY DEF IInv, Booleans, CpuBooleans
<1>2. Pending \in BOOLEAN /\ Pending' \in BOOLEAN
  BY DEF Pending
<1>3. Pending' = Pending
  BY <1>2
<1>4. CASE cpu_n_reset' = cpu_n_reset
  BY <1>3, <1>4 DEF Protocol!vars
<1>5. CASE cpu_run /\ cpu_n_reset' = TRUE
  BY <1>3, <1>5 DEF Protocol!Next, Protocol!Release, Protocol!host
<1> QED BY <1>1, <1>4, <1>5, Zenon

LEMMA RefineIdle ==
  ASSUME IInv, IInv', Idle, Edge
  PROVE  [Protocol!Next]_Protocol!vars
<1>1. UnitEdge /\ asked' = asked /\ heard' = heard
  BY HeardKept DEF Edge, Idle, TxIdle, TxEnding
<1>2. Pending' <=> Pending
  BY IdleStep, PendingWhen, ShapesAfter DEF PendingShape
<1>3. Reply' = Reply
  BY IdleStep, PendingWhen, ShapesAfter DEF PendingShape
<1> QED BY <1>1, <1>2, <1>3, QuietExec, SilentStep DEF Idle

LEMMA RefineCommanded ==
  ASSUME IInv, IInv', Commanded, Edge
  PROVE  [Protocol!Next]_Protocol!vars
<1>1. UnitEdge /\ asked' = asked /\ NoExec
  BY DEF Edge, Commanded, Command
<1>2. heard' = heard
  BY HeardKept DEF Edge, Commanded, Incoming, Ready, Decoding, Gap, TxIdle, TxEnding
<1>3. Commanded' \/ Unanswered'
  BY IncomingStep, ReadyStep, DecodingStep, GapStep DEF Commanded, Finishing
<1>4. (Pending' <=> Pending) /\ Reply' = Reply
  BY <1>3, PendingWhen, ShapesAfter DEF PendingShape
<1> QED BY <1>1, <1>2, <1>4, QuietExec, SilentStep

LEMMA RefineMute ==
  ASSUME IInv, IInv', Mute, Edge
  PROVE  [Protocol!Next]_Protocol!vars
<1>1. UnitEdge /\ asked' = asked /\ NoExec
  BY DEF Edge, Mute
<1>2. heard' = heard
  BY HeardKept DEF Edge, Mute, Unanswered, TxIdle
<1>3. (Pending' <=> Pending) /\ Reply' = Reply
  BY MuteStep, PendingWhen, ShapesAfter DEF PendingShape, Mute
<1> QED BY <1>1, <1>2, <1>3, QuietExec, SilentStep

\* The operand of the command asked.
LEMMA OperandAsked ==
  ASSUME IInv, Received, asked[1] \in {I_ADR_PTR_SET, I_MEM_WR}
  PROVE  Protocol!Operand = Operand /\ Operand \in Word
<1>1. asked \in Seq(U8) /\ Len(asked) = 5
  BY ReceivedFacts, CommandLengths
  DEF RX_DATA_LEN, I_ADR_PTR_SET, I_MEM_WR, I_CPU_RUN_CYC, I_CPU_FREERUN
<1>2. \A i \in 1..5 : rx_data[i - 1] = asked[i] /\ asked[i] \in U8
  <2>1. \A i \in 1..5 : rx_data[i - 1] = asked[i]
    BY <1>1 DEF Received, Stored
  <2>2. \A i \in 1..5 : asked[i] \in U8
    BY <1>1, LenProperties
  <2> QED BY <2>1, <2>2
<1>3. SubSeq(asked, 2, 5) = [i \in 1..4 |-> asked[i + 1]]
  BY <1>1
<1>4. \A i \in 1..4 : rx_data[i] = asked[i + 1] /\ rx_data[i] \in U8
  <2> TAKE i \in 1..4
  <2>1. i + 1 \in 1..5 /\ (i + 1) - 1 = i
    OBVIOUS
  <2> QED BY <1>2, <2>1
<1> QED BY <1>3, <1>4 DEF Protocol!Operand, Operand, Word

\* The reply a response register gives.
LEMMA ReplyByte ==
  ASSUME IInv', Requested', TxLen' = 1
  PROVE  Reply' = <<tx_data'[0]>>
<1>1. Reply' = From(TxLen', tx_data', 0)
  BY ShapesAfter DEF ReplyShape
<1> QED BY <1>1 DEF From

LEMMA ReplyWord ==
  ASSUME IInv', Requested', TxLen' = 4, NEW w \in Word, tx_data' = [i \in 0..3 |-> w[i + 1]]
  PROVE  Reply' = w
<1>1. Reply' = From(TxLen', tx_data', 0)
  BY ShapesAfter DEF ReplyShape
<1>2. From(4, tx_data', 0) = [i \in 1..4 |-> w[i]]
  BY DEF From
<1> QED BY <1>1, <1>2 DEF Word

\* What a command that needs no memory and no cycle of the CPU does.
LEMMA RefineAnswered ==
  ASSUME IInv, IInv', Finishing, Edge,
         rx_data[0] \notin {I_MEM_WR, I_MEM_RD, I_CPU_RUN_CYC}
  PROVE  Protocol!Next
<1> USE DEF Finishing
<1>1. /\ UnitEdge /\ heard' = heard /\ rx_data' = rx_data /\ asked' = asked
      /\ IF Respond THEN Requested' ELSE TxIdle'
  BY UnansweredStep DEF Edge, Unanswered
<1>2. ~MemDone /\ ~LastCycle /\ ~mem_write /\ ~mem_read /\ rx_data[0] = asked[1]
  BY ReceivedFacts DEF MemDone, LastCycle, mem_op, Unanswered
<1>3. Pending /\ Reply = <<>>
  BY PendingWhen DEF PendingShape
<1> USE DEF I_ADR_PTR_SET, I_ADR_PTR_GET, I_MEM_WR, I_MEM_RD, I_CPU_RUN_CYC, I_CPU_RESET, I_CPU_FREERUN
<1>4. Respond
  BY DEF Respond, tx_ack, tx_nak, Executes, Instructions
<1>5. Responding'
  BY <1>1, <1>4, FinishingStep
  DEF Accessing, Running, Mute, Unanswered, TxIdle, Requested
<1>6. Pending' = FALSE
  BY <1>5, ShapesAfter DEF PendingShape, Pending
<1>7. mem' = mem /\ cpu_cycles' = cpu_cycles
  BY <1>1, <1>2 DEF UnitEdge, MemoryAnswers, CpuControl, Executes
<1>8. TxLen' = TX_DATA_LEN(rx_data[0])
  BY <1>1 DEF TxLen
<1>9. adr_ptr' = IF rx_data[0] = I_ADR_PTR_SET THEN Operand ELSE adr_ptr
  BY <1>1, <1>2 DEF UnitEdge, MemoryAccess, Executes
<1>10. tx_data' = IF rx_data[0] = I_ADR_PTR_GET THEN [i \in 0..3 |-> adr_ptr[i + 1]]
                  ELSE [tx_data EXCEPT ![0] = IF rx_data[0] \in Instructions THEN ACK ELSE NAK]
  <2> DEFINE acks == \E i \in {I_ADR_PTR_SET, I_CPU_RESET, I_CPU_FREERUN} : Executes(i)
  <2>1. tx_nak <=> rx_data[0] \notin Instructions
    BY DEF tx_nak
  <2>2. acks <=> rx_data[0] \in {I_ADR_PTR_SET, I_CPU_RESET, I_CPU_FREERUN}
    BY DEF Executes
  <2>3. Executes(I_ADR_PTR_GET) <=> rx_data[0] = I_ADR_PTR_GET
    BY DEF Executes
  <2>4. tx_data' = CASE tx_nak -> [tx_data EXCEPT ![0] = NAK]
                     [] Executes(I_ADR_PTR_GET) -> [i \in 0..3 |-> adr_ptr[i + 1]]
                     [] acks -> [tx_data EXCEPT ![0] = ACK]
                     [] OTHER -> tx_data
    BY <1>1, <1>2 DEF UnitEdge, Response
  <2> HIDE DEF acks
  <2>5. CASE rx_data[0] \notin Instructions
    <3>1. tx_nak /\ ~Executes(I_ADR_PTR_GET) /\ ~acks /\ rx_data[0] # I_ADR_PTR_GET
      BY <2>1, <2>2, <2>3, <2>5 DEF Instructions
    <3> QED BY <2>4, <2>5, <3>1
  <2>6. CASE rx_data[0] \in Instructions /\ rx_data[0] # I_ADR_PTR_GET
    <3>1. acks /\ ~tx_nak /\ ~Executes(I_ADR_PTR_GET)
      BY <2>1, <2>2, <2>3, <2>6 DEF Instructions
    <3> QED BY <2>4, <2>6, <3>1
  <2>7. CASE rx_data[0] = I_ADR_PTR_GET
    <3>1. Executes(I_ADR_PTR_GET) /\ ~tx_nak /\ ~acks
      BY <2>1, <2>2, <2>3, <2>7 DEF Instructions
    <3> QED BY <2>4, <2>7, <3>1
  <2> QED BY <2>5, <2>6, <2>7
<1>11. rx_data[0] # I_ADR_PTR_GET =>
         Reply' = <<IF rx_data[0] \in Instructions THEN ACK ELSE NAK>>
  <2> SUFFICES ASSUME rx_data[0] # I_ADR_PTR_GET
               PROVE  Reply' = <<IF rx_data[0] \in Instructions THEN ACK ELSE NAK>>
    OBVIOUS
  <2>1. TxLen' = 1
    BY <1>8 DEF TX_DATA_LEN
  <2>2. tx_data'[0] = IF rx_data[0] \in Instructions THEN ACK ELSE NAK
    BY <1>10 DEF IInv, Ranges, TxRanges
  <2> QED BY <1>1, <1>4, <2>1, <2>2, ReplyByte
<1>12. rx_data[0] # I_CPU_FREERUN => cpu_run' = cpu_run
  <2>1. ~Executes(I_CPU_RUN_CYC) /\ (rx_data[0] # I_CPU_FREERUN => ~Executes(I_CPU_FREERUN))
    BY DEF Executes
  <2> QED BY <1>1, <1>2, <2>1, RunPin
<1>13. cpu_n_reset' = IF rx_data[0] = I_CPU_RESET THEN FALSE ELSE cpu_n_reset
  <2>1. cpu_n_reset' = ((cpu_run /\ ~cpu_n_reset) \/ (cpu_n_reset /\ ~Executes(I_CPU_RESET)))
    BY <1>1, Zenon DEF UnitEdge, CpuControl
  <2>2. cpu_run => cpu_n_reset
    BY DEF IInv, RunReleases
  <2>3. cpu_run \in BOOLEAN /\ cpu_n_reset \in BOOLEAN
    BY DEF IInv, Booleans, CpuBooleans
  <2>4. Executes(I_CPU_RESET) <=> rx_data[0] = I_CPU_RESET
    BY DEF Executes
  <2>5. CASE rx_data[0] = I_CPU_RESET
    BY <2>1, <2>2, <2>3, <2>4, <2>5
  <2>6. CASE rx_data[0] # I_CPU_RESET
    <3>1. cpu_n_reset' <=> cpu_n_reset
      BY <2>1, <2>2, <2>3, <2>4, <2>6
    <3>2. cpu_n_reset' \in BOOLEAN
      BY DEF IInv, Booleans, CpuBooleans
    <3> QED BY <2>3, <2>6, <3>1, <3>2
  <2> QED BY <2>5, <2>6
<1> USE DEF Protocol!Next, Protocol!Serve, Protocol!Asked, Protocol!Answer, Protocol!host, Protocol!cpu,
        Protocol!I_ADR_PTR_SET, Protocol!I_ADR_PTR_GET, Protocol!I_CPU_RESET, Protocol!I_CPU_FREERUN,
        Protocol!ACK, Protocol!NAK, ACK, NAK
<1>14. CASE rx_data[0] = I_ADR_PTR_SET
  <2>1. adr_ptr' = Protocol!Operand
    BY <1>2, <1>9, <1>14, OperandAsked DEF Unanswered
  <2>2. Protocol!SetAddress
    BY <1>1, <1>2, <1>3, <1>6, <1>7, <1>11, <1>12, <1>13, <1>14, <2>1
    DEF Protocol!SetAddress, Instructions
  <2> QED BY <2>2
<1>15. CASE rx_data[0] = I_ADR_PTR_GET
  <2>1. Reply' = adr_ptr
    <3>1. TxLen' = 4
      BY <1>8, <1>15 DEF TX_DATA_LEN
    <3>2. adr_ptr \in Word
      BY DEF IInv, Ranges, MemRanges
    <3> QED BY <1>1, <1>4, <1>10, <1>15, <3>1, <3>2, ReplyWord
  <2>2. Protocol!GetAddress
    BY <1>1, <1>2, <1>3, <1>6, <1>7, <1>9, <1>12, <1>13, <1>15, <2>1 DEF Protocol!GetAddress
  <2> QED BY <2>2
<1>16. CASE rx_data[0] = I_CPU_RESET
  <2>1. Protocol!ResetCpu
    BY <1>1, <1>2, <1>3, <1>6, <1>7, <1>9, <1>11, <1>12, <1>13, <1>16
    DEF Protocol!ResetCpu, Instructions
  <2> QED BY <2>1
<1>17. CASE rx_data[0] = I_CPU_FREERUN
  <2>1. cpu_run' = (asked[2] % 2 = 1)
    <3>1. rx_data[1] = asked[2]
      <4>1. Len(asked) = 2
        <5>1. asked \in Commands /\ asked[1] = I_CPU_FREERUN
          BY <1>2, <1>17, ReceivedFacts DEF Unanswered
        <5>2. Len(asked) = RX_DATA_LEN(I_CPU_FREERUN)
          BY <5>1, CommandLengths
        <5> QED BY <5>2 DEF RX_DATA_LEN
      <4> QED BY <4>1 DEF Unanswered, Received, Stored
    <3>2. cpu_run' = (rx_data[1] % 2 = 1)
      <4>1. Executes(I_CPU_FREERUN) /\ ~Executes(I_CPU_RUN_CYC)
        BY <1>17 DEF Executes
      <4> QED BY <1>1, <1>2, <4>1, Zenon DEF UnitEdge, CpuControl
    <3> QED BY <3>1, <3>2
  <2>2. Protocol!FreeRun
    BY <1>1, <1>2, <1>3, <1>6, <1>7, <1>9, <1>11, <1>13, <1>17, <2>1
    DEF Protocol!FreeRun, Instructions
  <2> QED BY <2>2
<1>18. CASE rx_data[0] \notin Instructions
  <2>1. Protocol!Refuse
    BY <1>1, <1>2, <1>3, <1>6, <1>7, <1>9, <1>11, <1>12, <1>13, <1>18
    DEF Protocol!Refuse, Instructions, Protocol!Instructions, Protocol!I_MEM_WR, Protocol!I_MEM_RD,
        Protocol!I_CPU_RUN_CYC
  <2> QED BY <2>1
<1> QED BY <1>14, <1>15, <1>16, <1>17, <1>18 DEF Instructions

\* A command that asks the memory or starts the CPU is not answered yet.
LEMMA RefineStarted ==
  ASSUME IInv, IInv', Finishing, Edge,
         rx_data[0] \in {I_MEM_WR, I_MEM_RD, I_CPU_RUN_CYC}
  PROVE  [Protocol!Next]_Protocol!vars
<1> USE DEF Finishing
<1>1. /\ UnitEdge /\ heard' = heard /\ rx_data' = rx_data /\ asked' = asked
      /\ IF Respond THEN Requested' ELSE TxIdle'
  BY UnansweredStep DEF Edge, Unanswered
<1>2. ~MemDone /\ ~LastCycle /\ ~mem_write /\ rx_data[0] = asked[1]
  BY ReceivedFacts DEF MemDone, LastCycle, mem_op, Unanswered
<1> USE DEF I_ADR_PTR_SET, I_ADR_PTR_GET, I_MEM_WR, I_MEM_RD, I_CPU_RUN_CYC, I_CPU_RESET, I_CPU_FREERUN
<1>3. ~Respond
  BY <1>2 DEF Respond, tx_ack, tx_nak, Executes, Instructions, MemDone
<1>4. Unanswered'
  BY <1>1, <1>3, FinishingStep DEF Accessing, Running, Mute, Responding, Requested, Written,
       Outgoing, Between, TxIdle
<1>5. (Pending' <=> Pending) /\ Pending /\ Reply' = Reply /\ Reply = <<>>
  BY <1>4, PendingWhen, ShapesAfter DEF PendingShape
<1>6. mem' = mem /\ adr_ptr' = adr_ptr
  BY <1>1, <1>2 DEF UnitEdge, MemoryAnswers, MemoryAccess, Executes
<1>7. cpu_n_reset' = cpu_n_reset
  <2>1. cpu_n_reset' <=> cpu_run \/ cpu_n_reset
    BY <1>1, ResetPin DEF Executes
  <2>2. cpu_run => cpu_n_reset
    BY DEF IInv, RunReleases
  <2>3. cpu_n_reset \in BOOLEAN /\ cpu_n_reset' \in BOOLEAN
    BY DEF IInv, Booleans, CpuBooleans
  <2> QED BY <2>1, <2>2, <2>3
<1>8. CASE rx_data[0] = I_CPU_RUN_CYC
  <2>1. rx_data[1] = asked[2]
    <3>1. asked \in Commands /\ asked[1] = I_CPU_RUN_CYC
      BY <1>2, <1>8, ReceivedFacts DEF Unanswered
    <3>2. Len(asked) = RX_DATA_LEN(I_CPU_RUN_CYC)
      BY <3>1, CommandLengths
    <3>3. Len(asked) = 2
      BY <3>2 DEF RX_DATA_LEN
    <3> QED BY <3>3 DEF Unanswered, Received, Stored
  <2>2. cpu_cycles' = rx_data[1]
    BY <1>1, <1>8 DEF UnitEdge, CpuControl, Executes
  <2>3. cpu_run' = TRUE
    <3>1. Executes(I_CPU_RUN_CYC) /\ ~Executes(I_CPU_FREERUN)
      BY <1>8 DEF Executes
    <3> QED BY <1>1, <1>2, <3>1, Zenon DEF UnitEdge, CpuControl
  <2>4. Pending' = Pending
    BY <1>5 DEF Pending
  <2>5. Protocol!RunFor
    BY <1>1, <1>2, <1>5, <1>6, <1>7, <1>8, <2>1, <2>2, <2>3, <2>4
    DEF Protocol!RunFor, Protocol!Asked, Protocol!host, Protocol!I_CPU_RUN_CYC
  <2> QED BY <2>5 DEF Protocol!Next, Protocol!Serve
<1>9. CASE rx_data[0] # I_CPU_RUN_CYC
  <2>1. cpu_cycles' = cpu_cycles
    BY <1>1, <1>9 DEF UnitEdge, CpuControl, Executes
  <2>2. cpu_run' = cpu_run
    BY <1>1, <1>2, <1>9, RunPin DEF Executes
  <2>3. cpu_n_reset' <=> cpu_run \/ cpu_n_reset
    BY <1>1, <1>9, ResetPin DEF Executes
  <2> QED BY <1>1, <1>5, <1>6, <2>1, <2>2, <2>3, SilentStep
<1> QED BY <1>8, <1>9

LEMMA RefineAccessing ==
  ASSUME IInv, IInv', Accessing, Edge
  PROVE  [Protocol!Next]_Protocol!vars
<1> USE DEF Accessing
<1>1. /\ UnitEdge /\ heard' = heard /\ rx_data' = rx_data /\ asked' = asked
      /\ ~instr_rx_finish'
      /\ IF Respond THEN Requested' ELSE TxIdle'
  BY UnansweredStep DEF Edge, Unanswered
<1>2. mem_op /\ ~LastCycle /\ (\A i : ~Executes(i)) /\ rx_data[0] = asked[1]
  BY ReceivedFacts DEF mem_op, LastCycle, Executes, Writing, Reading, Unanswered
<1>3. Pending /\ Reply = <<>>
  BY PendingWhen DEF PendingShape
<1>4. cpu_cycles' = cpu_cycles /\ cpu_run' = cpu_run
  <2>1. cpu_cycles' = cpu_cycles
    BY <1>1, <1>2 DEF UnitEdge, CpuControl
  <2> QED BY <1>1, <1>2, <2>1, RunPin
<1>5. (cpu_n_reset' <=> cpu_run \/ cpu_n_reset) /\ cpu_n_reset' = cpu_n_reset
  <2>1. cpu_n_reset' <=> cpu_run \/ cpu_n_reset
    BY <1>1, <1>2, ResetPin
  <2>2. cpu_n_reset \in BOOLEAN /\ cpu_n_reset' \in BOOLEAN
    BY DEF IInv, Booleans, CpuBooleans
  <2> QED BY <2>1, <2>2 DEF Released
<1>6. Cell(adr_ptr) \in 0..(Cells - 1)
  BY CellInMemory DEF IInv, Ranges, MemRanges
<1>7. Protocol!Cell(adr_ptr) = Cell(adr_ptr) /\ Protocol!Add4(adr_ptr) = Add4(adr_ptr)
  BY DEF Protocol!Cell, Cell, Protocol!Add4, Add4
<1>8. Writing => Protocol!Operand = data_bus_out
  <2>1. Writing => asked[1] \in {I_ADR_PTR_SET, I_MEM_WR} /\ data_bus_out = Operand
    BY <1>2 DEF Writing
  <2> QED BY <2>1, OperandAsked DEF Unanswered
<1> USE DEF Protocol!I_MEM_WR, Protocol!I_MEM_RD, I_MEM_WR, I_MEM_RD, Protocol!host, Protocol!cpu,
        Protocol!ACK, ACK, Protocol!Asked, Protocol!Answer
<1>9. CASE ~mem_rdy
  <2>1. ~Respond /\ ~MemDone
    BY <1>2, <1>9 DEF Respond, tx_ack, tx_nak, MemDone
  <2>2. adr_ptr' = adr_ptr
    BY <1>1, <1>2, <2>1 DEF UnitEdge, MemoryAccess
  <2>3. Unanswered'
    BY <1>1, <2>1, AccessingStep DEF Responding, Requested, Written, Outgoing, Between, TxIdle
  <2>4. (Pending' <=> Pending) /\ Reply' = Reply
    BY <1>3, <2>3, ShapesAfter DEF PendingShape
  <2>5. CASE Writing
    <3>1. mem' = [mem EXCEPT ![Cell(adr_ptr)] = data_bus_out]
      BY <1>1, <2>5 DEF UnitEdge, MemoryAnswers, Writing
    <3>2. Pending' = Pending
      BY <2>4 DEF Pending
    <3>3. Protocol!Store
      BY <1>1, <1>2, <1>3, <1>4, <1>5, <1>7, <1>8, <2>2, <2>4, <2>5, <3>1, <3>2
      DEF Protocol!Store, Writing
    <3> QED BY <3>3 DEF Protocol!Next, Protocol!Serve
  <2>6. CASE Reading
    <3>1. mem' = mem
      BY <1>1, <2>6 DEF UnitEdge, MemoryAnswers, Reading
    <3> QED BY <1>1, <1>4, <1>5, <2>2, <2>4, <3>1, SilentStep
  <2> QED BY <2>5, <2>6
<1>10. CASE mem_rdy
  <2>1. MemDone /\ Respond
    BY <1>2, <1>10 DEF MemDone, Respond, tx_ack, mem_op
  <2>2. adr_ptr' = Add4(adr_ptr)
    BY <1>1, <2>1 DEF UnitEdge, MemoryAccess
  <2>3. Responding'
    BY <1>1, <2>1, AccessingStep DEF Unanswered, TxIdle, Requested
  <2>4. Pending' = FALSE
    BY <2>3, ShapesAfter DEF PendingShape, Pending
  <2>5. CASE Writing
    <3>1. mem' = mem
      BY <1>1, <1>6, <1>10, <2>5 DEF UnitEdge, MemoryAnswers, Writing, IInv, Ranges, MemRanges
    <3>2. tx_data'[0] = ACK
      BY <1>1, <1>2, <2>1, <2>5 DEF UnitEdge, Response, Writing, IInv, Ranges, TxRanges
    <3>3. TxLen' = 1
      BY <1>1, <2>5 DEF TxLen, TX_DATA_LEN, Writing, I_ADR_PTR_GET
    <3>4. Reply' = <<ACK>>
      BY <1>1, <2>1, <3>2, <3>3, ReplyByte
    <3>5. Protocol!Stored
      BY <1>1, <1>2, <1>3, <1>4, <1>5, <1>7, <1>8, <1>10, <2>2, <2>4, <2>5, <3>1, <3>4
      DEF Protocol!Stored, Writing
    <3> QED BY <3>5 DEF Protocol!Next, Protocol!Serve
  <2>6. CASE Reading
    <3>1. mem' = mem
      BY <1>1, <2>6 DEF UnitEdge, MemoryAnswers, Reading
    <3>2. tx_data' = [i \in 0..3 |-> data_bus_in[i + 1]]
      BY <1>1, <1>2, <2>1, <2>6 DEF UnitEdge, Response, Reading
    <3>3. TxLen' = 4
      BY <1>1, <2>6 DEF TxLen, TX_DATA_LEN, Reading
    <3>4. data_bus_in \in Word
      BY DEF IInv, Ranges, MemRanges
    <3>5. Reply' = data_bus_in
      BY <1>1, <2>1, <3>2, <3>3, <3>4, ReplyWord
    <3>6. Protocol!Fetch
      BY <1>1, <1>2, <1>3, <1>4, <1>5, <1>7, <1>10, <2>2, <2>4, <2>6, <3>1, <3>5
      DEF Protocol!Fetch, Reading
    <3> QED BY <3>6 DEF Protocol!Next, Protocol!Serve
  <2> QED BY <2>5, <2>6
<1> QED BY <1>9, <1>10

LEMMA RefineRunning ==
  ASSUME IInv, IInv', Running, Edge
  PROVE  [Protocol!Next]_Protocol!vars
<1> USE DEF Running
<1>1. /\ UnitEdge /\ heard' = heard /\ rx_data' = rx_data /\ asked' = asked
      /\ IF Respond THEN Requested' ELSE TxIdle'
  BY UnansweredStep DEF Edge, Unanswered
<1>2. ~MemDone /\ (\A i : ~Executes(i)) /\ rx_data[0] = asked[1] /\ ~mem_write
  BY ReceivedFacts DEF MemDone, Executes, Unanswered, mem_op
<1>3. Pending /\ Reply = <<>>
  BY PendingWhen DEF PendingShape
<1>4. cpu_cycles \in U8 /\ cpu_cycles' = cpu_cycles - 1
  BY <1>1 DEF UnitEdge, CpuControl, IInv, Ranges
<1>5. adr_ptr' = adr_ptr /\ mem' = mem
  BY <1>1, <1>2 DEF UnitEdge, MemoryAccess, MemoryAnswers
<1>6. cpu_n_reset' = cpu_n_reset \/ (cpu_run /\ cpu_n_reset' = TRUE)
  <2>1. cpu_n_reset' <=> cpu_run \/ cpu_n_reset
    BY <1>1, <1>2, ResetPin
  <2>2. cpu_n_reset \in BOOLEAN /\ cpu_n_reset' \in BOOLEAN
    BY DEF IInv, Booleans, CpuBooleans
  <2> QED BY <2>1, <2>2
<1> USE DEF Protocol!Next, Protocol!Serve, Protocol!host, Protocol!MayRelease
<1>7. CASE LastCycle
  <2>1. Respond
    BY <1>7 DEF Respond, tx_ack
  <2>2. Responding'
    BY <1>1, <2>1, RunningStep DEF Unanswered, TxIdle, Requested
  <2>3. Pending' = FALSE
    BY <2>2, ShapesAfter DEF PendingShape, Pending
  <2>4. tx_data'[0] = ACK
    BY <1>1, <1>7 DEF UnitEdge, Response, IInv, Ranges, TxRanges
  <2>5. TxLen' = 1
    BY <1>1 DEF TxLen, TX_DATA_LEN, I_ADR_PTR_GET, I_MEM_RD, I_CPU_RUN_CYC
  <2>6. Reply' = <<ACK>>
    BY <1>1, <2>1, <2>4, <2>5, ReplyByte
  <2>7. cpu_run' = FALSE
    BY <1>1, <1>7, Zenon DEF UnitEdge, CpuControl
  <2>8. Protocol!RunLast
    BY <1>1, <1>2, <1>3, <1>4, <1>5, <1>6, <1>7, <2>3, <2>6, <2>7
    DEF Protocol!RunLast, Protocol!Asked, Protocol!Answer, LastCycle, Protocol!ACK, ACK,
        Protocol!I_CPU_RUN_CYC, I_CPU_RUN_CYC
  <2> QED BY <2>8
<1>8. CASE ~LastCycle
  <2>1. ~Respond
    BY <1>2, <1>8 DEF Respond, tx_ack, tx_nak, Executes
  <2>2. Unanswered'
    BY <1>1, <2>1, RunningStep DEF Responding, Requested, Written, Outgoing, Between, TxIdle
  <2>3. Pending' = Pending /\ Reply' = Reply
    BY <1>3, <2>2, ShapesAfter DEF PendingShape, Pending
  <2>4. cpu_run' = cpu_run
    BY <1>1, <1>2, <1>8, RunPin
  <2>5. cpu_cycles > 1
    BY <1>4, <1>8 DEF LastCycle, U8
  <2>6. Protocol!RunCycle
    BY <1>1, <1>4, <1>5, <1>6, <2>3, <2>4, <2>5 DEF Protocol!RunCycle
  <2> QED BY <2>6
<1> QED BY <1>7, <1>8

\* A response leaves byte by byte, and the host hears each as its stop bit begins.
LEMMA RefineResponding ==
  ASSUME IInv, IInv', PhaseInv, Responding, Edge
  PROVE  [Protocol!Next]_Protocol!vars
<1>1. /\ UnitEdge /\ TxLen' = TxLen /\ TxLen \in 1..4 /\ tx_data' = tx_data /\ asked' = asked
      /\ heard' = IF tx_left = BitClk + 1 THEN Append(heard, tx_wire) ELSE heard
      /\ UNCHANGED <<adr_ptr, mem, cpu_cycles, cpu_run>>
      /\ cpu_n_reset' <=> cpu_run \/ cpu_n_reset
  BY RespondingFacts
<1>2. Pending = FALSE /\ Pending' = FALSE
  BY RespondingStep, PendingWhen, ShapesAfter DEF PendingShape, Pending
<1>3. ReplyShape /\ ReplyShape'
  BY ReplyWhen, ShapesAfter
<1>4. tx_data \in [0..3 -> U8] /\ heard \in Seq(U8)
  BY DEF IInv, Ranges, TxRanges, PhaseInv
<1>5. ASSUME heard' = heard, Reply' = Reply
      PROVE  [Protocol!Next]_Protocol!vars
  BY <1>1, <1>2, <1>5, SilentStep
<1>6. CASE Requested
  <2>1. Written' /\ uart_tx_data' = tx_data[0] /\ heard' = heard
    BY <1>6, RequestedStep
  <2>2. tx_byte' = 1
    BY <1>6, <2>1 DEF Requested, Written
  <2>3. Reply' = <<tx_data[0]>> \o From(TxLen, tx_data, 1)
    BY <1>1, <1>3, <2>1, <2>2 DEF ReplyShape
  <2>4. Reply = From(TxLen, tx_data, 0)
    BY <1>3, <1>6 DEF ReplyShape
  <2>5. From(TxLen, tx_data, 0) = <<tx_data[0]>> \o From(TxLen, tx_data, 0 + 1)
    <3>1. 0 \in 0..(TxLen - 1)
      BY <1>1
    <3> QED BY <1>1, <1>4, <3>1, FromFirst
  <2> QED BY <1>5, <2>1, <2>3, <2>4, <2>5
<1>7. CASE Written
  <2>1. Outgoing' /\ uart_tx_data' = uart_tx_data /\ heard' = heard
    BY <1>1, <1>7, WrittenStep, Cycles DEF Written
  <2>2. tx_byte' = tx_byte
    BY <1>7, <2>1 DEF Written, Outgoing
  <2>3. Reply' = Reply
    BY <1>1, <1>3, <1>7, <2>1, <2>2 DEF ReplyShape
  <2> QED BY <1>5, <2>1, <2>3
<1>8. CASE Outgoing /\ tx_left # BitClk + 1
  <2>1. Outgoing' /\ uart_tx_data' = uart_tx_data /\ tx_byte' = tx_byte /\ heard' = heard
    BY <1>1, <1>4, <1>8, OutgoingStep
  <2>2. Reply' = Reply
    BY <1>1, <1>3, <1>8, <2>1 DEF ReplyShape
  <2> QED BY <1>5, <2>1, <2>2
<1>9. CASE Outgoing /\ tx_left = BitClk + 1
  <2>1. (Between' \/ TxEnding') /\ tx_byte' = tx_byte
    BY <1>4, <1>9, OutgoingStep
  <2>2. tx_wire = uart_tx_data /\ uart_tx_data \in U8 /\ tx_byte \in 0..TxLen
    BY <1>1, <1>9, Cycles DEF Outgoing, IInv, Ranges, TxRanges
  <2>3. From(TxLen, tx_data, tx_byte) \in Seq(U8)
    BY <1>1, <1>4, <2>2, FromIsSeq
  <2>4. Reply = <<uart_tx_data>> \o From(TxLen, tx_data, tx_byte)
    BY <1>3, <1>9 DEF ReplyShape
  <2>5. Reply # <<>> /\ Head(Reply) = uart_tx_data /\ Tail(Reply) = From(TxLen, tx_data, tx_byte)
    BY <2>2, <2>3, <2>4, PopFirst
  <2>6. Reply' = From(TxLen, tx_data, tx_byte)
    <3>1. CASE Between'
      BY <1>1, <1>3, <2>1, <3>1 DEF ReplyShape
    <3>2. CASE TxEnding'
      <4>1. tx_byte = TxLen
        BY <1>1, <2>1, <3>2 DEF TxEnding
      <4>2. From(TxLen, tx_data, TxLen) = <<>>
        BY <1>1, FromEnd
      <4> QED BY <1>3, <3>2, <4>1, <4>2 DEF ReplyShape
    <3> QED BY <2>1, <3>1, <3>2
  <2>7. cpu_n_reset' = cpu_n_reset
    <3>1. cpu_n_reset \in BOOLEAN /\ cpu_n_reset' \in BOOLEAN
      BY DEF IInv, Booleans, CpuBooleans
    <3> QED BY <1>1, <1>9, <3>1 DEF Outgoing, Released
  <2>8. heard' = Append(heard, Head(Reply))
    BY <1>1, <1>9, <2>2, <2>5
  <2>9. Protocol!Hear
    BY <1>1, <1>2, <2>5, <2>6, <2>7, <2>8 DEF Protocol!Hear, Protocol!cpu
  <2> QED BY <2>9 DEF Protocol!Next, Protocol!Serve
<1>10. CASE Between /\ tx_left # 0
  <2>1. Between' /\ tx_byte' = tx_byte /\ heard' = heard
    BY <1>1, <1>10, BetweenStep, Cycles DEF Between
  <2>2. Reply' = Reply
    BY <1>1, <1>3, <1>10, <2>1 DEF ReplyShape
  <2> QED BY <1>5, <2>1, <2>2
<1>11. CASE Between /\ tx_left = 0
  <2>1. Written' /\ uart_tx_data' = tx_data[tx_byte] /\ heard' = heard
    BY <1>1, <1>11, BetweenStep, Cycles
  <2>2. tx_byte' = tx_byte + 1 /\ tx_byte \in 0..(TxLen - 1)
    BY <1>1, <1>11, <2>1 DEF Written, Between
  <2>3. Reply = From(TxLen, tx_data, tx_byte)
    BY <1>3, <1>11 DEF ReplyShape
  <2>4. Reply' = <<tx_data[tx_byte]>> \o From(TxLen, tx_data, tx_byte + 1)
    BY <1>1, <1>3, <2>1, <2>2 DEF ReplyShape
  <2>5. Reply' = Reply
    BY <1>1, <1>4, <2>2, <2>3, <2>4, FromFirst
  <2> QED BY <1>5, <2>1, <2>5
<1> QED BY <1>6, <1>7, <1>8, <1>9, <1>10, <1>11 DEF Responding

LEMMA RefineContinue ==
  ASSUME IInv, IInv', PhaseInv, ContinueCommand
  PROVE  [Protocol!Next]_Protocol!vars
<1>1. Command /\ Gap /\ Command' /\ Incoming' /\ heard' = heard
  BY ContinueStep
<1>2. UnitEdge /\ asked' = asked /\ NoExec
  BY <1>1 DEF ContinueCommand, Command
<1>3. (Pending' <=> Pending) /\ Reply' = Reply
  BY <1>1, PendingWhen, ShapesAfter DEF PendingShape, Commanded
<1> QED BY <1>1, <1>2, <1>3, QuietExec, SilentStep

LEMMA RefineBegin ==
  ASSUME IInv, IInv', PhaseInv, ~Pipelined, NEW c \in Commands, BeginCommand(c)
  PROVE  Protocol!Next
<1>1. Idle /\ Commanded'
  BY BeginStep DEF Commanded
<1>2. UnitEdge /\ NoExec /\ asked' = c /\ heard' = <<>>
  BY <1>1 DEF BeginCommand, Idle
<1>3. Pending = FALSE /\ Pending' = TRUE /\ Reply = <<>> /\ Reply' = <<>>
  BY <1>1, PendingWhen, ShapesAfter DEF PendingShape, Pending
<1>4. cpu_n_reset' = cpu_n_reset \/ (cpu_run /\ cpu_n_reset' = TRUE)
  <2>1. cpu_n_reset \in BOOLEAN /\ cpu_n_reset' \in BOOLEAN
    BY DEF IInv, Booleans, CpuBooleans
  <2> QED BY <1>2, <2>1, QuietExec
<1>5. Protocol!Issue(c)
  BY <1>2, <1>3, <1>4, QuietExec DEF Protocol!Issue, Protocol!MayRelease
<1> QED BY <1>5 DEF Protocol!Next

LEMMA RefineReset ==
  ASSUME IInv, IInv', PhaseInv, Reset
  PROVE  Protocol!Next
<1>1. /\ asked' = <<>> /\ heard' = <<>> /\ adr_ptr' = adr_ptr
      /\ cpu_run' = TRUE /\ cpu_n_reset' = FALSE /\ cpu_cycles' = 0
  BY DEF Reset, ResetRegisters
<1>2. Reply' = <<>>
  <2>1. TxIdle'
    BY Zenon DEF Reset, ResetRegisters, FrameReset, TxIdle
  <2> QED BY <2>1, ShapesAfter DEF ReplyShape
<1>3. Pending' = FALSE
  BY <1>1 DEF Pending, Answered
<1>4. mem' = mem \/ (Protocol!Asked(I_MEM_WR) /\ mem' = [mem EXCEPT ![Protocol!Cell(adr_ptr)] = Protocol!Operand])
  <2>1. mem' = IF mem_write THEN [mem EXCEPT ![Cell(adr_ptr)] = data_bus_out] ELSE mem
    BY DEF Reset, ResetRegisters, MemoryAnswers
  <2>2. CASE mem_write
    <3>1. Accessing /\ Writing
      BY <2>2 DEF PhaseInv, Phases, Idle, Commanded, Command, NoExec, mem_op, Finishing, Accessing,
           Reading, Running, Mute, Responding
    <3>2. asked[1] = I_MEM_WR
      BY <3>1, ReceivedFacts DEF Accessing, Unanswered, Writing
    <3>3. Protocol!Operand = data_bus_out
      BY <3>1, <3>2, OperandAsked DEF Accessing, Unanswered, Writing
    <3>4. Pending
      BY <3>1, PendingWhen DEF PendingShape, Accessing
    <3>5. Protocol!Cell(adr_ptr) = Cell(adr_ptr)
      BY DEF Protocol!Cell, Cell
    <3> QED BY <2>1, <2>2, <3>2, <3>3, <3>4, <3>5 DEF Protocol!Asked
  <2> QED BY <2>1, <2>2
<1>5. Protocol!Reset
  BY <1>1, <1>2, <1>3, <1>4 DEF Protocol!Reset, Protocol!I_MEM_WR, I_MEM_WR
<1> QED BY <1>5 DEF Protocol!Next

\* The unit implements the protocol: each command the host asks has its
\* effect once and its reply is heard whole, byte after byte, whatever the
\* commands, the bit time and the size of memory, with a reset of the board
\* at any edge (dbgu32.v:144-367).
THEOREM UnitImplementsProtocol ==
  ASSUME ~Pipelined
  PROVE  Spec => Protocol!Safety
<1>1. Init => Protocol!Init
  <2> SUFFICES ASSUME Init PROVE Protocol!Init
    OBVIOUS
  <2>1. IInv /\ TxIdle
    BY InvInit, Zenon DEF Init, FrameInit, TxIdle
  <2>2. Reply = <<>>
    BY <2>1, ReplyWhen DEF ReplyShape
  <2>3. Pending = FALSE
    BY DEF Init, Pending, Answered
  <2>4. adr_ptr \in Protocol!Word /\ mem \in [0..(Cells - 1) -> Protocol!Word]
    BY <2>1 DEF IInv, Ranges, MemRanges, Protocol!Word, Word, Protocol!U8, U8
  <2> QED BY <2>2, <2>3, <2>4 DEF Init, Protocol!Init
<1>2. IInv /\ PhaseInv /\ IInv' /\ [Next]_vars => [Protocol!Next]_Protocol!vars
  <2> SUFFICES ASSUME IInv, PhaseInv, IInv', [Next]_vars
               PROVE  [Protocol!Next]_Protocol!vars
    OBVIOUS
  <2>1. CASE Edge
    BY <2>1, RefineIdle, RefineCommanded, RefineAnswered, RefineStarted, RefineAccessing,
       RefineRunning, RefineMute, RefineResponding DEF PhaseInv, Phases
  <2>2. CASE ContinueCommand
    BY <2>2, RefineContinue
  <2>3. ASSUME NEW c \in Commands, BeginCommand(c) PROVE Protocol!Next
    BY <2>3, RefineBegin
  <2>4. CASE Reset
    BY <2>4, RefineReset
  <2>5. CASE UNCHANGED vars
    <3>1. UNCHANGED <<Reply, Pending>>
      BY <2>5 DEF vars, frameVars, rxRegs, txRegs, host, Pending, Answered, Reply, Unsent, TxLen
    <3> QED BY <2>5, <3>1 DEF Protocol!vars, vars, memRegs, cpuRegs, memory, host
  <2> QED BY <2>1, <2>2, <2>3, <2>4, <2>5 DEF Next
<1> QED BY PhaseInvariance, <1>1, <1>2, PTL DEF Spec, Protocol!Safety
=============================================================================
