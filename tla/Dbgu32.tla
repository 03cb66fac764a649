------------------------------- MODULE Dbgu32 -------------------------------
(***************************************************************************)
(* extra/dbgu32.v: the debug unit that takes commands from the host over a *)
(* UART (UartFrame), reads and writes the memory and runs the CPU.  A step *)
(* is one rising edge of the clock.  Each register has one equation; where *)
(* several non-blocking assignments reach it in one edge the one later in  *)
(* the file wins, so the cases come in the reverse of the file's order.    *)
(*                                                                         *)
(* The host starts a byte only while cts is low.  A host that is not       *)
(* Pipelined also hears the whole response before its next command.        *)
(***************************************************************************)
EXTENDS UartFrame, DbgCommands

CONSTANTS Pipelined,
          Resets      \* may n_reset fall after power-up?

ASSUME EnvironmentAssumption == Pipelined \in BOOLEAN /\ Resets \in BOOLEAN
ASSUME DataAssumption == Data = U8

VARIABLES
  rx_byte, rx_data, instr_rx_decode, instr_rx_finish,            \* reception
  tx_byte, tx_data, instr_tx_finish, tx_req,                     \* response
  uart_tx_write, uart_tx_data,
  busy,                                                          \* cts
  mem_write, mem_read, RW, adr_ptr, data_bus_out,                \* memory
  cpu_run, cpu_n_reset, cpu_cycles,                              \* CPU
  mem_rdy, data_bus_in, mem,               \* the memory behind the bus
  asked, to_send, host_left, heard         \* the host

rxRegs == <<rx_byte, rx_data, instr_rx_decode, instr_rx_finish>>
txRegs == <<tx_byte, tx_data, instr_tx_finish, tx_req, uart_tx_write, uart_tx_data>>
memRegs == <<mem_write, mem_read, RW, adr_ptr, data_bus_out>>
cpuRegs == <<cpu_run, cpu_n_reset, cpu_cycles>>
memory == <<mem_rdy, data_bus_in, mem>>
host == <<asked, to_send, host_left, heard>>
vars == <<frameVars, rxRegs, txRegs, busy, memRegs, cpuRegs, memory, host>>

Zero == [i \in 1..4 |-> 0]

Init ==
  /\ FrameInit /\ rx_wire = Garbled
  /\ rx_byte = 0 /\ rx_data = [i \in 0..4 |-> 0]
  /\ instr_rx_decode = FALSE /\ instr_rx_finish = FALSE
  /\ tx_byte = 0 /\ tx_data = [i \in 0..3 |-> 0]
  /\ instr_tx_finish = FALSE /\ tx_req = FALSE
  /\ uart_tx_write = FALSE /\ uart_tx_data = 0
  /\ busy = FALSE
  /\ mem_write = FALSE /\ mem_read = FALSE /\ RW = 0
  /\ adr_ptr = Zero /\ data_bus_out = Zero
  /\ cpu_run = TRUE /\ cpu_n_reset = FALSE /\ cpu_cycles = 0
  /\ mem_rdy = FALSE /\ data_bus_in = Zero
  /\ mem = [i \in 0..(Cells - 1) |-> Zero]
  /\ asked = <<>> /\ to_send = <<>> /\ host_left = 0 /\ heard = <<>>

-----------------------------------------------------------------------------
(* Conditions on the state before the edge.                                *)

RxLen == RX_DATA_LEN(rx_data[0])
TxLen == TX_DATA_LEN(rx_data[0])

\* Mutant: a command is taken for complete before its argument.
CompleteEarly == instr_rx_decode /\ rx_byte <= RxLen

Complete == instr_rx_decode /\ rx_byte = RxLen
Partial == instr_rx_decode /\ rx_byte # RxLen

Executes(i) == instr_rx_finish /\ rx_data[0] = i
Operand == [i \in 1..4 |-> rx_data[i]]

mem_op == mem_write \/ mem_read
MemDone == mem_op /\ mem_rdy

LastCycle == cpu_cycles = 1

tx_ack == Executes(I_ADR_PTR_SET) \/ Executes(I_CPU_RESET)
            \/ Executes(I_CPU_FREERUN) \/ (MemDone /\ mem_write) \/ LastCycle
tx_nak == instr_rx_finish /\ rx_data[0] \notin Instructions
Respond == tx_ack \/ tx_nak \/ Executes(I_ADR_PTR_GET) \/ (MemDone /\ mem_read)

tx_next_byte == (tx_req \/ uart_tx_finished) /\ ~instr_tx_finish
LastByteSent == uart_tx_write /\ tx_byte = TxLen

-----------------------------------------------------------------------------
(* The registers after it.                                                 *)

Reception ==
  /\ rx_data' = IF uart_rx_ready /\ rx_byte \in 0..4
                THEN [rx_data EXCEPT ![rx_byte] = uart_rx_data] ELSE rx_data
  /\ rx_byte' = CASE instr_rx_finish -> 0
                  [] ~instr_rx_finish /\ uart_rx_ready -> (rx_byte + 1) % 8
                  [] OTHER -> rx_byte
  /\ instr_rx_decode' = (uart_rx_ready /\ ~instr_rx_decode)
  /\ instr_rx_finish' = (Complete /\ ~instr_rx_finish)

\* Mutant: every byte decoded lets a further one come.
CtsAfterEachByte ==
  busy' = /\ uart_rx_stopbit \/ busy
          /\ ~(instr_rx_decode \/ tx_ack \/ tx_nak \/ LastByteSent)

\* cts: up from the stop bit on, down when a further byte may come.
Cts ==
  busy' = /\ uart_rx_stopbit \/ busy
          /\ ~(Partial \/ tx_ack \/ tx_nak \/ LastByteSent)

\* Mutant: mem_write is not a pulse.
MemoryAccessStuck ==
  /\ RW' = CASE Executes(I_MEM_WR) -> 0 [] Executes(I_MEM_RD) -> 1 [] OTHER -> RW
  /\ data_bus_out' = IF Executes(I_MEM_WR) THEN Operand ELSE data_bus_out
  /\ mem_write' = (Executes(I_MEM_WR) \/ mem_write)
  /\ mem_read' = ((Executes(I_MEM_RD) \/ mem_read) /\ ~(MemDone /\ mem_read))
  /\ adr_ptr' = CASE MemDone -> Add4(adr_ptr)
                  [] ~MemDone /\ Executes(I_ADR_PTR_SET) -> Operand
                  [] OTHER -> adr_ptr

MemoryAccess ==
  /\ RW' = CASE Executes(I_MEM_WR) -> 0 [] Executes(I_MEM_RD) -> 1 [] OTHER -> RW
  /\ data_bus_out' = IF Executes(I_MEM_WR) THEN Operand ELSE data_bus_out
  /\ mem_write' = ((Executes(I_MEM_WR) \/ mem_write) /\ ~(MemDone /\ mem_write))
  /\ mem_read' = ((Executes(I_MEM_RD) \/ mem_read) /\ ~(MemDone /\ mem_read))
  /\ adr_ptr' = CASE MemDone -> Add4(adr_ptr)
                  [] ~MemDone /\ Executes(I_ADR_PTR_SET) -> Operand
                  [] OTHER -> adr_ptr

\* Mutant: a running CPU is never in reset.
CpuControlAlwaysReleased ==
  /\ cpu_cycles' = CASE cpu_cycles > 0 -> cpu_cycles - 1
                     [] cpu_cycles = 0 /\ Executes(I_CPU_RUN_CYC) -> rx_data[1]
                     [] OTHER -> cpu_cycles
  /\ cpu_run' = CASE LastCycle -> FALSE
                  [] ~LastCycle /\ Executes(I_CPU_RUN_CYC) -> TRUE
                  [] ~LastCycle /\ Executes(I_CPU_FREERUN) -> rx_data[1] % 2 = 1
                  [] OTHER -> cpu_run
  /\ cpu_n_reset' = (cpu_run \/ (cpu_n_reset /\ ~Executes(I_CPU_RESET)))

CpuControl ==
  /\ cpu_cycles' = CASE cpu_cycles > 0 -> cpu_cycles - 1
                     [] cpu_cycles = 0 /\ Executes(I_CPU_RUN_CYC) -> rx_data[1]
                     [] OTHER -> cpu_cycles
  /\ cpu_run' = CASE LastCycle -> FALSE
                  [] ~LastCycle /\ Executes(I_CPU_RUN_CYC) -> TRUE
                  [] ~LastCycle /\ Executes(I_CPU_FREERUN) -> rx_data[1] % 2 = 1
                  [] OTHER -> cpu_run
  /\ cpu_n_reset' = \/ cpu_run /\ ~cpu_n_reset
                    \/ cpu_n_reset /\ ~Executes(I_CPU_RESET)

\* What the response registers take, in the order of the file: an
\* acknowledgement is one byte, at index 0.
Response ==
  LET word(w) == [i \in 0..3 |-> w[i + 1]]
      byte(regs, b) == [regs EXCEPT ![0] = b]
      decoded ==
        CASE tx_nak -> byte(tx_data, NAK)
          [] Executes(I_ADR_PTR_GET) -> word(adr_ptr)
          [] \E i \in {I_ADR_PTR_SET, I_CPU_RESET, I_CPU_FREERUN} : Executes(i) ->
               byte(tx_data, ACK)
          [] OTHER -> tx_data
      accessed == CASE MemDone /\ mem_read -> word(data_bus_in)
                    [] MemDone /\ ~mem_read -> byte(decoded, ACK)
                    [] OTHER -> decoded
  IN tx_data' = IF LastCycle THEN byte(accessed, ACK) ELSE accessed

Transmission ==
  /\ tx_req' = ((tx_req \/ Respond) /\ ~(tx_req /\ ~instr_tx_finish))
  /\ uart_tx_data' = CASE ~tx_next_byte -> uart_tx_data
                       [] tx_next_byte /\ tx_byte < 4 -> tx_data[tx_byte]
                       [] OTHER -> Garbled
  /\ uart_tx_write' = (tx_next_byte /\ ~uart_tx_write)
  /\ tx_byte' = CASE uart_tx_finished /\ instr_tx_finish -> 0
                  [] tx_next_byte -> (tx_byte + 1) % 8
                  [] OTHER -> tx_byte
  /\ instr_tx_finish' = \/ LastByteSent
                        \/ instr_tx_finish /\ ~uart_tx_finished

\* The memory answers a cycle after it is asked (picosoc.v:51-54).
MemoryAnswers ==
  /\ mem_rdy' = mem_op
  /\ data_bus_in' = IF mem_read THEN mem[Cell(adr_ptr)] ELSE data_bus_in
  /\ mem' = IF mem_write THEN [mem EXCEPT ![Cell(adr_ptr)] = data_bus_out] ELSE mem

UnitEdge ==
  /\ TxStep(uart_tx_write, uart_tx_data)
  /\ Reception /\ Cts /\ MemoryAccess /\ CpuControl /\ Response /\ Transmission
  /\ MemoryAnswers

-----------------------------------------------------------------------------
(* The host, on the same clock.  It has a byte of the response when the    *)
(* stop bit begins.                                                        *)

ByteArrives == tx_left = BitClk + 1

Hear == heard' = IF ByteArrives THEN Append(heard, tx_wire) ELSE heard

Answered == asked # <<>> => Len(heard) = TX_DATA_LEN(asked[1])

MayStartByte == host_left = 0 /\ ~busy

StartByte(b) ==
  /\ MayStartByte
  /\ RxStart(b)
  /\ host_left' = TxCycles - 1

BeginCommand(c) ==
  /\ to_send = <<>>
  /\ ~Pipelined => Answered
  /\ MayAsk(c, adr_ptr)
  /\ StartByte(Head(c))
  /\ asked' = c
  /\ to_send' = Tail(c)
  /\ heard' = IF ByteArrives /\ Pipelined THEN <<tx_wire>> ELSE <<>>
  /\ UnitEdge

ContinueCommand ==
  /\ to_send # <<>>
  /\ StartByte(Head(to_send))
  /\ to_send' = Tail(to_send)
  /\ Hear
  /\ UNCHANGED asked
  /\ UnitEdge

\* The host sends the rest of a byte or waits.
Edge ==
  /\ RxStep
  /\ host_left' = IF host_left = 0 THEN 0 ELSE host_left - 1
  /\ Hear
  /\ UNCHANGED <<asked, to_send>>
  /\ UnitEdge

\* The registers a reset clears besides the two that count bytes.
ResetRegisters ==
  /\ Resets
  /\ FrameReset
  /\ uart_tx_write' = FALSE
  /\ instr_rx_decode' = FALSE /\ instr_rx_finish' = FALSE
  /\ tx_req' = FALSE /\ instr_tx_finish' = FALSE
  /\ mem_write' = FALSE /\ mem_read' = FALSE
  /\ cpu_cycles' = 0 /\ cpu_run' = TRUE /\ cpu_n_reset' = FALSE
  /\ busy' = FALSE
  /\ UNCHANGED <<rx_data, tx_data, uart_tx_data, RW, adr_ptr, data_bus_out>>
  /\ MemoryAnswers
  /\ asked' = <<>> /\ to_send' = <<>> /\ host_left' = 0 /\ heard' = <<>>

\* Mutants: a partial command, or the count of a response, survives.
ResetKeepsCommand == ResetRegisters /\ tx_byte' = 0 /\ UNCHANGED rx_byte
ResetKeepsResponse == ResetRegisters /\ rx_byte' = 0 /\ UNCHANGED tx_byte

\* An edge with n_reset low.  The host gives its exchange up.
Reset == ResetRegisters /\ rx_byte' = 0 /\ tx_byte' = 0

Next == Edge \/ ContinueCommand \/ Reset \/ \E c \in Commands : BeginCommand(c)

(* The clock never stops, and a host that has begun a command goes on with *)
(* it as long as cts lets it.                                              *)
Fairness == WF_vars(Edge) /\ WF_vars(ContinueCommand)

Spec == Init /\ [][Next]_vars /\ Fairness

-----------------------------------------------------------------------------

(* Ranges.  Only the shift register of the UART holds a mixture of bytes:  *)
(* what it announces is a byte, and so are those in the registers of the   *)
(* command and of the response (dbgu32.v:178-206,285-319).                 *)
DbgTypeOK ==
  /\ FrameTypeOK
  /\ uart_rx_stopbit \/ uart_rx_ready => uart_rx_data \in U8
  /\ rx_byte \in 0..7 /\ rx_data \in [0..4 -> U8]
  /\ instr_rx_decode \in BOOLEAN /\ instr_rx_finish \in BOOLEAN
  /\ tx_byte \in 0..7 /\ tx_data \in [0..3 -> U8]
  /\ instr_tx_finish \in BOOLEAN /\ tx_req \in BOOLEAN
  /\ uart_tx_write \in BOOLEAN /\ uart_tx_data \in Known
  /\ busy \in BOOLEAN
  /\ mem_write \in BOOLEAN /\ mem_read \in BOOLEAN /\ RW \in {0, 1}
  /\ adr_ptr \in Word /\ data_bus_out \in Word
  /\ cpu_run \in BOOLEAN /\ cpu_n_reset \in BOOLEAN /\ cpu_cycles \in U8
  /\ mem_rdy \in BOOLEAN /\ data_bus_in \in Word
  /\ mem \in [0..(Cells - 1) -> Word]
  /\ asked \in Commands \union {<<>>} /\ to_send \in Seq(U8)
  /\ host_left \in 0..TxCycles /\ heard \in Seq(Known)

Executing == instr_rx_finish \/ mem_op \/ cpu_cycles > 0

(* While a command is decoded, executed and its response not yet on its    *)
(* way, cts is up: no further byte can overwrite rx_data under it          *)
(* (dbgu32.v:178-206,363).                                                 *)
CtsCoversCommand == Complete \/ Executing => busy

(* A response is not asked for while the one before it still waits to be   *)
(* transmitted: tx_data and tx_req hold one response only (:281-319).      *)
NoResponseLost == Respond => ~tx_req

(* Every byte handed to the UART finds it idle, so that none is dropped,   *)
(* and stays until its last bit is sent, so that none is garbled (:144-150,*)
(* 315-340).                                                               *)
NothingDropped ==
  /\ uart_tx_write => tx_left = 0
  /\ Garbled \notin {heard[i] : i \in DOMAIN heard}

(* A reset command lowers cpu_n_reset even though a running CPU raises it  *)
(* again by itself in the same block (:261-265,302-303).                   *)
CpuResetTakesEffect ==
  [][Executes(I_CPU_RESET) => ~cpu_n_reset']_vars

-----------------------------------------------------------------------------
(* The unit as the host sees it.                                           *)

Unsent == [i \in 1..(TxLen - tx_byte) |-> tx_data[tx_byte + i - 1]]

Reply ==
  CASE tx_req -> [i \in 1..TxLen |-> tx_data[i - 1]]
    [] ~tx_req /\ (uart_tx_write \/ tx_left > BitClk) -> <<uart_tx_data>> \o Unsent
    [] ~tx_req /\ ~uart_tx_write /\ (tx_left \in 1..BitClk \/ uart_tx_finished) -> Unsent
    [] OTHER -> <<>>

(* No byte comes in while a command executes or before its response is all *)
(* heard: rx_data, whose first byte TX_DATA_LEN and the decoding go by, is  *)
(* not overwritten under them (dbgu32.v:185-206,353-356).                  *)
NoOverrun == uart_rx_ready => ~(instr_rx_decode \/ Executing) /\ Reply = <<>>

\* A command that has neither been answered nor left a response to send.
Pending == ~Answered /\ heard = <<>> /\ Reply = <<>>

Protocol == INSTANCE DbgProtocol WITH
  pending <- Pending,
  reply <- Reply,
  adr <- adr_ptr,
  cycles <- cpu_cycles

(* Every command has its effect once and is answered (:208-313).           *)
ImplementsProtocol == Protocol!Spec

(* A command once begun is answered, unless a reset forgets it.            *)
EveryCommandAnswered == (asked # <<>>) ~> (to_send = <<>> /\ Answered)
=============================================================================
