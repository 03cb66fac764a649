----------------------------- MODULE DbguPhases -----------------------------
(***************************************************************************)
(* The phases an exchange of the debug unit goes through when the host     *)
(* waits for each response: the invariant of DbguProofs.  Reception,       *)
(* execution and transmission are three chains of one-cycle flags in       *)
(* extra/dbgu32.v that nothing but the order of events keeps apart; the    *)
(* one overlap is a next command that begins in the stop bit of a response.*)
(***************************************************************************)
EXTENDS Dbgu32

RxIdle == rx_left = 0 /\ ~uart_rx_ready /\ ~instr_rx_decode
NoExec == ~instr_rx_finish /\ ~mem_op /\ cpu_cycles = 0

TxIdle ==
  /\ ~tx_req /\ ~uart_tx_write /\ ~uart_tx_finished /\ ~instr_tx_finish
  /\ tx_left = 0 /\ tx_byte = 0

\* The stop bit of the last byte of a response, and the cycle after it.
TxEnding ==
  /\ ~tx_req /\ ~uart_tx_write /\ instr_tx_finish /\ tx_byte = TxLen
  /\ \/ tx_left \in 1..BitClk /\ ~uart_tx_finished
     \/ tx_left = 0 /\ uart_tx_finished

\* How much of the command the host has put on the line.
Sent == Len(asked) - Len(to_send)

Stored(n) == \A i \in 1..n : rx_data[i - 1] = asked[i]

\* No command, or the last one answered.
Idle ==
  /\ RxIdle /\ rx_byte = 0 /\ NoExec /\ (TxIdle \/ TxEnding)
  /\ to_send = <<>> /\ Answered

-----------------------------------------------------------------------------
(* A command on its way in.                                                *)

Command ==
  /\ asked # <<>> /\ heard = <<>> /\ NoExec
  /\ Len(to_send) < Len(asked)
  /\ \A i \in 1..Len(to_send) : to_send[i] = asked[Sent + i]
  /\ Stored(rx_byte)

\* A byte on the line: the response before it ends long before it does.
Incoming ==
  /\ rx_left > 0 /\ ~uart_rx_ready /\ ~instr_rx_decode
  /\ rx_byte = Sent - 1 /\ rx_wire = asked[Sent]
  /\ rx_left <= BitClk => uart_rx_data = asked[Sent]
  /\ rx_left < BitClk => busy
  /\ TxIdle \/ (TxEnding /\ rx_left >= tx_left + RxCycles - BitClk)

Ready ==
  /\ rx_left = 0 /\ uart_rx_ready /\ ~instr_rx_decode
  /\ rx_byte = Sent - 1 /\ uart_rx_data = asked[Sent]
  /\ busy /\ TxIdle

Decoding ==
  /\ rx_left = 0 /\ ~uart_rx_ready /\ instr_rx_decode
  /\ rx_byte = Sent
  /\ busy /\ TxIdle

\* Between two bytes.
Gap == RxIdle /\ rx_byte = Sent /\ to_send # <<>> /\ TxIdle

Commanded == Command /\ (Incoming \/ Ready \/ Decoding \/ Gap)

-----------------------------------------------------------------------------
(* A command received and not yet answered.                                *)

Received ==
  /\ asked # <<>> /\ to_send = <<>> /\ Stored(Len(asked))
  /\ RxIdle

Unanswered == Received /\ heard = <<>> /\ TxIdle

Finishing ==
  /\ Unanswered /\ busy
  /\ instr_rx_finish /\ ~mem_op /\ ~mem_rdy /\ cpu_cycles = 0

\* A running CPU is out of its reset.
Released == cpu_run => cpu_n_reset

Writing ==
  /\ mem_write /\ ~mem_read /\ rx_data[0] = I_MEM_WR
  /\ data_bus_out = Operand
  /\ mem_rdy => mem[Cell(adr_ptr)] = data_bus_out

Reading ==
  /\ mem_read /\ ~mem_write /\ rx_data[0] = I_MEM_RD
  /\ mem_rdy => data_bus_in = mem[Cell(adr_ptr)]

Accessing ==
  /\ Unanswered /\ busy
  /\ rx_byte = 0 /\ ~instr_rx_finish /\ cpu_cycles = 0
  /\ Released
  /\ Writing \/ Reading

Running ==
  /\ Unanswered /\ busy
  /\ rx_byte = 0 /\ ~instr_rx_finish /\ ~mem_op
  /\ rx_data[0] = I_CPU_RUN_CYC /\ cpu_cycles > 0

\* I_CPU_RUN_CYC with the argument 0 is never answered.
Mute == Unanswered /\ rx_byte = 0 /\ NoExec /\ rx_data[0] = I_CPU_RUN_CYC

-----------------------------------------------------------------------------
(* A response on its way out.                                              *)

Requested ==
  /\ heard = <<>> /\ tx_req /\ ~uart_tx_write /\ ~uart_tx_finished
  /\ ~instr_tx_finish /\ tx_left = 0 /\ tx_byte = 0

Written ==
  /\ ~tx_req /\ uart_tx_write /\ ~uart_tx_finished /\ ~instr_tx_finish
  /\ tx_left = 0 /\ tx_byte = Len(heard) + 1 /\ tx_byte <= TxLen
  /\ uart_tx_data \in U8

Outgoing ==
  /\ ~tx_req /\ ~uart_tx_write /\ ~uart_tx_finished
  /\ Released
  /\ tx_left > BitClk /\ tx_byte = Len(heard) + 1 /\ tx_byte <= TxLen
  /\ instr_tx_finish <=> tx_byte = TxLen
  /\ uart_tx_data \in U8
  /\ tx_left <= 9 * BitClk => tx_wire = uart_tx_data

\* The stop bit of a byte that is not the last, and the cycle after it.
Between ==
  /\ ~tx_req /\ ~uart_tx_write /\ ~instr_tx_finish
  /\ tx_byte = Len(heard) /\ tx_byte \in 1..(TxLen - 1)
  /\ \/ tx_left \in 1..BitClk /\ ~uart_tx_finished
     \/ tx_left = 0 /\ uart_tx_finished

Responding ==
  /\ Received /\ rx_byte = 0 /\ NoExec
  /\ Requested \/ Written \/ Outgoing \/ Between

-----------------------------------------------------------------------------

Phases ==
  Idle \/ Commanded \/ Finishing \/ Accessing \/ Running \/ Mute \/ Responding

PhaseInv == heard \in Seq(U8) /\ Phases
=============================================================================
