---------------------------- MODULE DbgProtocol -----------------------------
(***************************************************************************)
(* What the debug unit promises a host that asks one command at a time:    *)
(* each command has its effect on the address pointer, the memory and the  *)
(* CPU once, and its reply is heard whole before the next is asked.        *)
(***************************************************************************)
EXTENDS DbgCommands

VARIABLES asked,     \* the last command, <<>> when none or forgotten by a reset
          pending,   \* is it still without a reply?
          reply,     \* the bytes of the reply not yet heard
          heard,     \* those heard
          adr, mem, cpu_run, cpu_n_reset,
          cycles     \* cycles the CPU is still to run

vars == <<asked, pending, reply, heard, adr, mem, cpu_run, cpu_n_reset, cycles>>

host == <<asked, heard>>
cpu == <<cpu_run, cpu_n_reset, cycles>>

Init ==
  /\ asked = <<>> /\ pending = FALSE /\ reply = <<>> /\ heard = <<>>
  /\ adr \in Word
  /\ mem \in [0..(Cells - 1) -> Word]
  /\ cpu_run = TRUE /\ cpu_n_reset = FALSE /\ cycles = 0

\* A running CPU leaves its reset by itself, possibly during another step.
MayRelease ==
  \/ UNCHANGED cpu_n_reset
  \/ cpu_run /\ cpu_n_reset' = TRUE

Issue(c) ==
  /\ ~pending /\ reply = <<>>
  /\ asked' = c /\ pending' = TRUE /\ heard' = <<>>
  /\ MayRelease
  /\ UNCHANGED <<reply, adr, mem, cpu_run, cycles>>

Asked(i) == pending /\ asked[1] = i
Operand == SubSeq(asked, 2, 5)
Answer(bytes) == pending' = FALSE /\ reply' = bytes /\ UNCHANGED host

SetAddress ==
  /\ Asked(I_ADR_PTR_SET)
  /\ adr' = Operand
  /\ Answer(<<ACK>>)
  /\ UNCHANGED <<mem, cpu>>

GetAddress ==
  /\ Asked(I_ADR_PTR_GET)
  /\ Answer(adr)
  /\ UNCHANGED <<adr, mem, cpu>>

Store ==
  /\ Asked(I_MEM_WR)
  /\ mem' = [mem EXCEPT ![Cell(adr)] = Operand]
  /\ UNCHANGED <<pending, reply, host, adr, cpu>>

Stored ==
  /\ Asked(I_MEM_WR)
  /\ mem[Cell(adr)] = Operand
  /\ adr' = Add4(adr)
  /\ Answer(<<ACK>>)
  /\ UNCHANGED <<mem, cpu>>

Fetch ==
  /\ Asked(I_MEM_RD)
  /\ adr' = Add4(adr)
  /\ Answer(mem[Cell(adr)])
  /\ UNCHANGED <<mem, cpu>>

RunFor ==
  /\ Asked(I_CPU_RUN_CYC)
  /\ cycles = 0
  /\ cycles' = asked[2]
  /\ cpu_run' = TRUE
  /\ UNCHANGED <<pending, reply, host, adr, mem, cpu_n_reset>>

RunCycle ==
  /\ cycles > 1
  /\ cycles' = cycles - 1
  /\ MayRelease
  /\ UNCHANGED <<pending, reply, host, adr, mem, cpu_run>>

RunLast ==
  /\ Asked(I_CPU_RUN_CYC)
  /\ cycles = 1
  /\ cycles' = 0
  /\ cpu_run' = FALSE
  /\ MayRelease
  /\ Answer(<<ACK>>)
  /\ UNCHANGED <<adr, mem>>

ResetCpu ==
  /\ Asked(I_CPU_RESET)
  /\ cpu_n_reset' = FALSE
  /\ Answer(<<ACK>>)
  /\ UNCHANGED <<adr, mem, cpu_run, cycles>>

FreeRun ==
  /\ Asked(I_CPU_FREERUN)
  /\ cpu_run' = (asked[2] % 2 = 1)
  /\ Answer(<<ACK>>)
  /\ UNCHANGED <<adr, mem, cpu_n_reset, cycles>>

Release ==
  /\ cpu_run /\ cpu_n_reset' = TRUE
  /\ UNCHANGED <<pending, reply, host, adr, mem, cpu_run, cycles>>

Refuse ==
  /\ pending /\ asked[1] \notin Instructions
  /\ Answer(<<NAK>>)
  /\ UNCHANGED <<adr, mem, cpu>>

Hear ==
  /\ reply # <<>>
  /\ heard' = Append(heard, Head(reply))
  /\ reply' = Tail(reply)
  /\ UNCHANGED <<asked, pending, adr, mem, cpu>>

\* A reset of the board forgets the exchange; a store under way may be done.
Reset ==
  /\ asked' = <<>> /\ pending' = FALSE /\ reply' = <<>> /\ heard' = <<>>
  /\ cpu_run' = TRUE /\ cpu_n_reset' = FALSE /\ cycles' = 0
  /\ UNCHANGED adr
  /\ \/ UNCHANGED mem
     \/ Asked(I_MEM_WR) /\ mem' = [mem EXCEPT ![Cell(adr)] = Operand]

Serve ==
  \/ SetAddress \/ GetAddress \/ Store \/ Stored \/ Fetch
  \/ RunFor \/ RunCycle \/ RunLast \/ ResetCpu \/ FreeRun
  \/ Refuse \/ Hear

Next == Serve \/ Release \/ Reset \/ \E c \in Commands : Issue(c)

Safety == Init /\ [][Next]_vars

Spec == Safety /\ WF_vars(Serve) /\ WF_vars(Release)
=============================================================================
