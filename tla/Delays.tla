------------------------------- MODULE Delays -------------------------------
(***************************************************************************)
(* The programs of c/ that send at a pace: time.c and uart_comm.c wait for *)
(* the timer of extra/timer.v, delay.c counts, uart.c does not wait.  A    *)
(* step is an edge of the board's clock; a program takes one of its steps  *)
(* at least every MaxLag edges, and the UART sends a byte in TxTime edges. *)
(***************************************************************************)
EXTENDS Integers

CONSTANTS TimeMod,     \* 2^32: the timer and unsigned int
          CLK_DIV,     \* edges per tick of the timer
          Period,      \* ticks to wait: 100000 in time.c, 1000 * x in delay_ms(x)
          MaxLag, TxTime,
          Spins        \* the count of delay_ms in delay.c, 167 * x * 16

VARIABLES div, timeval,
          program, ser_pc,
          t0, i,       \* the programs' variables
          tx_left,     \* edges until the transmitter is empty
          lag,         \* edges since the program's last step
          since,       \* ticks since t0 was read from the timer, -1 before
          waited       \* since when the program stopped waiting, -1 before

timerVars == <<div, timeval>>
serVars == <<program, ser_pc, t0, i, tx_left, lag, since, waited>>
delayVars == <<timerVars, serVars>>

Programs == {"time", "uart_comm", "delay", "uart"}

(* The longest wait the timer can tell from a short one: the longer of the *)
(* period and the time between reading t0 and looking again, and a lag.    *)
Longest ==
  LET away == TxTime + 4 * (MaxLag + 1)
  IN (IF Period > away THEN Period ELSE away) + MaxLag + 1

ASSUME TimerAssumption == /\ TimeMod \in Nat /\ Longest < TimeMod
                          /\ CLK_DIV \in Nat \ {0} /\ Period \in Nat \ {0}
                          /\ MaxLag \in Nat /\ TxTime \in Nat /\ Spins \in Nat

-----------------------------------------------------------------------------
(* The timer, which no reset touches.                                      *)

\* Mutant: the divider counts one too far.
TicksLate == div = CLK_DIV

Ticks == div = CLK_DIV - 1

TimerEdge ==
  /\ div' = IF Ticks THEN 0 ELSE div + 1
  /\ timeval' = IF Ticks THEN (timeval + 1) % TimeMod ELSE timeval

\* Bound: ticks are counted up to a turn of the timer.
Elapsed(n) == IF Ticks /\ n \in 0..(TimeMod - 1) THEN n + 1 ELSE n

-----------------------------------------------------------------------------
(* The programs.  A step of one is an access, made at an edge.             *)

\* while (!UART_TX_EMPTY); UART_DATA = data; and where each program goes on.
uart_send ==
  /\ ser_pc = "send"
  /\ IF tx_left = 0
     THEN /\ tx_left' = TxTime
          /\ ser_pc' = CASE program = "time" -> "wait"
                         [] program = "uart_comm" -> "mark"
                         [] program = "delay" -> "spin"
                         [] program = "uart" -> IF i = 9 THEN "halt" ELSE "send"
          /\ i' = IF program = "delay" THEN Spins ELSE IF program = "uart" THEN i + 1 ELSE i
     ELSE tx_left' = tx_left - 1 /\ UNCHANGED <<ser_pc, i>>
  /\ since' = Elapsed(since)
  /\ UNCHANGED <<t0, waited>>

\* The transmitter goes on by itself.
TxGoesOn == tx_left' = IF tx_left = 0 THEN 0 ELSE tx_left - 1

\* Mutant: the start of the wait is computed from the last one.
MarkAddsPeriod ==
  /\ ser_pc = "mark"
  /\ t0' = (t0 + Period) % TimeMod /\ since' = Elapsed(0)
  /\ ser_pc' = IF program = "time" THEN "send" ELSE "wait"
  /\ TxGoesOn
  /\ UNCHANGED <<i, waited>>

\* t0 = TIME;
Mark ==
  /\ ser_pc = "mark"
  /\ t0' = timeval /\ since' = Elapsed(0)
  /\ ser_pc' = IF program = "time" THEN "send" ELSE "wait"
  /\ TxGoesOn
  /\ UNCHANGED <<i, waited>>

\* Mutant: a comparison of the times themselves, which the wrap deceives.
WaitComparesTimes ==
  /\ ser_pc = "wait"
  /\ IF timeval < t0 + Period THEN UNCHANGED <<ser_pc, waited>>
     ELSE /\ waited' = since
          /\ ser_pc' = IF program = "time" THEN "mark" ELSE "send"
  /\ since' = Elapsed(since)
  /\ TxGoesOn
  /\ UNCHANGED <<t0, i>>

\* while (TIME - t0 < period);
Wait ==
  /\ ser_pc = "wait"
  /\ IF (timeval - t0) % TimeMod < Period THEN UNCHANGED <<ser_pc, waited>>
     ELSE /\ waited' = since
          /\ ser_pc' = IF program = "time" THEN "mark" ELSE "send"
  /\ since' = Elapsed(since)
  /\ TxGoesOn
  /\ UNCHANGED <<t0, i>>

\* while (i--);
Spin ==
  /\ ser_pc = "spin"
  /\ i' = i - 1
  /\ ser_pc' = IF i = 0 THEN "send" ELSE "spin"
  /\ since' = Elapsed(since)
  /\ TxGoesOn
  /\ UNCHANGED <<t0, waited>>

\* An edge without a step of the program, or after its end.
Computes ==
  /\ lag < MaxLag \/ ser_pc = "halt"
  /\ lag' = IF ser_pc = "halt" THEN lag ELSE lag + 1
  /\ since' = Elapsed(since)
  /\ TxGoesOn
  /\ UNCHANGED <<ser_pc, t0, i, waited>>

DelayNext ==
  /\ TimerEdge
  /\ UNCHANGED program
  /\ \/ (uart_send \/ Mark \/ Wait \/ Spin) /\ lag' = 0
     \/ Computes

\* A program starts at any time: a reset of the CPU leaves the timer and the UART alone.
Starts(p, t) ==
  /\ div = 0 /\ timeval = t
  /\ program = p
  /\ ser_pc = IF p = "time" THEN "wait" ELSE "send"
  /\ t0 = 0 /\ i = 0 /\ tx_left = 0 /\ lag = 0 /\ since = -1 /\ waited = -1

DelayInit == \E p \in Programs, t \in 0..(TimeMod - 1) : Starts(p, t)

DelaySpec == DelayInit /\ [][DelayNext]_delayVars /\ WF_delayVars(DelayNext)

-----------------------------------------------------------------------------

DelayTypeOK ==
  /\ div \in 0..(CLK_DIV - 1) /\ timeval \in 0..(TimeMod - 1)
  /\ program \in Programs /\ ser_pc \in {"send", "mark", "wait", "spin", "halt"}
  /\ t0 \in 0..(TimeMod - 1) /\ i \in Int
  /\ tx_left \in 0..TxTime /\ lag \in 0..MaxLag
  /\ since \in Int /\ waited \in Int

(* Once t0 has been read from the timer, a wait lasts its period, and at   *)
(* most a lag longer, also when the timer wraps meanwhile (time.c:19-20,   *)
(* uart_comm.c:11-12).                                                     *)
PeriodBounds == waited # -1 => Period <= waited /\ waited <= Longest

\* A byte is about to be sent, or the ten bytes of uart.c are.
Sends == IF program = "uart" THEN ser_pc = "halt" /\ i = 10 ELSE ser_pc = "send" /\ tx_left = 0
=============================================================================
