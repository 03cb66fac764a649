------------------------------ MODULE Benchmark -----------------------------
(***************************************************************************)
(* dhrystone/main.c around the benchmark: three free-running counters read *)
(* one after the other before and after it, and the clock frequency and    *)
(* the cycles per instruction computed from the differences in int.        *)
(***************************************************************************)
EXTENDS Integers

CONSTANTS CountMod,    \* 2^32: the counters, long and int
          Clocks,      \* the clock in MHz, also the edges of a timer tick
          Cpi,         \* cycles per instruction of the core
          Reading,     \* the most edges between two reads of counters
          Spread       \* the run lasts from Enough to Enough + Spread edges

\* Edges of a run long enough for round(), which divides by time / 10, and for the
\* edges between two reads not to count.
Enough(clock) == 20 * clock * clock + 10 * clock * Reading + 30 * (Cpi + Reading)

\* The longest a run takes with the reads around it.
Most(clock) == Enough(clock) + Spread + 6 * Reading

\* The differences fit an int, and a thousandth is small beside a twentieth of 1 / Cpi.
ASSUME CountAssumption ==
  /\ CountMod \in Nat /\ Reading \in Nat \ {0} /\ Spread \in Nat /\ Cpi \in 1..16
  /\ \A clock \in Clocks : clock \in Nat \ {0} /\ 2 * Most(clock) < CountMod

VARIABLES bench_pc,
          f_clk,                 \* the clock of the board
          edges,                 \* edges since power-up
          cycle, instr, TIME,    \* the counters: of the core twice, and the timer
          start, end,            \* what was read of them
          report

benchVars == <<bench_pc, f_clk, edges, cycle, instr, TIME, start, end, report>>

\* An int of the target.
Int32(n) == LET m == n % CountMod IN IF 2 * m >= CountMod THEN m - CountMod ELSE m

-----------------------------------------------------------------------------

\* Edges go by.
Elapse(n) ==
  LET passed(per) == (edges + n) \div per - edges \div per
  IN /\ edges' = edges + n
     /\ cycle' = (cycle + n) % CountMod
     /\ instr' = (instr + passed(Cpi)) % CountMod
     /\ TIME' = (TIME + passed(f_clk)) % CountMod

\* A statement of dhrystone_timer_start or _end: a counter is read, and time passes.
Read(here, next) ==
  /\ bench_pc = here /\ bench_pc' = next
  /\ \E n \in 1..Reading : Elapse(n)
  /\ UNCHANGED <<f_clk, report>>

dhrystone_timer_start ==
  /\ UNCHANGED end
  /\ \/ Read("start_cycle", "start_instr") /\ start' = [start EXCEPT !.cycle = cycle]
     \/ Read("start_instr", "start_time") /\ start' = [start EXCEPT !.instr = instr]
     \/ Read("start_time", "runs") /\ start' = [start EXCEPT !.time = TIME]

dhrystone_timer_end ==
  /\ UNCHANGED start
  /\ \/ Read("end_cycle", "end_instr") /\ end' = [end EXCEPT !.cycle = cycle]
     \/ Read("end_instr", "end_time") /\ end' = [end EXCEPT !.instr = instr]
     \/ Read("end_time", "main") /\ end' = [end EXCEPT !.time = TIME]

Runs ==
  /\ bench_pc = "runs" /\ bench_pc' = "end_cycle"
  /\ \E n \in Enough(f_clk)..(Enough(f_clk) + Spread) : Elapse(n)
  /\ UNCHANGED <<f_clk, start, end, report>>

\* Mutant: the remainder dropped.
roundDown(nom, denom) == (nom \div (denom \div 10)) \div 10

round(nom, denom) ==
  LET res_x10 == nom \div (denom \div 10)
  IN res_x10 \div 10 + (IF res_x10 % 10 >= 5 THEN 1 ELSE 0)

main ==
  /\ bench_pc = "main" /\ bench_pc' = "reported"
  /\ LET cycles == Int32(end.cycle - start.cycle)
         instrs == Int32(end.instr - start.instr)
         time_us == Int32(end.time - start.time)
     IN report' = [cpmi |-> (cycles * 1000) \div instrs,
                   ipmc |-> (instrs * 1000) \div cycles,
                   f_clk_mhz |-> round(cycles, time_us)]
  /\ UNCHANGED <<f_clk, edges, cycle, instr, TIME, start, end>>

\* while(1);
Stays == bench_pc = "reported" /\ UNCHANGED benchVars

BenchNext == dhrystone_timer_start \/ Runs \/ dhrystone_timer_end \/ main \/ Stays

\* A program starts at any place in a tick, with the counters anywhere.
Begins(clock, phase, count) ==
  /\ bench_pc = "start_cycle"
  /\ f_clk = clock /\ edges = phase
  /\ cycle = count /\ instr = count /\ TIME = count
  /\ start = [cycle |-> 0, instr |-> 0, time |-> 0] /\ end = start
  /\ report = [cpmi |-> 0, ipmc |-> 0, f_clk_mhz |-> 0]

BenchInit ==
  \E clock \in Clocks : \E phase \in 0..(clock - 1), count \in {0, CountMod \div 2, CountMod - 1} :
    Begins(clock, phase, count)

BenchSpec == BenchInit /\ [][BenchNext]_benchVars

-----------------------------------------------------------------------------

BenchTypeOK ==
  /\ f_clk \in Clocks /\ edges \in Nat
  /\ {cycle, instr, TIME} \subseteq 0..(CountMod - 1)
  /\ start \in [cycle : Nat, instr : Nat, time : Nat]
  /\ end \in [cycle : Nat, instr : Nat, time : Nat]
  /\ report \in [cpmi : Int, ipmc : Int, f_clk_mhz : Int]

\* To a twentieth.
Near(shown, exact) == 20 * shown \in (19 * exact)..(21 * exact)

(* The report names the clock of the board and its cycles per instruction, *)
(* the latter to a twentieth: neither the wraps of the counters, nor the   *)
(* edges between their reads, nor the place in a tick shows through the    *)
(* differences (main.c:58-60, 103-113) and round's division by a truncated *)
(* tenth (main.c:42-50).                                                   *)
ClockReported ==
  bench_pc = "reported" =>
    /\ report.f_clk_mhz = f_clk
    /\ Near(report.cpmi, 1000 * Cpi)
    /\ Near(Cpi * report.ipmc, 1000)
=============================================================================
