---------------------------- MODULE ProgramProofs ---------------------------
(***************************************************************************)
(* What holds of the programs for every size: the waits of those that      *)
(* send at a pace, the blocks of malloc and the string functions, the      *)
(* report of Dhrystone and the figures of its frame, the sections at       *)
(* start-up and the breathing of an LED; at the end the ranges of all      *)
(* their variables, and the floating point unit among them.  Each image    *)
(* has an invariant of its own, which the others leave alone.              *)
(***************************************************************************)
EXTENDS Programs, HardwareProofs, StdlibProofs, TLAPS

-----------------------------------------------------------------------------
(* The programs that send at a pace.                                       *)

\* The wait is over within a lag of the longer of these.
Away == TxTime + 4 * (MaxLag + 1)
Budget == IF Period > Away THEN Period ELSE Away

PacedRanges ==
  /\ program \in Programs /\ (ser_pc = "spin" => program = "delay")
  /\ timeval \in 0..(TimeMod - 1) /\ t0 \in 0..(TimeMod - 1)
  /\ tx_left \in 0..TxTime /\ lag \in 0..MaxLag /\ since \in Int /\ since >= -1

\* The program is to look at the time since t0 again.
Counting == ser_pc = "wait" \/ (program = "time" /\ ser_pc = "send")

TimeAgrees ==
  Counting /\ since # -1 => timeval = t0 + since \/ timeval = t0 + since - TimeMod

InTime ==
  /\ program = "time" /\ ser_pc = "send" =>
       since + tx_left <= TxTime + 1 + IF tx_left = 0 THEN lag ELSE 0
  /\ ser_pc = "wait" => since <= Budget + lag

PacedInv == PacedRanges /\ TimeAgrees /\ InTime /\ PeriodBounds

LEMMA PaceBounds ==
  /\ TimeMod \in Nat /\ Period \in Nat /\ Period >= 1 /\ MaxLag \in Nat /\ TxTime \in Nat
  /\ Budget \in Nat /\ Budget >= Period /\ Budget >= TxTime + 4 * MaxLag + 4
  /\ Longest = Budget + MaxLag + 1 /\ Longest < TimeMod
BY TimerAssumption DEF Longest, Budget, Away

LEMMA Turn ==
  ASSUME NEW M \in Nat, NEW n \in 0..(M - 1)
  PROVE  n % M = n /\ (n - M) % M = n /\ (n + M) % M = n
<1>1. M > 0
  OBVIOUS
<1>2. ASSUME NEW m \in Int, NEW q \in Int, m = q * M + n
      PROVE  m % M = n
  <2> DEFINE d == m \div M
  <2>1. d \in Int /\ m = M * d + (m % M) /\ m % M \in 0..(M - 1)
    BY <1>1, <1>2
  <2> HIDE DEF d
  <2>2. CASE d <= q - 1
    <3>1. M * (q - 1 - d) >= 0
      BY <1>1, <2>1, <2>2
    <3> QED BY <1>2, <2>1, <3>1
  <2>3. CASE d >= q + 1
    <3>1. M * (d - q - 1) >= 0
      BY <1>1, <2>1, <2>3
    <3> QED BY <1>2, <2>1, <3>1
  <2> QED BY <1>2, <2>1, <2>2, <2>3
<1>3. n = 0 * M + n /\ n - M = (-1) * M + n /\ n + M = 1 * M + n
  OBVIOUS
<1> QED BY <1>2, <1>3
\* The timer and the count of its ticks go on together.
LEMMA TimerGoesOn ==
  ASSUME PacedInv, TimerEdge
  PROVE  /\ timeval' \in 0..(TimeMod - 1)
         /\ Elapsed(0) \in {0, 1}
         /\ timeval' = timeval + Elapsed(0) \/ timeval' = timeval + Elapsed(0) - TimeMod
         /\ Elapsed(since) \in Int /\ Elapsed(since) >= -1 /\ Elapsed(since) <= since + 1
         /\ Elapsed(since) = -1 <=> since = -1
         /\ since \in 0..(TimeMod - 1) => Elapsed(since) = since + Elapsed(0)
<1> USE PaceBounds DEF PacedInv, PacedRanges
<1>1. CASE Ticks
  <2>1. timeval' = (timeval + 1) % TimeMod
    BY <1>1 DEF TimerEdge
  <2>2. CASE timeval + 1 = TimeMod
    <3>1. TimeMod % TimeMod = 0
      BY Turn, PaceBounds
    <3> QED BY <1>1, <2>1, <2>2, <3>1 DEF Elapsed
  <2>3. CASE timeval + 1 < TimeMod
    <3>1. (timeval + 1) % TimeMod = timeval + 1
      BY <2>3, Turn
    <3> QED BY <1>1, <2>1, <2>3, <3>1 DEF Elapsed
  <2> QED BY <2>2, <2>3
<1>2. CASE ~Ticks
  BY <1>2 DEF TimerEdge, Elapsed
<1> QED BY <1>1, <1>2

\* As long as the program has not looked for longer than the timer can tell.
LEMMA CountingInTurn ==
  ASSUME PacedInv, Counting, since # -1
  PROVE  since \in 0..(TimeMod - 1)
BY PaceBounds DEF PacedInv, PacedRanges, Counting, InTime

LEMMA AgreesOn ==
  ASSUME PacedInv, TimerEdge, since' = Elapsed(since), t0' = t0, PacedRanges', Counting
  PROVE  since' # -1 => timeval' = t0' + since' \/ timeval' = t0' + since' - TimeMod
<1> SUFFICES ASSUME since' # -1
             PROVE  timeval' = t0' + since' \/ timeval' = t0' + since' - TimeMod
  OBVIOUS
<1>1. since # -1
  BY TimerGoesOn
<1>2. since \in 0..(TimeMod - 1)
  BY <1>1, CountingInTurn
<1>3. since' = since + Elapsed(0)
  BY <1>2, TimerGoesOn
<1>4. timeval = t0 + since \/ timeval = t0 + since - TimeMod
  BY <1>1 DEF PacedInv, TimeAgrees
<1>5. since' < TimeMod
  BY <1>1, <1>3, TimerGoesOn, PaceBounds DEF PacedInv, PacedRanges, InTime, Counting
<1> QED BY <1>2, <1>3, <1>4, <1>5, TimerGoesOn, PaceBounds DEF PacedInv, PacedRanges

LEMMA PacedStep ==
  ASSUME PacedInv, DelayNext
  PROVE  PacedInv'
<1> USE PaceBounds DEF PacedInv, PacedRanges, DelayNext
<1>1. TimerEdge /\ program' = program
  OBVIOUS
<1>2. CASE uart_send /\ lag' = 0
  <2>1. ser_pc = "send" /\ since' = Elapsed(since) /\ t0' = t0 /\ waited' = waited
        /\ IF tx_left = 0 THEN tx_left' = TxTime ELSE tx_left' = tx_left - 1
    BY <1>2 DEF uart_send
  <2>3. tx_left # 0 => ser_pc' = "send"
    BY <1>2 DEF uart_send
  <2>4. tx_left = 0 => /\ program = "time" => ser_pc' = "wait"
                       /\ ser_pc' = "wait" => program = "time"
                       /\ ser_pc' = "spin" => program = "delay"
    BY <1>2 DEF uart_send, Programs
  <2>2. PacedRanges'
    BY <1>1, <1>2, <2>1, <2>3, <2>4, TimerGoesOn
  <2>5. PeriodBounds'
    BY <2>1 DEF PeriodBounds
  <2>6. TimeAgrees'
    BY <1>1, <2>1, <2>2, <2>3, <2>4, AgreesOn DEF TimeAgrees, Counting
  <2>7. InTime'
    BY <1>1, <1>2, <2>1, <2>3, <2>4, TimerGoesOn DEF InTime
  <2> QED BY <2>2, <2>5, <2>6, <2>7
<1>3. CASE Mark /\ lag' = 0
  <2>1. /\ t0' = timeval /\ since' = Elapsed(0) /\ waited' = waited
        /\ ser_pc' = IF program = "time" THEN "send" ELSE "wait"
        /\ tx_left' = IF tx_left = 0 THEN 0 ELSE tx_left - 1
    BY <1>3 DEF Mark, TxGoesOn
  <2>2. PacedRanges'
    BY <1>1, <1>3, <2>1, TimerGoesOn
  <2>3. TimeAgrees'
    BY <1>1, <2>1, TimerGoesOn DEF TimeAgrees
  <2>4. InTime' /\ PeriodBounds'
    BY <1>1, <1>3, <2>1, TimerGoesOn DEF InTime, PeriodBounds
  <2> QED BY <2>2, <2>3, <2>4
<1>4. CASE Wait /\ lag' = 0
  <2>1. /\ ser_pc = "wait" /\ ser_pc' \in {"wait", "mark", "send"}
        /\ t0' = t0 /\ since' = Elapsed(since)
        /\ tx_left' = IF tx_left = 0 THEN 0 ELSE tx_left - 1
    BY <1>4 DEF Wait, TxGoesOn
  <2>2. PacedRanges'
    BY <1>1, <1>4, <2>1, TimerGoesOn
  <2>3. since # -1 => since \in 0..(TimeMod - 1) /\ (timeval - t0) % TimeMod = since
    <3> SUFFICES ASSUME since # -1
                 PROVE  since \in 0..(TimeMod - 1) /\ (timeval - t0) % TimeMod = since
      OBVIOUS
    <3>1. since \in 0..(TimeMod - 1)
      BY <2>1, CountingInTurn DEF Counting
    <3>2. timeval - t0 = since \/ timeval - t0 = since - TimeMod
      BY <2>1, <3>1 DEF TimeAgrees, Counting
    <3> QED BY <3>1, <3>2, Turn
  <2>4. CASE (timeval - t0) % TimeMod < Period
    <3>1. ser_pc' = ser_pc /\ waited' = waited
      BY <1>4, <2>4 DEF Wait
    <3>2. since < Period
      BY <2>3, <2>4
    <3>3. TimeAgrees'
      BY <1>1, <2>1, <2>2, AgreesOn DEF TimeAgrees, Counting
    <3>4. InTime' /\ PeriodBounds'
      BY <1>1, <1>4, <2>1, <3>1, <3>2, TimerGoesOn DEF InTime, PeriodBounds
    <3> QED BY <2>2, <3>3, <3>4
  <2>5. CASE ~((timeval - t0) % TimeMod < Period)
    <3>1. waited' = since /\ ser_pc' = IF program = "time" THEN "mark" ELSE "send"
      BY <1>4, <2>5 DEF Wait
    <3>2. since # -1 => Period <= since
      BY <2>3, <2>5
    <3>3. since <= Longest
      BY <2>1 DEF InTime
    <3>4. PeriodBounds'
      BY <3>1, <3>2, <3>3 DEF PeriodBounds
    <3>5. TimeAgrees' /\ InTime'
      BY <1>1, <3>1 DEF TimeAgrees, InTime, Counting
    <3> QED BY <2>2, <3>4, <3>5
  <2> QED BY <2>4, <2>5
<1>5. CASE Spin /\ lag' = 0
  <2>1. /\ ser_pc = "spin" /\ ser_pc' \in {"send", "spin"} /\ t0' = t0 /\ since' = Elapsed(since)
        /\ waited' = waited /\ tx_left' = IF tx_left = 0 THEN 0 ELSE tx_left - 1
    BY <1>5 DEF Spin, TxGoesOn
  <2>2. PacedRanges'
    BY <1>1, <1>5, <2>1, TimerGoesOn
  <2>3. program' # "time" /\ ser_pc' # "wait"
    BY <1>1, <2>1
  <2> QED BY <2>1, <2>2, <2>3 DEF TimeAgrees, InTime, Counting, PeriodBounds
<1>6. CASE Computes
  <2>1. /\ ser_pc' = ser_pc /\ t0' = t0 /\ since' = Elapsed(since) /\ waited' = waited
        /\ tx_left' = IF tx_left = 0 THEN 0 ELSE tx_left - 1
        /\ ser_pc # "halt" => lag' = lag + 1
        /\ lag' \in 0..MaxLag
    BY <1>6 DEF Computes, TxGoesOn
  <2>2. PacedRanges'
    BY <1>1, <2>1, TimerGoesOn
  <2>3. TimeAgrees'
    BY <1>1, <2>1, <2>2, AgreesOn DEF TimeAgrees, Counting
  <2>4. InTime' /\ PeriodBounds'
    BY <1>1, <2>1, TimerGoesOn DEF InTime, PeriodBounds
  <2> QED BY <2>2, <2>3, <2>4
<1> QED BY <1>2, <1>3, <1>4, <1>5, <1>6

LEMMA PacedKept == PacedInv /\ UNCHANGED delayVars => PacedInv'
BY DEF delayVars, timerVars, serVars, PacedInv, PacedRanges, TimeAgrees, InTime, Counting, PeriodBounds

LEMMA PacedStart == ProgramsInit => PacedInv
<1>1. ASSUME NEW p \in Programs, NEW t \in 0..(TimeMod - 1), Starts(p, t)
      PROVE  PacedInv
  BY <1>1, PaceBounds DEF Starts, PacedInv, PacedRanges, TimeAgrees, InTime, Counting, PeriodBounds
<1>2. "uart" \in Programs /\ 0 \in 0..(TimeMod - 1)
  BY PaceBounds DEF Programs
<1> QED BY <1>1, <1>2 DEF ProgramsInit, DelayInit, DelayAbsent

\* Whatever the period, the time a byte takes and the pace of the program: no
\* wait ends before its period, or more than a lag after it, across any number
\* of wraps of the timer (time.c:16-23, uart_comm.c:8-13).
THEOREM PeriodsKept == ProgramsSpec => []PeriodBounds
<1>1. PacedInv /\ [ProgramsNext]_programsVars => PacedInv'
  BY PacedStep, PacedKept DEF ProgramsNext, programsVars
<1>2. PacedInv => PeriodBounds
  BY DEF PacedInv
<1> QED BY PacedStart, <1>1, <1>2, PTL DEF ProgramsSpec

-----------------------------------------------------------------------------
(* malloc.                                                                 *)

\* The blocks fill the memory from its start.
HeapInv ==
  /\ heap_memory_used \in Nat
  /\ lib_pc = "malloc" => heap_memory_used <= HeapSize
  /\ \A b \in blocks : /\ b[1] \in Nat /\ b[2] \in Nat
                       /\ b[1] + b[2] <= heap_memory_used /\ b[1] + b[2] <= HeapSize
  /\ BlocksApart

LEMMA HeapStart == ProgramsInit => HeapInv
<1>1. ASSUME NEW function, NEW m, NEW d, NEW s, LibCalled(function, m, d, s)
      PROVE  HeapInv
  BY <1>1, HeapAssumption DEF LibCalled, HeapInv, BlocksApart
<1> QED BY <1>1 DEF ProgramsInit, LibInit, LibAbsent

LEMMA HeapKept == HeapInv /\ UNCHANGED mallocVars /\ (lib_pc' = "malloc" => lib_pc = "malloc") => HeapInv'
BY DEF mallocVars, HeapInv, BlocksApart

LEMMA MallocStep ==
  ASSUME HeapInv, NEW size \in Sizes, Malloc(size)
  PROVE  HeapInv'
<1> USE HeapAssumption DEF HeapInv
<1>1. size \in Nat /\ heap_memory_used' = heap_memory_used + size /\ lib_pc = "malloc"
  BY DEF Malloc
<1>2. CASE heap_memory_used + size > HeapSize
  <2>1. blocks' = blocks /\ lib_pc' = "ebreak"
    BY <1>2 DEF Malloc
  <2> QED BY <1>1, <2>1 DEF BlocksApart
<1>3. CASE ~(heap_memory_used + size > HeapSize)
  <2>1. lib_pc' = lib_pc /\ blocks' = blocks \union {<<heap_memory_used, size>>}
    BY <1>3 DEF Malloc
  <2>2. \A b \in blocks' : /\ b[1] \in Nat /\ b[2] \in Nat
                           /\ b[1] + b[2] <= heap_memory_used' /\ b[1] + b[2] <= HeapSize
    BY <1>1, <1>3, <2>1
  <2>3. BlocksApart'
    <3> SUFFICES ASSUME NEW b1 \in blocks', NEW b2 \in blocks', b1 # b2
                 PROVE  b1[1] + b1[2] <= b2[1] \/ b2[1] + b2[2] <= b1[1]
      BY <2>2 DEF BlocksApart
    <3>1. CASE b1 \in blocks /\ b2 \in blocks
      BY <3>1 DEF BlocksApart
    <3>2. CASE b1 = <<heap_memory_used, size>> /\ b2 \in blocks
      BY <3>2
    <3>3. CASE b2 = <<heap_memory_used, size>> /\ b1 \in blocks
      BY <3>3
    <3> QED BY <2>1, <3>1, <3>2, <3>3
  <2> QED BY <1>1, <1>3, <2>1, <2>2, <2>3
<1> QED BY <1>2, <1>3

LEMMA LibStep == HeapInv /\ LibNext => HeapInv'
<1> SUFFICES ASSUME HeapInv, LibNext PROVE HeapInv'
  OBVIOUS
<1>1. CASE CopyChar \/ CopyWord \/ CompareChar \/ CompareWord
  <2>1. UNCHANGED mallocVars /\ lib_pc \in {"strcpy", "strcmp"} /\ lib_pc' \in {lib_pc, "returned"}
    BY <1>1 DEF CopyChar, CopyWord, CompareChar, CompareWord, GoOn, Return
  <2> QED BY <2>1, HeapKept
<1>2. CASE LibEnds
  BY <1>2, HeapKept DEF LibEnds, libVars
<1> QED BY <1>1, <1>2, MallocStep DEF LibNext

\* Whatever the size of the memory and of the blocks asked for, and however
\* many: no block reaches into another or past the end (stdlib.c:14-22).
THEOREM BlocksKeptApart == ProgramsSpec => []BlocksApart
<1>1. HeapInv /\ [ProgramsNext]_programsVars => HeapInv'
  BY LibStep, HeapKept DEF ProgramsNext, programsVars, libVars
<1>2. HeapInv => BlocksApart
  BY DEF HeapInv
<1> QED BY HeapStart, <1>1, <1>2, PTL DEF ProgramsSpec

-----------------------------------------------------------------------------
(* Dhrystone.  What the variables hold, at the points of a run, of what    *)
(* the report depends on.                                                  *)

GlobalFields == {"Int_Glob", "Bool_Glob", "Ch_1_Glob", "Ch_2_Glob", "Ptr_Glob", "Next_Ptr_Glob"}
LocalFields == {"Int_1_Loc", "Int_2_Loc", "Int_3_Loc", "Enum_Loc", "Str_1_Loc", "Str_2_Loc"}
RecordFields == {"Ptr_Comp", "Discr", "Enum_Comp", "Int_Comp", "Str_Comp"}

GlobalsAre(g, bool, ch_1, ch_2) ==
  /\ DOMAIN g = GlobalFields /\ g.Bool_Glob = bool /\ g.Ch_1_Glob = ch_1 /\ g.Ch_2_Glob = ch_2
  /\ g.Ptr_Glob = 2 /\ g.Next_Ptr_Glob = 1
LocalsAre(l, int_1, int_2) ==
  /\ DOMAIN l = LocalFields /\ l.Int_1_Loc = int_1 /\ l.Int_2_Loc = int_2 /\ l.Str_1_Loc = 1
RecordIs(r, enum, int) ==
  /\ DOMAIN r = RecordFields
  /\ r.Ptr_Comp = 1 /\ r.Discr = 0 /\ r.Enum_Comp = enum /\ r.Int_Comp = int /\ r.Str_Comp = 4

\* The record before Proc_1 copies it over the other, and both after it.
HeapReady ==
  /\ DOMAIN heap = {1, 2} /\ DOMAIN heap[1] = RecordFields
  /\ RecordIs(heap[2], 2, heap[2].Int_Comp)
HeapRun == DOMAIN heap = {1, 2} /\ RecordIs(heap[1], 1, 18) /\ RecordIs(heap[2], 2, 17)

\* Before the first run, and after every run.
Fresh == DOMAIN glob = GlobalFields /\ glob.Ptr_Glob = 2 /\ glob.Next_Ptr_Glob = 1
         /\ DOMAIN loc = LocalFields /\ loc.Str_1_Loc = 1
Settled ==
  /\ GlobalsAre(glob, 1, 65, 66) /\ glob.Int_Glob = 5
  /\ LocalsAre(loc, 5, 13) /\ loc.Int_3_Loc = 7 /\ loc.Enum_Loc = 1 /\ loc.Str_2_Loc = 2
  /\ HeapRun /\ Arr_1_Glob[8] = 7

AtInit == dhry_pc = "init" => Number_Of_Runs \in RunCounts /\ DhryCalled(Number_Of_Runs)
AtRun == dhry_pc = "run" =>
  /\ Run_Index \in 1..(Number_Of_Runs + 1)
  /\ Arr_2_Glob[8][7] = 9 + Run_Index
  /\ Fresh /\ HeapReady /\ (Run_Index = 1 \/ Settled)
AtWhile == dhry_pc = "while" =>
  /\ Run_Index \in 1..Number_Of_Runs
  /\ Arr_2_Glob[8][7] = 9 + Run_Index
  /\ GlobalsAre(glob, 1, 65, 66) /\ HeapReady
  /\ LocalsAre(loc, 2, 3) \/ (LocalsAre(loc, 3, 3) /\ loc.Int_3_Loc = 7)
  /\ loc.Enum_Loc = 1 /\ loc.Str_2_Loc = 2
AtRest == dhry_pc \in {"proc_1", "for"} =>
  /\ Run_Index \in 1..Number_Of_Runs
  /\ Arr_2_Glob[8][7] = 10 + Run_Index /\ Arr_1_Glob[8] = 7
  /\ GlobalsAre(glob, 1, 65, 66) /\ glob.Int_Glob = 5
  /\ LocalsAre(loc, 3, 3) /\ loc.Int_3_Loc = 7 /\ loc.Enum_Loc = 1 /\ loc.Str_2_Loc = 2
  /\ HeapReady /\ (dhry_pc = "for" => HeapRun)
AtFor == dhry_pc = "for" => Ch_Index \in 65..67
AtReport == dhry_pc = "report" => Arr_2_Glob[8][7] = 10 + Number_Of_Runs /\ Settled

DhryInv ==
  /\ dhry_pc \in {"init", "run", "while", "proc_1", "for", "report"} =>
       Number_Of_Runs \in RunCounts /\ Arr_1_Glob \in Arr_1_Dim /\ Arr_2_Glob \in Arr_2_Dim
  /\ AtInit /\ AtRun /\ AtWhile /\ AtRest /\ AtFor /\ AtReport

LEMMA RunBounds ==
  ASSUME NEW runs \in RunCounts
  PROVE  runs \in Int /\ runs >= 1 /\ runs <= INT_MAX - 10 /\ INT_MAX \in Nat
BY IntAssumption, RunsAssumption

LEMMA InitializeStep == DhryInv /\ Initialize => DhryInv'
<1> SUFFICES ASSUME DhryInv, Initialize PROVE DhryInv'
  OBVIOUS
<1>1. DhryCalled(Number_Of_Runs) /\ Number_Of_Runs \in RunCounts /\ Number_Of_Runs >= 1
      /\ Number_Of_Runs \in Int
  BY RunBounds DEF DhryInv, AtInit, Initialize
<1>2. Arr_2_Glob' \in Arr_2_Dim /\ Arr_2_Glob'[8][7] = 10 /\ Arr_1_Glob' \in Arr_1_Dim
  <2>1. Arr_2_Glob \in Arr_2_Dim /\ Arr_1_Glob \in Arr_1_Dim
    BY <1>1 DEF DhryCalled, Arr_1_Dim, Arr_2_Dim
  <2>2. Arr_2_Glob' = [Arr_2_Glob EXCEPT ![8][7] = 10] /\ Arr_1_Glob' = Arr_1_Glob
    BY DEF Initialize
  <2>3. Arr_2_Glob[8] \in [0..49 -> Int] /\ 8 \in 0..49 /\ 7 \in 0..49
    BY <2>1 DEF Arr_2_Dim
  <2> QED BY <2>1, <2>2, <2>3 DEF Arr_2_Dim
<1>3. Fresh'
  BY <1>1 DEF DhryCalled, Initialize, Fresh, GlobalFields, LocalFields, String
<1>4. HeapReady'
  BY <1>1 DEF DhryCalled, Initialize, HeapReady, RecordIs, RecordFields, Rec_Pointer,
              Ident_1, Ident_3, Some
<1>5. dhry_pc' = "run" /\ Run_Index' = 1 /\ Number_Of_Runs' = Number_Of_Runs
  BY DEF Initialize
<1> QED BY <1>1, <1>2, <1>3, <1>4, <1>5
        DEF DhryInv, AtInit, AtRun, AtWhile, AtRest, AtFor, AtReport

LEMMA BeginRunStep == DhryInv /\ BeginRun => DhryInv'
<1> SUFFICES ASSUME DhryInv, BeginRun PROVE DhryInv'
  OBVIOUS
<1>1. /\ Number_Of_Runs \in RunCounts /\ Number_Of_Runs \in Int
      /\ Run_Index \in 1..Number_Of_Runs /\ Arr_2_Glob[8][7] = 9 + Run_Index
      /\ Arr_1_Glob \in Arr_1_Dim /\ Arr_2_Glob \in Arr_2_Dim /\ Fresh /\ HeapReady
  BY RunBounds DEF DhryInv, AtRun, BeginRun
<1>2. GlobalsAre(glob', 1, 65, 66)
  <2> DEFINE g5 == Proc_5(glob)
             g4 == Proc_4(g5)
  <2>1. DOMAIN g5 = GlobalFields /\ g5.Ch_1_Glob = 65 /\ g5.Ptr_Glob = 2 /\ g5.Next_Ptr_Glob = 1
    BY <1>1 DEF Fresh, Proc_5, GlobalFields
  <2> HIDE DEF g5
  <2>2. /\ DOMAIN g4 = GlobalFields /\ g4.Ch_1_Glob = 65 /\ g4.Ch_2_Glob = 66
        /\ g4.Ptr_Glob = 2 /\ g4.Next_Ptr_Glob = 1
    BY <2>1 DEF Proc_4, GlobalFields
  <2>3. ~Func_2(loc.Str_1_Loc, String(2))
    BY <1>1 DEF Fresh, Func_2, String
  <2>4. glob' = [g4 EXCEPT !.Bool_Glob = 1]
    BY <2>3 DEF BeginRun, AfterFunc_2, g5
  <2> HIDE DEF g4
  <2> QED BY <2>2, <2>4 DEF GlobalsAre, GlobalFields
<1>3. LocalsAre(loc', 2, 3) /\ loc'.Enum_Loc = 1 /\ loc'.Str_2_Loc = 2
  BY <1>1 DEF BeginRun, Fresh, LocalsAre, LocalFields, String, Ident_2
<1>4. /\ dhry_pc' = "while" /\ Number_Of_Runs' = Number_Of_Runs /\ Run_Index' = Run_Index
      /\ Arr_1_Glob' = Arr_1_Glob /\ Arr_2_Glob' = Arr_2_Glob /\ heap' = heap
  BY DEF BeginRun
<1> QED BY <1>1, <1>2, <1>3, <1>4
        DEF DhryInv, AtInit, AtRun, AtWhile, AtRest, AtFor, AtReport, HeapReady

LEMMA WhileBodyStep == DhryInv /\ WhileBody => DhryInv'
<1> SUFFICES ASSUME DhryInv, WhileBody PROVE DhryInv'
  OBVIOUS
<1>1. LocalsAre(loc, 2, 3) /\ loc.Enum_Loc = 1 /\ loc.Str_2_Loc = 2
  BY DEF DhryInv, AtWhile, WhileBody, LocalsAre
<1>2. LocalsAre(loc', 3, 3) /\ loc'.Int_3_Loc = 7 /\ loc'.Enum_Loc = 1 /\ loc'.Str_2_Loc = 2
  BY <1>1 DEF WhileBody, LocalsAre, LocalFields, Proc_7
<1> QED BY <1>2 DEF WhileBody, DhryInv, AtInit, AtRun, AtWhile, AtRest, AtFor, AtReport, HeapReady

LEMMA Proc_8Step == DhryInv /\ CallProc_8 => DhryInv'
<1> SUFFICES ASSUME DhryInv, CallProc_8 PROVE DhryInv'
  OBVIOUS
<1>1. /\ Number_Of_Runs \in RunCounts /\ Number_Of_Runs \in Int /\ Number_Of_Runs <= INT_MAX - 10
      /\ INT_MAX \in Nat /\ Run_Index \in 1..Number_Of_Runs /\ Arr_2_Glob[8][7] = 9 + Run_Index
      /\ Arr_1_Glob \in Arr_1_Dim /\ Arr_2_Glob \in Arr_2_Dim
      /\ GlobalsAre(glob, 1, 65, 66) /\ HeapReady
  BY RunBounds DEF DhryInv, AtWhile, CallProc_8
<1>2. LocalsAre(loc, 3, 3) /\ loc.Int_3_Loc = 7 /\ loc.Enum_Loc = 1 /\ loc.Str_2_Loc = 2
  BY DEF DhryInv, AtWhile, CallProc_8, LocalsAre
<1>3. loc.Int_1_Loc = 3 /\ loc.Int_3_Loc = 7
  BY <1>2 DEF LocalsAre
<1>4. Arr_1_Glob' \in Arr_1_Dim /\ Arr_1_Glob'[8] = 7
  BY <1>1, <1>3 DEF CallProc_8, Proc_8Arr_1, Arr_1_Dim
<1>5. Arr_2_Glob' \in Arr_2_Dim /\ Arr_2_Glob'[8][7] = 10 + Run_Index
  <2> DEFINE row == [Arr_2_Glob[8] EXCEPT ![8] = 8, ![9] = 8, ![7] = ToInt(@ + 1)]
  <2>1. ToInt(Arr_2_Glob[8][7] + 1) = 10 + Run_Index
    BY <1>1 DEF ToInt
  <2>2. Arr_2_Glob[8] \in [0..49 -> Int]
    BY <1>1 DEF Arr_2_Dim
  <2>3. row \in [0..49 -> Int] /\ row[7] = 10 + Run_Index
    BY <1>1, <2>1, <2>2
  <2>4. Arr_2_Glob' = [Arr_2_Glob EXCEPT ![8] = row, ![28][8] = 7]
    BY <1>3 DEF CallProc_8, Proc_8Arr_2
  <2> HIDE DEF row
  <2> DEFINE first == [Arr_2_Glob EXCEPT ![8] = row]
  <2>5. first \in Arr_2_Dim /\ first[8] = row
    BY <1>1, <2>3 DEF Arr_2_Dim
  <2>6. Arr_2_Glob' = [first EXCEPT ![28][8] = 7]
    BY <2>4
  <2> HIDE DEF first
  <2>7. first[28] \in [0..49 -> Int]
    BY <2>5 DEF Arr_2_Dim
  <2>8. [first[28] EXCEPT ![8] = 7] \in [0..49 -> Int]
    BY <2>7
  <2>9. Arr_2_Glob' = [first EXCEPT ![28] = [first[28] EXCEPT ![8] = 7]]
    BY <2>6
  <2>10. Arr_2_Glob' \in Arr_2_Dim
    BY <2>5, <2>8, <2>9 DEF Arr_2_Dim
  <2>11. Arr_2_Glob'[8] = row
    BY <2>5, <2>9 DEF Arr_2_Dim
  <2> QED BY <2>3, <2>10, <2>11
<1>6. GlobalsAre(glob', 1, 65, 66) /\ glob'.Int_Glob = 5
  BY <1>1 DEF CallProc_8, GlobalsAre, GlobalFields
<1>7. /\ dhry_pc' = "proc_1" /\ Number_Of_Runs' = Number_Of_Runs /\ Run_Index' = Run_Index
      /\ heap' = heap /\ loc' = loc
  BY DEF CallProc_8
<1> QED BY <1>1, <1>2, <1>4, <1>5, <1>6, <1>7
        DEF DhryInv, AtInit, AtRun, AtWhile, AtRest, AtFor, AtReport, HeapReady

\* The heap in Proc_1 with the two records of the program, statement by statement.
CopiedHeap == [heap EXCEPT ![1] = [heap[2] EXCEPT !.Int_Comp = 5], ![2].Int_Comp = 5]
LinkedHeap == [CopiedHeap EXCEPT ![1].Ptr_Comp = CopiedHeap[2].Ptr_Comp]
HeapAfterProc_3 == Proc_3(LinkedHeap, 1, glob)

LEMMA Proc_1Unfolds ==
  ASSUME heap[2].Ptr_Comp = 1, glob.Ptr_Glob = 2, glob.Int_Glob = 5
  PROVE  Proc_1(heap, 2, glob) =
           IF HeapAfterProc_3[1].Discr = Ident_1
           THEN [HeapAfterProc_3 EXCEPT ![1].Enum_Comp = Proc_6(HeapAfterProc_3[2].Enum_Comp, 5),
                                        ![1].Ptr_Comp = HeapAfterProc_3[2].Ptr_Comp,
                                        ![1].Int_Comp = Proc_7(6, 10)]
           ELSE [HeapAfterProc_3 EXCEPT ![2] = HeapAfterProc_3[HeapAfterProc_3[2].Ptr_Comp]]
<1> DEFINE c(n, q) == [heap EXCEPT ![n] = [heap[q] EXCEPT !.Int_Comp = 5], ![2].Int_Comp = 5]
           l(n, q) == [c(n, q) EXCEPT ![n].Ptr_Comp = c(n, q)[2].Ptr_Comp]
           t(n, q) == Proc_3(l(n, q), n, glob)
           all(n, q, k) == IF t(n, q)[n].Discr = Ident_1
                           THEN [t(n, q) EXCEPT ![n].Enum_Comp = Proc_6(t(n, q)[2].Enum_Comp, k),
                                                ![n].Ptr_Comp = t(n, q)[q].Ptr_Comp,
                                                ![n].Int_Comp = Proc_7(6, 10)]
                           ELSE [t(n, q) EXCEPT ![2] = t(n, q)[t(n, q)[2].Ptr_Comp]]
<1>1. Proc_1(heap, 2, glob) = all(heap[2].Ptr_Comp, glob.Ptr_Glob, glob.Int_Glob)
  BY Zenon DEF Proc_1
<1>2. t(1, 2) = HeapAfterProc_3
  BY Zenon DEF CopiedHeap, LinkedHeap, HeapAfterProc_3
<1> HIDE DEF t
<1>3. all(heap[2].Ptr_Comp, glob.Ptr_Glob, glob.Int_Glob) = all(1, 2, 5)
  <2> HIDE DEF all
  <2> QED BY Zenon
<1> QED BY <1>1, <1>2, <1>3, Zenon

LEMMA Proc_1Step == DhryInv /\ CallProc_1 => DhryInv'
<1> SUFFICES ASSUME DhryInv, CallProc_1 PROVE DhryInv'
  OBVIOUS
<1>1. /\ Number_Of_Runs \in RunCounts /\ Run_Index \in 1..Number_Of_Runs
      /\ Arr_2_Glob[8][7] = 10 + Run_Index /\ Arr_1_Glob[8] = 7
      /\ Arr_1_Glob \in Arr_1_Dim /\ Arr_2_Glob \in Arr_2_Dim
      /\ GlobalsAre(glob, 1, 65, 66) /\ glob.Int_Glob = 5
      /\ LocalsAre(loc, 3, 3) /\ loc.Int_3_Loc = 7 /\ loc.Enum_Loc = 1 /\ loc.Str_2_Loc = 2
      /\ HeapReady
  BY DEF DhryInv, AtRest, CallProc_1
<1>2. HeapRun'
  <2>1. glob.Ptr_Glob = 2 /\ heap[2].Ptr_Comp = 1
    BY <1>1 DEF GlobalsAre, HeapReady, RecordIs
  <2> DEFINE copied == CopiedHeap
             linked == LinkedHeap
             h3 == HeapAfterProc_3
  <2>2. DOMAIN copied = {1, 2} /\ RecordIs(copied[1], 2, 5) /\ RecordIs(copied[2], 2, 5)
    BY <1>1 DEF HeapReady, RecordIs, RecordFields, CopiedHeap
  <2>3. heap' = IF h3[1].Discr = Ident_1
                THEN [h3 EXCEPT ![1].Enum_Comp = Proc_6(h3[2].Enum_Comp, 5),
                                ![1].Ptr_Comp = h3[2].Ptr_Comp,
                                ![1].Int_Comp = Proc_7(6, 10)]
                ELSE [h3 EXCEPT ![2] = h3[h3[2].Ptr_Comp]]
    <3>1. heap' = Proc_1(heap, 2, glob)
      BY <2>1 DEF CallProc_1
    <3> QED BY <1>1, <2>1, <3>1, Proc_1Unfolds
  <2> HIDE DEF copied
  <2>4. DOMAIN linked = {1, 2} /\ RecordIs(linked[1], 2, 5) /\ RecordIs(linked[2], 2, 5)
    BY <2>2 DEF RecordIs, RecordFields, LinkedHeap, copied
  <2> HIDE DEF linked
  <2> DEFINE named == [linked EXCEPT ![1].Ptr_Comp = linked[2].Ptr_Comp]
  <2>5. DOMAIN named = {1, 2} /\ RecordIs(named[1], 2, 5) /\ RecordIs(named[2], 2, 5)
    BY <2>4 DEF RecordIs, RecordFields
  <2>6. h3 = [named EXCEPT ![2].Int_Comp = 17]
    BY <1>1, <2>1 DEF Proc_3, Proc_7, Null, HeapAfterProc_3, linked
  <2> HIDE DEF named, h3
  <2>7. DOMAIN h3 = {1, 2} /\ RecordIs(h3[1], 2, 5) /\ RecordIs(h3[2], 2, 17)
    BY <2>5, <2>6 DEF RecordIs, RecordFields
  <2>8. Proc_6(2, 5) = 1 /\ Proc_7(6, 10) = 18
    BY DEF Proc_6, Proc_7, Ident_1, Ident_2, Ident_3, Ident_4, Ident_5
  <2>9. heap' = [h3 EXCEPT ![1].Enum_Comp = 1, ![1].Ptr_Comp = 1, ![1].Int_Comp = 18]
    BY <2>3, <2>7, <2>8 DEF RecordIs, Ident_1
  <2> QED BY <2>7, <2>9 DEF HeapRun, RecordIs, RecordFields
<1>3. HeapReady'
  BY <1>2 DEF HeapRun, HeapReady, RecordIs
<1> QED BY <1>1, <1>2, <1>3 DEF CallProc_1, DhryInv, AtInit, AtRun, AtWhile, AtRest, AtFor, AtReport

LEMMA ForBodyStep == DhryInv /\ ForBody => DhryInv'
<1> SUFFICES ASSUME DhryInv, ForBody PROVE DhryInv'
  OBVIOUS
<1>1. GlobalsAre(glob, 1, 65, 66) /\ loc.Enum_Loc = 1 /\ Ch_Index \in 65..67
  BY DEF DhryInv, AtRest, AtFor, ForBody
<1>2. Ch_Index \in 65..66
  BY <1>1 DEF ForBody, GlobalsAre
<1>3. AfterFunc_1(glob, Ch_Index, 67) = glob /\ loc.Enum_Loc # Func_1(Ch_Index, 67)
  BY <1>1, <1>2 DEF AfterFunc_1, Func_1, Ident_1
<1>4. glob' = glob /\ loc' = loc /\ Ch_Index' = Ch_Index + 1
  BY <1>3 DEF ForBody
<1> QED BY <1>2, <1>4
        DEF ForBody, DhryInv, AtInit, AtRun, AtWhile, AtRest, AtFor, AtReport, HeapReady, HeapRun

LEMMA EndRunStep == DhryInv /\ EndRun => DhryInv'
<1> SUFFICES ASSUME DhryInv, EndRun PROVE DhryInv'
  OBVIOUS
<1>1. /\ Number_Of_Runs \in RunCounts /\ Number_Of_Runs \in Int /\ Run_Index \in 1..Number_Of_Runs
      /\ Arr_2_Glob[8][7] = 10 + Run_Index /\ Arr_1_Glob[8] = 7
      /\ Arr_1_Glob \in Arr_1_Dim /\ Arr_2_Glob \in Arr_2_Dim
      /\ GlobalsAre(glob, 1, 65, 66) /\ glob.Int_Glob = 5
      /\ LocalsAre(loc, 3, 3) /\ loc.Int_3_Loc = 7 /\ loc.Enum_Loc = 1 /\ loc.Str_2_Loc = 2
      /\ HeapReady /\ HeapRun
  BY RunBounds DEF DhryInv, AtRest, EndRun
<1>2. loc' = [loc EXCEPT !.Int_2_Loc = 13, !.Int_1_Loc = 5]
  BY <1>1 DEF EndRun, Proc_2, LocalsAre
<1>3. LocalsAre(loc', 5, 13) /\ loc'.Int_3_Loc = 7 /\ loc'.Enum_Loc = 1 /\ loc'.Str_2_Loc = 2
  BY <1>1, <1>2 DEF LocalsAre, LocalFields
<1>4. /\ dhry_pc' = "run" /\ Number_Of_Runs' = Number_Of_Runs /\ Run_Index' = Run_Index + 1
      /\ Arr_1_Glob' = Arr_1_Glob /\ Arr_2_Glob' = Arr_2_Glob /\ heap' = heap /\ glob' = glob
  BY DEF EndRun
<1>5. Settled' /\ Fresh' /\ HeapReady'
  BY <1>1, <1>3, <1>4 DEF Settled, Fresh, HeapReady, HeapRun, GlobalsAre, LocalsAre
<1> QED BY <1>1, <1>4, <1>5 DEF DhryInv, AtInit, AtRun, AtWhile, AtRest, AtFor, AtReport

LEMMA EndRunsStep == DhryInv /\ EndRuns => DhryInv'
<1> SUFFICES ASSUME DhryInv, EndRuns PROVE DhryInv'
  OBVIOUS
<1>1. Run_Index = Number_Of_Runs + 1 /\ Number_Of_Runs >= 1 /\ Number_Of_Runs \in Int
  BY RunBounds DEF DhryInv, AtRun, EndRuns
<1>2. Settled /\ Arr_2_Glob[8][7] = 10 + Number_Of_Runs
  BY <1>1 DEF DhryInv, AtRun, EndRuns
<1> QED BY <1>2
        DEF EndRuns, DhryInv, AtInit, AtRun, AtWhile, AtRest, AtFor, AtReport, Settled, HeapRun

LEMMA DhryKept == DhryInv /\ UNCHANGED dhryVars => DhryInv'
BY DEF dhryVars, DhryInv, AtInit, AtRun, AtWhile, AtRest, AtFor, AtReport, Settled, Fresh, DhryCalled,
       HeapReady, HeapRun

LEMMA DhryStart == ProgramsInit => DhryInv
<1>1. DhryInit => DhryInv
  BY DEF DhryInit, DhryCalled, DhryInv, AtInit, AtRun, AtWhile, AtRest, AtFor, AtReport,
         Arr_1_Dim, Arr_2_Dim
<1>2. DhryAbsent => DhryInv
  BY DEF DhryAbsent, DhryInv, AtInit, AtRun, AtWhile, AtRest, AtFor, AtReport
<1> QED BY <1>1, <1>2 DEF ProgramsInit

\* For every number of runs an int can count, each value printed is the one
\* it should be (dhry.c:91-196): a run leaves the state it found, but for the
\* element of Arr_2_Glob that counts the runs.
THEOREM ReportExpected == ProgramsSpec => []ReportedAsExpected
<1>1. DhryInv /\ [ProgramsNext]_programsVars => DhryInv'
  BY InitializeStep, BeginRunStep, WhileBodyStep, Proc_8Step, Proc_1Step, ForBodyStep, EndRunStep,
     EndRunsStep, DhryKept DEF ProgramsNext, programsVars, DhryNext, Reported
<1>2. DhryInv => ReportedAsExpected
  <2> SUFFICES ASSUME DhryInv, dhry_pc = "report"
               PROVE  \A line \in Report : line[1] = line[2]
    BY DEF ReportedAsExpected
  <2>1. Settled /\ Arr_2_Glob[8][7] = 10 + Number_Of_Runs /\ Number_Of_Runs \in Int
    BY RunBounds DEF DhryInv, AtReport
  <2> QED BY <2>1 DEF Report, Settled, HeapRun, GlobalsAre, LocalsAre, RecordIs, String, Some
<1> QED BY DhryStart, <1>1, <1>2, PTL DEF ProgramsSpec

-----------------------------------------------------------------------------
(* From _start to the verdict of sections.c, and to the heap of alloc.c.   *)

BuiltRight ==
  /\ layout.program \in {"sections", "alloc"} /\ layout.data_in \in {"ram", "rom"}
  /\ layout.copies \in BOOLEAN
  /\ layout.data_end \in Nat /\ layout.bss_end \in Nat /\ layout.data_end >= 9
  /\ bss_start \in Nat /\ bss_start <= layout.bss_end /\ layout.bss_end <= Top
  /\ ~InRom => \E k \in Nat : bss_start = 4 * k /\ layout.data_end <= bss_start
  /\ layout.program = "alloc" => ~InRom /\ layout.copies

\* What the two loops of _start have left, and what they leave alone.
DataLoaded(to) ==
  layout.copies /\ ~InRom => \A a \in 0..(to - 1) : a < layout.data_end => ram[a] = Image(a)
DataJunk == ~layout.copies => \A a \in 0..(bss_start - 1) : ram[a] = Junk
BssCleared(to) == \A a \in bss : a < to => ram[a] = 0
AboveFree(from) == \A a \in layout.bss_end..(Top - 1) : a >= from => ram[a] # Assigned

LoopInv ==
  /\ boot_pc = "clear" => /\ ptr \in Nat /\ ptr >= bss_start
                          /\ DataJunk /\ BssCleared(ptr) /\ AboveFree(0)
  /\ boot_pc = "copy" => /\ \E k \in Nat : ptr = 4 * k
                         /\ layout.copies /\ DataLoaded(ptr) /\ BssCleared(layout.bss_end)
                         /\ AboveFree(0)
  /\ boot_pc = "main" => /\ DataLoaded(layout.data_end) /\ DataJunk
                         /\ BssCleared(layout.bss_end) /\ AboveFree(0)

\* The bits sections.c has set when it tests its assignments, and at its end.
ContentsVerdict == IF layout.copies THEN {} ELSE {1, 2, 3}
MainInv ==
  /\ boot_pc = "assign" => fail = ContentsVerdict
  /\ boot_pc = "sent" => fail = ContentsVerdict \union IF InRom THEN {4, 5} ELSE {}
  /\ boot_pc \notin {"allocate", "idle"} => taken = 0
  /\ boot_pc \in {"allocate", "idle"} =>
       /\ layout.program = "alloc" /\ region = Region /\ taken \in Nat /\ taken <= region.size
       /\ DataLoaded(layout.data_end) /\ BssCleared(layout.bss_end)
       /\ AboveFree(layout.bss_end + taken)

BootInv ==
  /\ boot_pc \in {"clear", "copy", "main", "assign", "sent", "allocate", "idle"}
  /\ BuiltRight /\ (InRom => layout.copies)
  /\ DOMAIN ram = 0..(Top - 1)
  /\ LoopInv /\ MainInv

LEMMA BootStart == BootInit => BootInv
<1> SUFFICES ASSUME BootInit PROVE BootInv
  OBVIOUS
<1>1. PICK e \in DataEnds, b \in BssSizes :
        \/ Built("sections", e, b, "ram", TRUE) \/ Built("alloc", e, b, "ram", TRUE)
        \/ Built("sections", e, b, "rom", TRUE) \/ Built("sections", e, b, "ram", FALSE)
  BY DEF BootInit
<1>2. e \in Nat /\ b \in Nat /\ e >= 9 /\ Top \in Nat /\ 4 * ((e + 3) \div 4) + b <= Top
  BY LayoutAssumption
<1>3. (e + 3) \div 4 \in Nat /\ e <= 4 * ((e + 3) \div 4)
  BY <1>2
<1>4. ASSUME NEW program_, NEW in \in {"ram", "rom"}, NEW copies \in BOOLEAN,
             Built(program_, e, b, in, copies), program_ \in {"sections", "alloc"},
             program_ = "alloc" => in = "ram" /\ copies, in = "rom" => copies
      PROVE  BootInv
  <2>1. /\ layout.program = program_ /\ layout.data_end = e /\ layout.data_in = in
        /\ layout.copies = copies /\ layout.bss_end = BssStart(e, in) + b
    BY <1>4 DEF Built
  <2>2. bss_start = BssStart(e, in) /\ (InRom <=> in = "rom")
    BY <2>1 DEF bss_start, InRom
  <2>3. bss_start = IF in = "ram" THEN 4 * ((e + 3) \div 4) ELSE 0
    BY <2>2 DEF BssStart
  <2>4. BuiltRight
    BY <1>2, <1>3, <1>4, <2>1, <2>2, <2>3 DEF BuiltRight
  <2>5. /\ boot_pc = "clear" /\ ptr = bss_start /\ ram = [a \in 0..(Top - 1) |-> Junk]
        /\ taken = 0
    BY <1>4 DEF Built
  <2>7. bss_start \in Nat /\ layout.bss_end \in Nat /\ bss_start <= layout.bss_end
        /\ layout.bss_end <= Top /\ Top \in Nat
    BY <1>2, <2>4 DEF BuiltRight
  <2>8. \A a \in 0..(Top - 1) : ram[a] = Junk
    BY <2>5
  <2>9. DataJunk /\ BssCleared(ptr) /\ AboveFree(0)
    BY <2>5, <2>7, <2>8 DEF DataJunk, BssCleared, AboveFree, bss, Junk, Assigned
  <2>6. LoopInv
    BY <2>5, <2>7, <2>9 DEF LoopInv
  <2> QED BY <1>4, <2>1, <2>2, <2>4, <2>5, <2>6 DEF BootInv, MainInv
<1> QED BY <1>1, <1>4

LEMMA ClearStep ==
  ASSUME BootInv, ClearWord \/ Cleared
  PROVE  BootInv'
<1> USE DEF BootInv
<1>1. /\ boot_pc = "clear" /\ ptr \in Nat /\ ptr >= bss_start /\ DataJunk /\ BssCleared(ptr)
      /\ AboveFree(0) /\ layout' = layout /\ taken' = 0
  BY DEF LoopInv, MainInv, ClearWord, Cleared
<1>2. BuiltRight' /\ bss_start' = bss_start /\ bss' = bss /\ (InRom' <=> InRom)
  BY <1>1 DEF BuiltRight, bss_start, InRom, bss
<1>3. bss_start \in Nat /\ layout.bss_end \in Nat /\ Top \in Nat
  BY LayoutAssumption DEF BuiltRight
<1>4. CASE ClearWord
  <2>1. /\ ram' = [a \in DOMAIN ram |-> IF a \in WordAt(ptr) THEN 0 ELSE ram[a]]
        /\ ptr' = ptr + 4 /\ boot_pc' = "clear"
    BY <1>4 DEF ClearWord
  <2>4. bss \subseteq DOMAIN ram
    BY <1>3 DEF bss, BuiltRight
  <2>2. BssCleared(ptr)'
    <3> SUFFICES ASSUME NEW a \in bss, a < ptr + 4 PROVE ram'[a] = 0
      BY <1>2, <2>1 DEF BssCleared
    <3>1. a \in Int /\ a \in DOMAIN ram
      BY <1>3, <2>4 DEF bss
    <3>2. a < ptr => ram[a] = 0
      BY <1>1 DEF BssCleared
    <3>3. a < ptr \/ a \in WordAt(ptr)
      BY <1>1, <3>1 DEF WordAt
    <3> QED BY <2>1, <3>1, <3>2, <3>3
  <2>3. DataJunk' /\ AboveFree(0)'
    BY <1>1, <1>2, <1>3, <2>1 DEF DataJunk, AboveFree, WordAt, Assigned, BuiltRight
  <2>5. DOMAIN ram' = DOMAIN ram /\ ptr' \in Nat /\ ptr' >= bss_start'
    BY <1>1, <1>2, <1>3, <2>1
  <2>7. LoopInv'
    BY <2>1, <2>2, <2>3, <2>5 DEF LoopInv
  <2>8. MainInv'
    BY <1>1, <2>1 DEF MainInv
  <2> QED BY <1>1, <1>2, <2>1, <2>5, <2>7, <2>8
<1>5. CASE Cleared
  <2>1. /\ ram' = ram /\ ptr' = 0 /\ ptr >= layout.bss_end
        /\ boot_pc' = IF layout.copies THEN "copy" ELSE "main"
    BY <1>1, <1>3, <1>5 DEF Cleared
  <2>2. BssCleared(layout.bss_end)'
    BY <1>1, <1>2, <1>3, <2>1 DEF BssCleared, bss
  <2>3. DataJunk' /\ AboveFree(0)'
    BY <1>1, <1>2, <2>1 DEF DataJunk, AboveFree
  <2>4. DataLoaded(0)'
    BY DEF DataLoaded
  <2>5. ~layout.copies => DataLoaded(layout.data_end)'
    BY <1>1 DEF DataLoaded
  <2>6. \E k \in Nat : ptr' = 4 * k
    BY <2>1
  <2>7. DataLoaded(ptr)'
    BY <2>1, <2>4 DEF DataLoaded
  <2> QED BY <1>1, <1>2, <2>1, <2>2, <2>3, <2>5, <2>6, <2>7 DEF LoopInv, MainInv
<1> QED BY <1>4, <1>5

LEMMA CopyStep ==
  ASSUME BootInv, CopyWordOfData \/ Copied
  PROVE  BootInv'
<1> USE DEF BootInv
<1>1. /\ boot_pc = "copy" /\ layout.copies /\ DataLoaded(ptr) /\ BssCleared(layout.bss_end)
      /\ AboveFree(0) /\ layout' = layout /\ taken' = 0
  BY DEF LoopInv, MainInv, CopyWordOfData, Copied
<1>2. PICK k \in Nat : ptr = 4 * k
  BY <1>1 DEF LoopInv
<1>3. BuiltRight' /\ bss_start' = bss_start /\ bss' = bss /\ (InRom' <=> InRom)
  BY <1>1 DEF BuiltRight, bss_start, InRom, bss
<1>4. bss_start \in Nat /\ layout.bss_end \in Nat /\ layout.data_end \in Nat /\ Top \in Nat
      /\ bss_start <= layout.bss_end /\ layout.bss_end <= Top
  BY LayoutAssumption DEF BuiltRight
<1>5. \A a : Image(a)' = Image(a)
  BY <1>1 DEF Image
<1>6. CASE CopyWordOfData
  <2>1. /\ ram' = [a \in DOMAIN ram |->
               IF a \in WordAt(ptr) /\ layout.data_in = "ram" THEN Image(a) ELSE ram[a]]
        /\ ptr' = ptr + 4 /\ boot_pc' = "copy" /\ ptr < layout.data_end
    BY <1>1, <1>6 DEF CopyWordOfData
  <2>2. ~InRom => ptr + 4 <= bss_start
    BY <1>2, <2>1 DEF BuiltRight
  <2>3. BssCleared(layout.bss_end)' /\ AboveFree(0)'
    <3>1. ASSUME NEW a \in DOMAIN ram, a >= bss_start PROVE ram'[a] = ram[a]
      BY <1>2, <1>4, <2>1, <2>2, <3>1 DEF WordAt, InRom, BuiltRight
    <3> QED BY <1>1, <1>3, <1>4, <3>1 DEF BssCleared, AboveFree, bss
  <2>4. DataLoaded(ptr)'
    BY <1>1, <1>2, <1>3, <1>4, <1>5, <2>1, <2>2 DEF DataLoaded, WordAt, InRom, BuiltRight
  <2>5. \E j \in Nat : ptr' = 4 * j
    BY <1>2, <2>1
  <2> QED BY <1>1, <1>3, <2>1, <2>3, <2>4, <2>5 DEF LoopInv, MainInv
<1>7. CASE Copied
  <2>1. ram' = ram /\ boot_pc' = "main" /\ ptr >= layout.data_end
    BY <1>2, <1>4, <1>7 DEF Copied
  <2>2. DataLoaded(layout.data_end)'
    BY <1>1, <1>2, <1>3, <1>4, <1>5, <2>1 DEF DataLoaded
  <2>3. DataJunk' /\ BssCleared(layout.bss_end)' /\ AboveFree(0)'
    BY <1>1, <1>3, <2>1 DEF DataJunk, BssCleared, AboveFree
  <2> QED BY <1>1, <1>3, <2>1, <2>2, <2>3 DEF LoopInv, MainInv
<1> QED BY <1>6, <1>7

LEMMA SectionsStep ==
  ASSUME BootInv, TestContents \/ TestAssignments
  PROVE  BootInv'
<1> USE DEF BootInv
<1>1. layout' = layout /\ taken' = 0
  BY DEF TestContents, TestAssignments, MainInv
<1>2. BuiltRight' /\ (InRom' <=> InRom) /\ ContentsVerdict' = ContentsVerdict
  BY <1>1 DEF BuiltRight, bss_start, InRom, ContentsVerdict
<1>3. /\ bss_start \in Nat /\ layout.bss_end \in Nat /\ layout.data_end \in Nat /\ Top \in Nat
      /\ bss_start <= layout.bss_end /\ layout.bss_end <= Top /\ layout.data_end >= 9
      /\ layout.copies \in BOOLEAN
  BY LayoutAssumption DEF BuiltRight
<1>4. ~InRom => layout.data_end <= bss_start
  BY DEF BuiltRight
<1>5. CASE TestContents
  <2>1. /\ boot_pc = "main" /\ boot_pc' = "assign" /\ ram' = ram
        /\ DataLoaded(layout.data_end) /\ DataJunk /\ BssCleared(layout.bss_end)
    BY <1>5 DEF TestContents, LoopInv
  <2>2. \A a \in bss : ram[a] = 0
    BY <1>3, <2>1 DEF BssCleared, bss
  <2>3. ASSUME NEW object, object \subseteq 0..(layout.data_end - 1), object # {}
        PROVE  Intact(object) <=> layout.copies
    <3>1. CASE InRom
      BY <3>1 DEF Intact
    <3>2. CASE ~InRom /\ layout.copies
      BY <1>3, <2>1, <2>3, <3>2 DEF Intact, DataLoaded
    <3>3. CASE ~InRom /\ ~layout.copies
      <4>1. PICK a \in object : TRUE
        BY <2>3
      <4>2. a \in 0..(bss_start - 1) /\ a \in 0..(layout.data_end - 1)
        BY <1>3, <1>4, <2>3, <3>3
      <4>3. ram[a] = -1 /\ Image(a) = a + 1
        BY <1>3, <2>1, <3>3, <4>2 DEF DataJunk, Junk, Image
      <4> QED BY <3>3, <4>2, <4>3 DEF Intact
    <3> QED BY <3>1, <3>2, <3>3
  <2>4. /\ Intact(this_is_data) <=> layout.copies
        /\ Intact(this_is_data2) <=> layout.copies
        /\ Intact(this_is_data3) <=> layout.copies
    <3>1. /\ this_is_data \subseteq 0..(layout.data_end - 1) /\ this_is_data # {}
          /\ this_is_data2 \subseteq 0..(layout.data_end - 1) /\ this_is_data2 # {}
          /\ this_is_data3 \subseteq 0..(layout.data_end - 1) /\ this_is_data3 # {}
      BY <1>3 DEF this_is_data, this_is_data2, this_is_data3
    <3> QED BY <2>3, <3>1
  <2>5. fail' = {n \in 0..3 : \/ n = 0 /\ \E a \in bss : ram[a] # 0
                              \/ n = 1 /\ ~Intact(this_is_data)
                              \/ n = 2 /\ ~Intact(this_is_data2)
                              \/ n = 3 /\ ~Intact(this_is_data3)}
    BY <1>5 DEF TestContents
  <2>6. fail' = {n \in 0..3 : ~layout.copies /\ n # 0}
    BY <2>2, <2>4, <2>5
  <2>7. {n \in 0..3 : ~layout.copies /\ n # 0} = ContentsVerdict
    BY <1>3 DEF ContentsVerdict
  <2> QED BY <1>2, <2>1, <2>6, <2>7, <1>1 DEF LoopInv, MainInv
<1>6. CASE TestAssignments
  <2>1. /\ boot_pc = "assign" /\ boot_pc' = "sent" /\ fail = ContentsVerdict
        /\ ram' = [a \in DOMAIN ram |-> IF a \in this_is_data2 \union this_is_data /\ ~InRom
                                        THEN Assigned ELSE ram[a]]
        /\ fail' = fail \union
             {n \in 4..5 : InRom \/ \E a \in this_is_data2 \union this_is_data : ram'[a] # Assigned}
    BY <1>6 DEF TestAssignments, MainInv
  <2>2. ~InRom => \A a \in this_is_data2 \union this_is_data : ram'[a] = Assigned
    <3>1. ~InRom => this_is_data2 \union this_is_data \subseteq DOMAIN ram
      BY <1>3, <1>4 DEF this_is_data, this_is_data2
    <3> QED BY <2>1, <3>1
  <2>3. {n \in 4..5 : InRom \/ \E a \in this_is_data2 \union this_is_data : ram'[a] # Assigned}
          = IF InRom THEN {4, 5} ELSE {}
    <3>1. CASE InRom
      BY <3>1
    <3>2. CASE ~InRom
      BY <2>2, <3>2
    <3> QED BY <3>1, <3>2
  <2>4. fail' = ContentsVerdict \union IF InRom THEN {4, 5} ELSE {}
    BY <2>1, <2>3
  <2> QED BY <1>1, <1>2, <2>1, <2>4 DEF LoopInv, MainInv
<1> QED BY <1>5, <1>6

LEMMA AllocStep ==
  ASSUME BootInv, AssignRegion \/ lwmem_malloc
  PROVE  BootInv'
<1>0. BuiltRight /\ (InRom => layout.copies) /\ DOMAIN ram = 0..(Top - 1) /\ LoopInv /\ MainInv
  BY DEF BootInv
<1>1. layout' = layout /\ ptr' = ptr /\ fail' = fail
  BY DEF AssignRegion, lwmem_malloc
<1>2. BuiltRight' /\ bss_start' = bss_start /\ bss' = bss /\ (InRom' <=> InRom) /\ Region' = Region
  BY <1>0, <1>1 DEF BuiltRight, bss_start, InRom, bss, Region
<1>3. /\ bss_start \in Nat /\ layout.bss_end \in Nat /\ layout.data_end \in Nat /\ Top \in Nat
      /\ bss_start <= layout.bss_end /\ layout.bss_end <= Top
      /\ BlockSize \in Nat /\ BlockSize >= 1
      /\ layout.program = "alloc" => layout.copies /\ ~InRom /\ layout.data_end <= bss_start
  BY <1>0, LayoutAssumption DEF BuiltRight
<1>4. \A a : Image(a)' = Image(a)
  BY <1>1 DEF Image
<1>5. CASE AssignRegion
  <2>1. /\ layout.program = "alloc" /\ boot_pc' = "allocate" /\ ram' = ram /\ region' = Region
        /\ taken' = taken
        /\ DataLoaded(layout.data_end) /\ BssCleared(layout.bss_end) /\ AboveFree(0)
    BY <1>0, <1>5 DEF AssignRegion, LoopInv
  <2>2. taken = 0 /\ region'.size \in Nat
    BY <1>0, <1>3, <1>5, <2>1 DEF AssignRegion, MainInv, Region
  <2>3. DataLoaded(layout.data_end)' /\ BssCleared(layout.bss_end)'
    BY <1>1, <1>2, <1>4, <2>1 DEF DataLoaded, BssCleared
  <2>4. AboveFree(layout.bss_end + taken)'
    BY <1>1, <1>3, <2>1, <2>2 DEF AboveFree
  <2> QED BY <1>0, <1>1, <1>2, <2>1, <2>2, <2>3, <2>4 DEF BootInv, LoopInv, MainInv
<1>6. CASE lwmem_malloc
  <2>1. /\ boot_pc = "allocate" /\ region' = region /\ region = Region
        /\ layout.program = "alloc" /\ taken \in Nat /\ taken <= region.size
        /\ DataLoaded(layout.data_end) /\ BssCleared(layout.bss_end)
        /\ AboveFree(layout.bss_end + taken)
    BY <1>0, <1>6 DEF lwmem_malloc, MainInv
  <2>2. region.start = layout.bss_end /\ region.size \in Int
    BY <1>3, <2>1 DEF Region
  <2>3. CASE taken + BlockSize <= region.size
    <3>1. /\ taken' = taken + BlockSize /\ boot_pc' = boot_pc
          /\ ram' = [a \in DOMAIN ram |-> IF a - region.start \in taken..(taken + BlockSize - 1)
                                          THEN Assigned ELSE ram[a]]
      BY <1>6, <2>3 DEF lwmem_malloc
    <3>2. ASSUME NEW a \in DOMAIN ram, a < layout.bss_end \/ a >= layout.bss_end + taken + BlockSize
          PROVE  ram'[a] = ram[a]
      <4>1. ~(a - region.start \in taken..(taken + BlockSize - 1))
        <5>1. a \in Int /\ taken \in Int /\ layout.bss_end \in Int /\ BlockSize \in Int
          BY <1>0, <1>3, <2>1, <3>2
        <5> QED BY <2>1, <2>2, <3>2, <5>1
      <4> DEFINE inBlock(x) == x - region.start \in taken..(taken + BlockSize - 1)
      <4>2. ram' = [x \in DOMAIN ram |-> IF inBlock(x) THEN Assigned ELSE ram[x]] /\ ~inBlock(a)
        BY <3>1, <4>1
      <4> HIDE DEF inBlock
      <4> QED BY <3>2, <4>2
    <3>3. DataLoaded(layout.data_end)'
      <4>1. ASSUME NEW a \in 0..(layout.data_end - 1), layout.copies, ~InRom
            PROVE  ram'[a] = Image(a)'
        <5>1. ram'[a] = ram[a]
          <6>1. a \in Int /\ 0 <= a /\ a < layout.bss_end /\ a <= Top - 1
            BY <1>3, <2>1, <4>1
          <6> QED BY <1>0, <1>3, <3>2, <6>1
        <5>2. ram[a] = Image(a)
          BY <1>3, <2>1, <4>1 DEF DataLoaded
        <5> QED BY <1>4, <5>1, <5>2
      <4>2. layout.data_end' = layout.data_end /\ (layout.copies' <=> layout.copies)
        BY <1>1
      <4> QED BY <1>2, <4>1, <4>2 DEF DataLoaded
    <3>4. BssCleared(layout.bss_end)'
      BY <1>0, <1>1, <1>2, <1>3, <2>1, <3>2 DEF BssCleared, bss
    <3>5. AboveFree(layout.bss_end + taken)'
      <4> SUFFICES ASSUME NEW a \in layout.bss_end..(Top - 1), a >= layout.bss_end + (taken + BlockSize)
                   PROVE  ram'[a] # Assigned
        BY <1>1, <3>1 DEF AboveFree
      <4>1. ram'[a] = ram[a] /\ a >= layout.bss_end + taken
        BY <1>0, <1>3, <2>1, <3>2
      <4> QED BY <2>1, <4>1 DEF AboveFree
    <3>6. LoopInv'
      BY <2>1, <3>1 DEF LoopInv
    <3>7. MainInv'
      <4>1. boot_pc' = "allocate" /\ layout'.program = "alloc" /\ region' = Region'
        BY <1>1, <1>2, <2>1, <3>1
      <4>2. taken' \in Nat /\ taken' <= region'.size
        BY <1>3, <2>1, <2>3, <3>1
      <4> QED BY <3>3, <3>4, <3>5, <4>1, <4>2 DEF MainInv
    <3>8. DOMAIN ram' = 0..(Top - 1)
      BY <1>0, <3>1
    <3> QED BY <1>0, <1>1, <1>2, <2>1, <3>1, <3>6, <3>7, <3>8 DEF BootInv
  <2>4. CASE ~(taken + BlockSize <= region.size)
    <3>1. boot_pc' = "idle" /\ ram' = ram /\ taken' = taken
      BY <1>6, <2>4 DEF lwmem_malloc
    <3>2. DataLoaded(layout.data_end)' /\ BssCleared(layout.bss_end)'
      BY <1>1, <1>2, <1>4, <2>1, <3>1 DEF DataLoaded, BssCleared
    <3>3. AboveFree(layout.bss_end + taken)'
      BY <1>1, <2>1, <3>1 DEF AboveFree
    <3> QED BY <1>0, <1>1, <1>2, <2>1, <3>1, <3>2, <3>3 DEF BootInv, LoopInv, MainInv
  <2> QED BY <2>3, <2>4
<1> QED BY <1>5, <1>6

LEMMA BootKept == BootInv /\ UNCHANGED bootVars => BootInv'
BY DEF bootVars, BootInv, BuiltRight, LoopInv, MainInv, DataLoaded, DataJunk, BssCleared, AboveFree,
       ContentsVerdict, InRom, bss_start, bss, Image, Region

LEMMA VerdictHolds == BootInv => SectionsVerdict
<1> SUFFICES ASSUME BootInv PROVE SectionsVerdict
  OBVIOUS
<1> USE DEF BootInv
<1>1. /\ layout.bss_end \in Nat /\ layout.data_end \in Nat /\ Top \in Nat
      /\ layout.bss_end <= Top /\ bss_start \in Nat
  BY LayoutAssumption DEF BuiltRight
<1>2. boot_pc = "sent" => fail = CASE InRom -> {4, 5} [] ~layout.copies -> {1, 2, 3} [] OTHER -> {}
  BY DEF MainInv, ContentsVerdict
<1>3. ASSUME boot_pc \in {"main", "allocate", "idle"}, layout.copies, ~InRom
      PROVE  /\ \A a \in 0..(layout.data_end - 1) : ram[a] = Image(a)
             /\ \A a \in bss : ram[a] = 0
             /\ \A a \in (Top - (3 * (Top - layout.bss_end)) \div 4)..(Top - 1) : ram[a] # Assigned
  <2>1. DataLoaded(layout.data_end) /\ BssCleared(layout.bss_end)
    BY <1>3 DEF LoopInv, MainInv
  <2>2. /\ \A a \in 0..(layout.data_end - 1) : ram[a] = Image(a)
        /\ \A a \in bss : ram[a] = 0
    BY <1>1, <1>3, <2>1 DEF DataLoaded, BssCleared, bss
  <2>3. AboveFree(0) \/ (AboveFree(layout.bss_end + taken) /\ taken \in Nat /\ taken <= region.size
                         /\ region = Region)
    BY <1>3 DEF LoopInv, MainInv
  <2>4. ASSUME NEW a \in (Top - (3 * (Top - layout.bss_end)) \div 4)..(Top - 1)
        PROVE  ram[a] # Assigned
    <3> DEFINE d == Top - layout.bss_end
    <3>1. d \in Nat /\ d = Top - layout.bss_end
      BY <1>1
    <3>5. a >= Top - (3 * d) \div 4 /\ a <= Top - 1 /\ a \in Int /\ Region.size = d \div 4
      <4>1. (3 * (Top - layout.bss_end)) \div 4 \in Int
        BY <3>1
      <4> QED BY <1>1, <2>4, <4>1 DEF Region
    <3> HIDE DEF d, BootInv
    <3>2. d \div 4 \in Nat /\ (3 * d) \div 4 \in Nat /\ (3 * d) \div 4 + d \div 4 <= d
      BY <3>1
    <3>3. a \in layout.bss_end..(Top - 1) /\ a >= layout.bss_end + d \div 4
      <4> DEFINE x == (3 * d) \div 4
                 q == d \div 4
      <4>1. x \in Nat /\ q \in Nat /\ x + q <= d /\ a >= Top - x /\ a <= Top - 1 /\ a \in Int
        BY <3>2, <3>5
      <4> HIDE DEF x
      <4>2. a >= layout.bss_end + q
        <5> HIDE DEF q
        <5>1. d \in Int /\ Top \in Int /\ layout.bss_end \in Int /\ d = Top - layout.bss_end
          BY <1>1, <3>1
        <5> QED BY <4>1, <5>1
      <4> QED BY <1>1, <4>1, <4>2
    <3>4. AboveFree(0) => ram[a] # Assigned
      BY <1>1, <3>3 DEF AboveFree
    <3>6. ASSUME AboveFree(layout.bss_end + taken), taken \in Nat, taken <= d \div 4
          PROVE  ram[a] # Assigned
      <4>1. a >= layout.bss_end + taken
        BY <1>1, <3>2, <3>3, <3>6
      <4> QED BY <3>3, <3>6, <4>1 DEF AboveFree
    <3> QED BY <2>3, <3>4, <3>5, <3>6
  <2> QED BY <2>2, <2>4
<1> QED BY <1>2, <1>3 DEF SectionsVerdict

\* The image that is not there never starts.
SectionsInv == image \in Images /\ (IF image = "sections" THEN BootInv ELSE boot_pc = "clear")

\* For every size of .data and .bss and every RAM they fit: sections.c sends
\* the byte its comments name, and no block of the heap reaches a section or
\* the stack (c/linker.ld, c/sections.c:49-69, c/alloc.c:34).
THEOREM SectionsKept == ProgramsSpec => []SectionsVerdict
<1>1. ProgramsInit => SectionsInv
  BY BootStart DEF ProgramsInit, SectionsInv, BootAbsent, Built
<1>2. SectionsInv /\ [ProgramsNext]_programsVars => SectionsInv'
  <2> SUFFICES ASSUME SectionsInv, [ProgramsNext]_programsVars PROVE SectionsInv'
    OBVIOUS
  <2>1. image' = image
    BY DEF ProgramsNext, programsVars
  <2>2. UNCHANGED bootVars \/ (image = "sections" /\ BootNext)
    BY DEF ProgramsNext, programsVars
  <2>3. CASE UNCHANGED bootVars
    <3>1. boot_pc' = boot_pc
      BY <2>3 DEF bootVars
    <3> QED BY <2>1, <2>3, <3>1, BootKept DEF SectionsInv
  <2>4. CASE image = "sections" /\ BootNext
    BY <2>1, <2>4, ClearStep, CopyStep, SectionsStep, AllocStep, BootKept
    DEF SectionsInv, BootNext, BootIdle
  <2> QED BY <2>2, <2>3, <2>4
<1>3. SectionsInv => SectionsVerdict
  BY VerdictHolds DEF SectionsInv, SectionsVerdict
<1> QED BY <1>1, <1>2, <1>3, PTL DEF ProgramsSpec

-----------------------------------------------------------------------------
(* The LED that breathes.                                                  *)

\* The edges of this period that on counts, and how many of them a level lights.
Seen == IF cnt = 0 THEN Levels ELSE cnt
Count(c) == IF c < Seen THEN c ELSE Seen

Low(prev) == IF prev < cmp THEN prev ELSE cmp
High(prev) == IF prev < cmp THEN cmp ELSE prev

\* The level is the one of the period before.
Steady == on \in {Unknown, Count(cmp)} /\ shown \in {Unknown, cmp}

\* It changed in this period; no store is due until the end of the next.
Changing(prev) ==
  /\ prev \in 0..Highest /\ Distance(prev, cmp) <= 2
  /\ on = Unknown \/ (Count(Low(prev)) <= on /\ on <= Count(High(prev)))
  /\ shown \in {Unknown, prev}
  /\ pause + Seen >= 2 * Levels + 1

\* It changed in the period before.
Changed(prev) ==
  /\ prev \in 0..Highest /\ Distance(prev, cmp) <= 2
  /\ on = Count(cmp)
  /\ shown = Unknown \/ (Low(prev) <= shown /\ shown <= High(prev))
  /\ pause + Seen >= Levels + 1

PhaseOfLed == Steady \/ \E prev \in 0..Highest : Changing(prev) \/ Changed(prev)

LedRanges ==
  /\ led_pc \in {"set", "down", "up"} /\ id \in LEDs /\ watched \in LEDs
  /\ level \in 0..Highest /\ pause \in Nat /\ cnt \in 0..Highest /\ cmp \in 0..Highest
  /\ on \in Int /\ shown \in Int /\ step \in 0..2

\* What is stored next is a level away from what is shown, at most.
Follows ==
  /\ led_pc = "set" => cmp = Highest /\ level = Highest
  /\ led_pc # "set" /\ id = watched => Distance(Gamma(level), cmp) <= 2
  /\ id # watched => cmp \in {Highest, Gamma(Highest)}

BreatheInv == led_program = "led_breathe" => LedRanges /\ Follows /\ PhaseOfLed

LEMMA LevelBounds == Levels \in Nat /\ Levels >= 2 /\ Highest = Levels - 1 /\ Highest \in Nat
BY LevelsAssumption DEF Highest

\* The quotient, by what it leaves.
LEMMA Quotient ==
  ASSUME NEW M \in Nat, M > 0, NEW m \in Nat
  PROVE  m \div M \in Nat /\ (m \div M) * M <= m /\ m < (m \div M) * M + M
<1>1. m \div M \in Int /\ m = M * (m \div M) + (m % M) /\ m % M \in 0..(M - 1)
  OBVIOUS
<1> DEFINE q == m \div M
<1> HIDE DEF q
<1>2. q \in Int /\ M * q <= m /\ m < M * q + M
  BY <1>1 DEF q
<1>3. q >= 0
  <2>1. CASE q <= -1
    <3>1. M * (-1 - q) >= 0
      BY <1>2, <2>1
    <3> QED BY <1>2, <3>1
  <2> QED BY <1>2, <2>1
<1> QED BY <1>2, <1>3 DEF q

LEMMA FewerTimes ==
  ASSUME NEW M \in Nat, M > 0, NEW p \in Int, NEW k \in Int, p * M < k * M
  PROVE  p < k
<1>1. CASE p >= k
  <2>1. (p - k) * M >= 0
    BY <1>1
  <2> QED BY <2>1
<1> QED BY <1>1

\* Gamma rises by at most two levels a step, and its last is the one below the top.
LEMMA GammaStep ==
  /\ \A n \in 0..Highest : Gamma(n) \in 0..Highest
  /\ \A n \in 0..(Highest - 1) : Gamma(n) <= Gamma(n + 1) /\ Gamma(n + 1) <= Gamma(n) + 2
  /\ Gamma(Highest) = Highest - 1
<1> USE LevelBounds
<1>1. ASSUME NEW n \in 0..Highest
      PROVE  /\ Gamma(n) \in Nat /\ Gamma(n) * Levels <= n * n
             /\ n * n < Gamma(n) * Levels + Levels
  <2>1. n * n \in Nat
    OBVIOUS
  <2> QED BY <2>1, Quotient DEF Gamma
<1>2. ASSUME NEW n \in 0..Highest PROVE Gamma(n) \in 0..Highest
  <2>1. n * n < Levels * Levels
    <3>1. (Levels - n) * Levels >= 1 /\ (Levels - n) * n >= 0
      OBVIOUS
    <3> QED BY <3>1
  <2>2. Gamma(n) * Levels < Levels * Levels
    BY <1>1, <2>1
  <2> QED BY <1>1, <2>2, FewerTimes
<1>3. ASSUME NEW n \in 0..(Highest - 1)
      PROVE  Gamma(n) <= Gamma(n + 1) /\ Gamma(n + 1) <= Gamma(n) + 2
  <2> DEFINE q == Gamma(n)
             p == Gamma(n + 1)
  <2>1. /\ q \in Nat /\ q * Levels <= n * n /\ n * n < q * Levels + Levels
        /\ p \in Nat /\ p * Levels <= (n + 1) * (n + 1) /\ (n + 1) * (n + 1) < p * Levels + Levels
    BY <1>1
  <2> HIDE DEF q, p
  <2>2. (n + 1) * (n + 1) = n * n + 2 * n + 1 /\ n * n \in Nat
    OBVIOUS
  <2>3. (q - p) * Levels < 1 * Levels
    BY <2>1, <2>2
  <2>4. (p - q) * Levels < 3 * Levels
    BY <2>1, <2>2
  <2>5. q - p < 1 /\ p - q < 3
    BY <2>1, <2>3, <2>4, FewerTimes
  <2> QED BY <2>1, <2>5 DEF q, p
<1>4. Gamma(Highest) = Highest - 1
  <2> DEFINE q == Gamma(Highest)
  <2>1. q \in Nat /\ q * Levels <= Highest * Highest /\ Highest * Highest < q * Levels + Levels
    BY <1>1
  <2> HIDE DEF q
  <2>2. Highest * Highest = (Levels - 2) * Levels + 1
    OBVIOUS
  <2>3. q * Levels < (Levels - 1) * Levels /\ (Levels - 3) * Levels < q * Levels
    BY <2>1, <2>2
  <2>4. q < Levels - 1 /\ Levels - 3 < q
    BY <2>1, <2>3, FewerTimes
  <2> QED BY <2>1, <2>4 DEF q
<1> QED BY <1>2, <1>3, <1>4

\* An edge of the modulator, by the place in its period.
LEMMA PeriodGoesOn ==
  ASSUME LedRanges, NEW wren, NEW di, PwmEdge(wren, di)
  PROVE  /\ cnt' \in 0..Highest /\ Seen \in 1..Levels /\ Seen' \in 1..Levels
         /\ cnt = 0 => Seen = Levels /\ Seen' = 1
         /\ cnt # 0 => Seen = cnt /\ Seen' = cnt + 1
         /\ out' = IF cnt < cmp THEN 1 ELSE 0
<1> USE LevelBounds
<1>1. cnt' = (cnt + 1) % Levels /\ cnt \in 0..Highest
  BY DEF PwmEdge, LedRanges
<1>2. cnt' = IF cnt = Levels - 1 THEN 0 ELSE cnt + 1
  <2>1. CASE cnt = Levels - 1
    <3>1. Levels % Levels = 0
      BY Turn
    <3> QED BY <1>1, <2>1, <3>1
  <2>2. CASE cnt # Levels - 1
    <3>1. (cnt + 1) % Levels = cnt + 1
      BY <1>1, <2>2, Turn
    <3> QED BY <1>1, <2>2, <3>1
  <2> QED BY <2>1, <2>2
<1>3. out' = IF cnt < cmp THEN 1 ELSE 0
  BY DEF PwmEdge
<1> QED BY <1>1, <1>2, <1>3 DEF Seen

\* The edge counts for the level that is shown before it, whatever is stored.
LEMMA EdgeCounts ==
  ASSUME LedRanges, NEW wren, NEW di, PwmEdge(wren, di)
  PROVE  /\ on' \in Int /\ shown' \in Int
         /\ cnt = 0 => /\ on' = (IF cmp < Seen' THEN cmp ELSE Seen') /\ shown' = on
                       /\ \A c \in 0..Highest : Count(c) = c
         /\ cnt # 0 /\ on = Unknown => on' = Unknown
         /\ cnt # 0 /\ on # Unknown => on' = on + (IF cnt < cmp THEN 1 ELSE 0)
         /\ cnt # 0 => shown' = shown /\ step' = step
         /\ cnt # 0 /\ on = Count(cmp) => on' = IF cmp < Seen' THEN cmp ELSE Seen'
<1> USE LevelBounds, PeriodGoesOn
<1>1. /\ on' = IF cnt = 0 THEN out' ELSE IF on = Unknown THEN Unknown ELSE on + out'
      /\ shown' = IF cnt = 0 THEN on ELSE shown
      /\ step' = IF cnt = 0 /\ on # Unknown /\ shown # Unknown THEN Distance(on, shown) ELSE step
  BY DEF PwmEdge
<1>2. cmp \in 0..Highest /\ cnt \in 0..Highest /\ on \in Int /\ shown \in Int
  BY DEF LedRanges
<1>3. CASE cnt = 0
  BY <1>1, <1>2, <1>3 DEF Count
<1>4. CASE cnt # 0
  BY <1>1, <1>2, <1>4 DEF Count, Unknown
<1> QED BY <1>3, <1>4

\* An edge that leaves the level alone, with the pause that goes on.
LEMMA SteadyEdge ==
  ASSUME LedRanges, NEW wren, NEW di, PwmEdge(wren, di), Steady, cmp' = cmp
  PROVE  Steady' /\ step' \in 0..2
<1> USE LevelBounds, PeriodGoesOn, EdgeCounts
<1>1. cmp \in 0..Highest /\ step \in 0..2 /\ on \in {Unknown, Count(cmp)} /\ shown \in {Unknown, cmp}
  BY DEF LedRanges, Steady
<1>2. Count(cmp)' = IF cmp < Seen' THEN cmp ELSE Seen'
  BY DEF Count
<1>3. CASE cnt = 0
  <2>1. on' = Count(cmp)' /\ shown' = on /\ Count(cmp) = cmp
    BY <1>1, <1>2, <1>3
  <2>2. step' = IF on # Unknown /\ shown # Unknown THEN Distance(on, shown) ELSE step
    BY <1>3 DEF PwmEdge
  <2>3. step' \in 0..2
    BY <1>1, <2>1, <2>2 DEF Distance
  <2> QED BY <1>1, <2>1, <2>3 DEF Steady
<1>4. CASE cnt # 0
  <2>1. on' \in {Unknown, Count(cmp)'}
    BY <1>1, <1>2, <1>4
  <2>2. shown' = shown /\ step' = step
    BY <1>4
  <2> QED BY <1>1, <2>1, <2>2 DEF Steady
<1> QED BY <1>3, <1>4

\* A store of a level at most two away.
LEMMA StoreEdge ==
  ASSUME LedRanges, NEW wren, NEW di, PwmEdge(wren, di), Steady,
         cmp' \in 0..Highest, Distance(cmp, cmp') <= 2, pause' \in Nat, pause' >= 2 * Levels
  PROVE  Changing(cmp)' \/ \E prev \in 0..Highest : Changing(prev)'
<1> USE LevelBounds, PeriodGoesOn, EdgeCounts
<1>1. cmp \in 0..Highest /\ on \in {Unknown, Count(cmp)} /\ shown \in {Unknown, cmp}
  BY DEF LedRanges, Steady
<1> DEFINE low == IF cmp < cmp' THEN cmp ELSE cmp'
           high == IF cmp < cmp' THEN cmp' ELSE cmp
           upto(c) == IF c < Seen' THEN c ELSE Seen'
<1>2. on' = Unknown \/ on' = upto(cmp)
  BY <1>1
<1>3. upto(low) <= upto(cmp) /\ upto(cmp) <= upto(high)
  <2>1. Seen' \in Int /\ cmp \in Int /\ cmp' \in Int
    BY <1>1
  <2> QED BY ONLY <2>1
<1>4. shown' \in {Unknown, cmp}
  BY <1>1
<1>5. pause' + Seen' >= 2 * Levels + 1
  OBVIOUS
<1>6. ASSUME NEW prev \in 0..Highest, prev = cmp PROVE Changing(prev)'
  BY <1>1, <1>2, <1>3, <1>4, <1>5, <1>6 DEF Changing, Count, Low, High, Distance
<1> QED BY <1>1, <1>6

\* The rest of the period in which the level changed, and its end.
LEMMA ChangingEdge ==
  ASSUME LedRanges, NEW wren, NEW di, PwmEdge(wren, di), NEW prev \in 0..Highest, Changing(prev),
         cmp' = cmp, pause' = pause - 1
  PROVE  (Changing(prev)' \/ Changed(prev)') /\ step' \in 0..2
<1> USE LevelBounds, PeriodGoesOn, EdgeCounts
<1> DEFINE low == Low(prev)
           high == High(prev)
           upto(c) == IF c < Seen' THEN c ELSE Seen'
<1>1. /\ cmp \in 0..Highest /\ step \in 0..2 /\ cnt \in 0..Highest /\ pause \in Nat /\ on \in Int
      /\ low \in 0..Highest /\ high \in 0..Highest /\ low <= cmp /\ cmp <= high
      /\ low <= prev /\ prev <= high /\ high - low <= 2
      /\ Low(prev)' = low /\ High(prev)' = high /\ Distance(prev, cmp)' <= 2
      /\ on = Unknown \/ (Count(low) <= on /\ on <= Count(high))
      /\ shown \in {Unknown, prev} /\ pause + Seen >= 2 * Levels + 1
  BY DEF LedRanges, Changing, Low, High, Distance
<1>2. \A c : Count(c)' = upto(c')
  BY DEF Count
<1> HIDE DEF low, high
<1>3. CASE cnt = 0
  <2>1. on' = upto(cmp) /\ shown' = on
    BY <1>1, <1>3
  <2>2. on = Unknown \/ (low <= on /\ on <= high)
    BY <1>1, <1>3
  <2>3. step' = IF on # Unknown /\ shown # Unknown THEN Distance(on, shown) ELSE step
    BY <1>3 DEF PwmEdge
  <2>4. step' \in 0..2
    BY <1>1, <2>2, <2>3 DEF Distance
  <2>5. pause' + Seen' >= Levels + 1
    BY <1>1, <1>3
  <2>6. Changed(prev)'
    BY <1>1, <2>1, <2>2, <2>5 DEF Changed, Count, Distance
  <2> QED BY <2>4, <2>6
<1>4. CASE cnt # 0
  <2>1. shown' = shown /\ step' = step /\ pause' + Seen' >= 2 * Levels + 1
    BY <1>1, <1>4
  <2>2. on' = Unknown \/ (upto(low) <= on' /\ on' <= upto(high))
    <3>1. CASE on = Unknown
      BY <1>4, <3>1
    <3>2. CASE on # Unknown
      <4>1. Count(low) <= on /\ on <= Count(high) /\ on' = on + (IF cnt < cmp THEN 1 ELSE 0)
        BY <1>1, <1>4, <3>2
      <4>2. /\ Count(low) = (IF low < cnt THEN low ELSE cnt) /\ Count(high) = IF high < cnt THEN high ELSE cnt
        BY <1>4 DEF Count
      <4>3. Seen' = cnt + 1 /\ cnt \in Int /\ cmp \in Int /\ low \in Int /\ high \in Int
            /\ low <= cmp /\ cmp <= high /\ on \in Int /\ on' \in Int
        BY <1>1, <1>4
      <4>4. upto(low) <= on' /\ on' <= upto(high)
        BY ONLY <4>1, <4>2, <4>3
      <4> QED BY <4>4
    <3> QED BY <3>1, <3>2
  <2>3. Changing(prev)'
    BY <1>1, <2>1, <2>2 DEF Changing, Count, Distance
  <2> QED BY <1>1, <2>1, <2>3
<1> QED BY <1>3, <1>4

\* The period after it, and its end.
LEMMA ChangedEdge ==
  ASSUME LedRanges, NEW wren, NEW di, PwmEdge(wren, di), NEW prev \in 0..Highest, Changed(prev),
         cmp' = cmp, pause' = pause - 1
  PROVE  (Changed(prev)' \/ Steady') /\ step' \in 0..2
<1> USE LevelBounds, PeriodGoesOn, EdgeCounts
<1>1. /\ cmp \in 0..Highest /\ step \in 0..2 /\ cnt \in 0..Highest /\ pause \in Nat
      /\ Distance(prev, cmp) <= 2 /\ on = Count(cmp) /\ Low(prev)' = Low(prev) /\ High(prev)' = High(prev)
      /\ Distance(prev, cmp)' <= 2
      /\ shown = Unknown \/ (Low(prev) <= shown /\ shown <= High(prev))
      /\ pause + Seen >= Levels + 1 /\ shown \in Int
  BY DEF LedRanges, Changed, Low, High, Distance
<1>2. on' = Count(cmp)'
  BY <1>1 DEF Count
<1>3. CASE cnt = 0
  <2>1. on = cmp /\ shown' = cmp
    BY <1>1, <1>3
  <2>2. step' = IF on # Unknown /\ shown # Unknown THEN Distance(on, shown) ELSE step
    BY <1>3 DEF PwmEdge
  <2>3. step' \in 0..2
    BY <1>1, <2>1, <2>2 DEF Distance, Low, High
  <2> QED BY <1>1, <1>2, <2>1, <2>3 DEF Steady
<1>4. CASE cnt # 0
  <2>1. shown' = shown /\ step' = step /\ pause' + Seen' >= Levels + 1
    BY <1>1, <1>4
  <2> QED BY <1>1, <1>2, <2>1 DEF Changed
<1> QED BY <1>3, <1>4

\* An edge without a store to the watched LED keeps the phase.
LEMMA QuietEdge ==
  ASSUME LedRanges, PhaseOfLed, NEW wren, NEW di, PwmEdge(wren, di), cmp' = cmp,
         pause = 0 \/ pause' = pause - 1
  PROVE  PhaseOfLed' /\ step' \in 0..2
<1>1. CASE Steady
  BY <1>1, SteadyEdge DEF PhaseOfLed
<1>2. ASSUME NEW prev \in 0..Highest, Changing(prev) \/ Changed(prev)
      PROVE  PhaseOfLed' /\ step' \in 0..2
  <2>1. Seen \in 1..Levels /\ pause \in Nat
    BY PeriodGoesOn DEF LedRanges
  <2>2. pause # 0
    BY <1>2, <2>1, LevelBounds DEF Changing, Changed
  <2>3. pause' = pause - 1
    BY <2>2
  <2>4. CASE Changing(prev)
    BY <2>3, <2>4, ChangingEdge DEF PhaseOfLed
  <2>5. CASE Changed(prev)
    BY <2>3, <2>5, ChangedEdge DEF PhaseOfLed
  <2> QED BY <1>2, <2>4, <2>5
<1> QED BY <1>1, <1>2 DEF PhaseOfLed

\* A store is due only where the level has long been steady.
LEMMA StoreFindsSteady ==
  ASSUME LedRanges, PhaseOfLed, pause = 0
  PROVE  Steady
<1>1. Seen \in 1..Levels
  BY LevelBounds DEF LedRanges, Seen
<1> QED BY <1>1, LevelBounds DEF PhaseOfLed, Changing, Changed

\* A store, to the watched LED or to another, and the pause after it.
LEMMA StoreKeepsPhase ==
  ASSUME LedRanges, PhaseOfLed, NEW val \in 0..Highest, LED_SET(val),
         id = watched => val = cmp \/ (Distance(val, cmp) <= 2 /\ pause' \in Delays)
  PROVE  /\ PhaseOfLed' /\ step' \in 0..2
         /\ cmp' = IF id = watched THEN val ELSE cmp
<1> USE LevelBounds
<1>1. /\ pause = 0 /\ PwmEdge(id = watched, val) /\ Steady
      /\ cmp' = IF id = watched THEN val % Levels ELSE cmp
  BY StoreFindsSteady DEF LED_SET, PwmEdge
<1>2. val % Levels = val
  BY Turn
<1>3. CASE cmp' = cmp
  BY <1>1, <1>2, <1>3, QuietEdge
<1>4. CASE cmp' # cmp
  <2>1. id = watched /\ cmp' = val /\ Distance(val, cmp) <= 2 /\ pause' \in Delays
    BY <1>1, <1>2, <1>4
  <2>2. pause' \in Nat /\ pause' >= 2 * Levels
    BY <2>1, PauseAssumption
  <2>3. Distance(cmp, cmp') <= 2 /\ cmp' \in 0..Highest
    BY <2>1 DEF Distance, LedRanges
  <2>4. \E prev \in 0..Highest : Changing(prev)'
    BY <1>1, <2>2, <2>3, StoreEdge DEF LedRanges
  <2>5. step' \in 0..2
    <3>1. step' = IF cnt = 0 /\ on # Unknown /\ shown # Unknown THEN Distance(on, shown) ELSE step
      BY <1>1 DEF PwmEdge
    <3>2. cnt = 0 => Count(cmp) = cmp
      BY <1>1, EdgeCounts DEF LedRanges
    <3> QED BY <1>1, <3>1, <3>2 DEF Steady, Distance, LedRanges
  <2> QED BY <1>1, <1>2, <2>4, <2>5 DEF PhaseOfLed
<1> QED BY <1>3, <1>4

LEMMA PwmRanges ==
  ASSUME LedRanges, NEW wren, NEW di, PwmEdge(wren, di), step' \in 0..2, cmp' \in 0..Highest,
         led_pc' \in {"set", "down", "up"}, id' \in LEDs, level' \in 0..Highest, pause' \in Nat
  PROVE  LedRanges'
<1>1. watched' = watched
  BY DEF PwmEdge
<1> QED BY <1>1, PeriodGoesOn, EdgeCounts DEF LedRanges

LEMMA BreatheStep ==
  ASSUME LedRanges, Follows, PhaseOfLed, led_program = "led_breathe", LedNext
  PROVE  LedRanges' /\ Follows' /\ PhaseOfLed'
<1> USE LevelBounds
<1>1. /\ level \in 0..Highest /\ cmp \in 0..Highest /\ id \in LEDs /\ watched \in LEDs
      /\ Gamma(level) \in 0..Highest /\ Highest \in 0..Highest
  BY GammaStep DEF LedRanges
<1>2. /\ \A l \in LEDs : After(l) \in LEDs /\ After(l) # l
      /\ \A wren, di : PwmEdge(wren, di) => watched' = watched
  BY DEF LEDs, After, PwmEdge
<1>3. CASE SetAll
  <2>1. /\ led_pc = "set" /\ LED_SET(Highest) /\ id' = After(id) /\ level' = level
        /\ led_pc' = CASE id # "BLUE" -> "set" [] led_program = "led" -> "gamma" [] OTHER -> "down"
        /\ pause' \in Nat
    BY <1>3, PauseAssumption DEF SetAll
  <2>2. cmp = Highest /\ level = Highest
    BY <2>1 DEF Follows
  <2>3. PhaseOfLed' /\ step' \in 0..2 /\ cmp' = Highest
    BY <1>1, <2>1, <2>2, StoreKeepsPhase
  <2>4. led_pc' \in {"set", "down"}
    BY <2>1
  <2>5. LedRanges'
    BY <1>1, <1>2, <2>1, <2>3, <2>4, PwmRanges DEF LED_SET
  <2>6. Distance(Gamma(Highest), Highest) <= 2
    BY GammaStep DEF Distance
  <2>7. (Gamma(Highest))' = Gamma(Highest) /\ Gamma(level)' = Gamma(level')
    BY DEF Gamma
  <2> QED BY <2>1, <2>2, <2>3, <2>4, <2>5, <2>6, <2>7 DEF Follows
<1>4. CASE BreatheDown \/ BreatheUp
  <2>1. /\ led_pc \in {"down", "up"} /\ LED_SET(Gamma(level)) /\ pause' \in Delays
        /\ led_pc' \in {"down", "up"}
        /\ \/ id' = id /\ level' \in {level - 1, level, level + 1} /\ level' \in 0..Highest
           \/ id' = After(id) /\ level = Highest /\ level' = level
    BY <1>1, <1>4 DEF BreatheDown, BreatheUp
  <2>2. id = watched => Distance(Gamma(level), cmp) <= 2
    BY <2>1 DEF Follows
  <2>3. PhaseOfLed' /\ step' \in 0..2 /\ cmp' = IF id = watched THEN Gamma(level) ELSE cmp
    BY <1>1, <2>1, <2>2, StoreKeepsPhase
  <2>4. pause' \in Nat
    BY <2>1, PauseAssumption
  <2>5. LedRanges'
    BY <1>1, <1>2, <2>1, <2>3, <2>4, PwmRanges DEF LED_SET
  <2>6. watched' = watched
    BY <1>2, <2>1 DEF LED_SET
  <2>7. Follows'
    <3>1. CASE id' = id
      <4>1. CASE id = watched
        <5>1. Distance(Gamma(level'), Gamma(level)) <= 2
          <6>1. CASE level' = level
            BY <1>1, <6>1 DEF Distance
          <6>2. CASE level' = level + 1
            BY <1>1, <2>1, <6>2, GammaStep DEF Distance
          <6>3. CASE level' = level - 1
            <7>1. level' \in 0..(Highest - 1) /\ level = level' + 1
              BY <1>1, <2>1, <6>3
            <7>2. Gamma(level') <= Gamma(level) /\ Gamma(level) <= Gamma(level') + 2
              BY <7>1, GammaStep
            <7>3. Gamma(level') \in Int
              BY <7>1, GammaStep
            <7> QED BY <1>1, <7>2, <7>3 DEF Distance
          <6> QED BY <2>1, <3>1, <6>1, <6>2, <6>3
        <5>2. Gamma(level)' = Gamma(level')
          BY DEF Gamma
        <5> QED BY <2>1, <2>3, <2>6, <3>1, <4>1, <5>1, <5>2 DEF Follows, Distance
      <4>2. CASE id # watched
        <5>1. cmp' \in {Highest, Gamma(Highest)}
          BY <2>3, <4>2 DEF Follows
        <5> QED BY <2>1, <2>6, <3>1, <4>2, <5>1 DEF Follows, Gamma
      <4> QED BY <4>1, <4>2
    <3>2. CASE id' = After(id) /\ level = Highest /\ level' = level
      <4>1. cmp' \in {Highest, Gamma(Highest)}
        BY <2>3, <3>2 DEF Follows
      <4>2. Distance(Gamma(Highest), cmp') <= 2
        BY <4>1, GammaStep DEF Distance
      <4>3. Gamma(level)' = Gamma(Highest) /\ Gamma(Highest)' = Gamma(Highest)
        BY <3>2 DEF Gamma
      <4> QED BY <2>1, <4>1, <4>2, <4>3 DEF Follows, Distance
    <3> QED BY <2>1, <3>1, <3>2
  <2> QED BY <2>3, <2>5, <2>7
<1>5. CASE Pauses
  <2>1. /\ pause > 0 /\ PwmEdge(FALSE, 0) /\ pause' = pause - 1
        /\ led_program' = led_program /\ led_pc' = led_pc /\ id' = id /\ level' = level
        /\ led_pc' \in {"set", "down", "up"} /\ pause' \in Nat
    <3>1. pause \in Nat /\ led_pc \in {"set", "down", "up"}
      BY DEF LedRanges
    <3>2. pause > 0
      BY <1>5, <3>1 DEF Pauses
    <3>3. /\ PwmEdge(FALSE, 0) /\ pause' = (IF pause = 0 THEN 0 ELSE pause - 1)
          /\ led_program' = led_program /\ led_pc' = led_pc /\ id' = id /\ level' = level
      BY <1>5, Zenon DEF Pauses
    <3>4. pause' = pause - 1 /\ pause' \in Nat
      BY <3>1, <3>2, <3>3
    <3> QED BY <3>1, <3>2, <3>3, <3>4, Zenon
  <2>2. cmp' = cmp /\ watched' = watched
    BY <2>1 DEF PwmEdge
  <2>3. PhaseOfLed' /\ step' \in 0..2
    BY <2>1, <2>2, QuietEdge
  <2>4. LedRanges'
    BY <1>1, <2>1, <2>2, <2>3, PwmRanges
  <2>5. Follows'
    BY <2>1, <2>2 DEF Follows, Gamma, Distance
  <2> QED BY <2>3, <2>4, <2>5
<1>6. ~SetGamma
  BY DEF SetGamma, LedRanges
<1> QED BY <1>3, <1>4, <1>5, <1>6 DEF LedNext

LEMMA BreatheStart == ProgramsInit => BreatheInv
<1>1. ASSUME NEW p, NEW l \in LEDs, NEW phase \in 0..Highest, Lit(p, l, phase)
      PROVE  BreatheInv
  <2>1. /\ led_pc = "set" /\ id = "RED" /\ level = Highest /\ pause = 0 /\ watched = l /\ cnt = phase
        /\ cmp = Highest /\ on = Unknown /\ shown = Unknown /\ step = 0
    BY <1>1 DEF Lit
  <2>2. LedRanges
    BY <2>1, LevelBounds DEF LedRanges, LEDs, Unknown
  <2> QED BY <2>1, <2>2 DEF BreatheInv, Follows, PhaseOfLed, Steady
<1>2. LedAbsent => BreatheInv
  BY DEF LedAbsent, Lit, BreatheInv
<1> QED BY <1>1, <1>2 DEF ProgramsInit, LedInit

LEMMA BreatheKept == BreatheInv /\ UNCHANGED ledVars => BreatheInv'
BY DEF ledVars, pwmVars, BreatheInv, LedRanges, Follows, PhaseOfLed, Steady, Changing, Changed,
       Seen, Count, Low, High

\* For every number of levels, wherever in a period the next one is stored:
\* no period of a breathing LED is on for more than two edges longer or
\* shorter than the one before (led_breathe.c:18-28, pwm.v:21-29).
THEOREM BreathesSmoothly == ProgramsSpec => []NoJump
<1>1. BreatheInv /\ [ProgramsNext]_programsVars => BreatheInv'
  <2> SUFFICES ASSUME BreatheInv, [ProgramsNext]_programsVars PROVE BreatheInv'
    OBVIOUS
  <2>1. UNCHANGED ledVars \/ LedNext
    BY DEF ProgramsNext, programsVars
  <2>2. CASE LedNext
    <3>1. led_program' = led_program
      BY <2>2 DEF LedNext, SetAll, SetGamma, BreatheDown, BreatheUp, Pauses
    <3> QED BY <2>2, <3>1, BreatheStep DEF BreatheInv
  <2> QED BY <2>1, <2>2, BreatheKept
<1>2. BreatheInv => NoJump
  BY DEF BreatheInv, NoJump, LedRanges
<1> QED BY <1>1, <1>2, BreatheStart, PTL DEF ProgramsSpec
-----------------------------------------------------------------------------
(* What is computed of the counters.                                       *)

\* What a counter went on by since it was read, over one wrap.
Gone(now, then) == IF now >= then THEN now - then ELSE now - then + CountMod

LEMMA CounterGoesOn ==
  ASSUME NEW x \in 0..(CountMod - 1), NEW then \in 0..(CountMod - 1), NEW p \in Nat,
         Gone(x, then) + p < CountMod
  PROVE  (x + p) % CountMod \in 0..(CountMod - 1) /\ Gone((x + p) % CountMod, then) = Gone(x, then) + p
<1>1. CountMod \in Nat /\ Gone(x, then) \in Nat /\ p < CountMod
  BY CountAssumption DEF Gone
<1>2. CASE x + p < CountMod
  <2>1. (x + p) % CountMod = x + p
    BY <1>1, <1>2, Turn
  <2> QED BY <1>1, <1>2, <2>1 DEF Gone
<1>3. CASE x + p >= CountMod
  <2> DEFINE y == x + p - CountMod
  <2>1. y \in 0..(CountMod - 1)
    BY <1>1, <1>3
  <2>2. (y + CountMod) % CountMod = y
    BY <1>1, <2>1, Turn
  <2>3. y + CountMod = x + p
    BY <1>1
  <2>4. (x + p) % CountMod = y
    BY <2>2, <2>3
  <2> QED BY <1>1, <1>3, <2>1, <2>4 DEF Gone
<1> QED BY <1>1, <1>2, <1>3

\* A difference that fits an int is what went by.
LEMMA DifferenceFits ==
  ASSUME NEW now \in 0..(CountMod - 1), NEW then \in 0..(CountMod - 1), 2 * Gone(now, then) < CountMod
  PROVE  Int32(now - then) = Gone(now, then)
<1>1. CountMod \in Nat
  BY CountAssumption
<1>2. Gone(now, then) \in 0..(CountMod - 1)
  BY <1>1 DEF Gone
<1>3. (now - then) % CountMod = Gone(now, then)
  <2>1. now - then = Gone(now, then) \/ now - then = Gone(now, then) - CountMod
    BY <1>1 DEF Gone
  <2> QED BY <1>1, <1>2, <2>1, Turn
<1> QED BY <1>1, <1>2, <1>3 DEF Int32

\* The ticks in n edges.
LEMMA TicksPassed ==
  ASSUME NEW per \in Nat \ {0}, NEW e \in Nat, NEW n \in Nat,
         NEW p, p = (e + n) \div per - e \div per
  PROVE  /\ p \in 0..n /\ per * p = n + (e % per) - ((e + n) % per)
         /\ e % per \in 0..(per - 1) /\ (e + n) % per \in 0..(per - 1)
<1>1. /\ e \div per \in Int /\ e % per \in 0..(per - 1) /\ e = per * (e \div per) + (e % per)
  OBVIOUS
<1>2. /\ (e + n) \div per \in Int /\ (e + n) % per \in 0..(per - 1)
      /\ e + n = per * ((e + n) \div per) + ((e + n) % per)
  OBVIOUS
<1> DEFINE a == e \div per
           b == (e + n) \div per
<1> HIDE DEF a, b
<1>3. p \in Int /\ per * p = per * b - per * a
  BY <1>1, <1>2 DEF a, b
<1>4. per * p = n + (e % per) - ((e + n) % per)
  BY <1>1, <1>2, <1>3 DEF a, b
<1>5. p >= 0
  <2> SUFFICES ASSUME p <= -1 PROVE FALSE
    BY <1>3
  <2>1. per * p <= -per
    BY <1>3
  <2> QED BY <1>1, <1>2, <1>4, <2>1
<1>6. p <= n
  <2> SUFFICES ASSUME p >= n + 1 PROVE FALSE
    BY <1>3
  <2>1. per * p >= per * (n + 1)
    BY <1>3
  <2>2. per * (n + 1) >= n + per
    OBVIOUS
  <2> QED BY <1>1, <1>2, <1>4, <2>1, <2>2
<1> QED BY <1>1, <1>2, <1>3, <1>4, <1>5, <1>6

\* No more ticks than edges, up to a few edges between the reads.
LEMMA FewerTicks ==
  ASSUME NEW per \in Nat \ {0}, NEW p \in Int, NEW n \in Nat, per * p <= n + per - 1
  PROVE  p <= n
<1> SUFFICES ASSUME p >= n + 1 PROVE FALSE
  OBVIOUS
<1>1. per * p >= per * (n + 1)
  OBVIOUS
<1>2. per * (n + 1) >= n + per
  OBVIOUS
<1> QED BY <1>1, <1>2

\* round() gives the clock: what it loses by dividing by a whole tenth, and what
\* the reads cost, is less than the half it rounds by.
LEMMA ClockFigure ==
  ASSUME NEW c \in Nat \ {0}, NEW C \in Nat, NEW T \in Nat, NEW R \in Nat,
         C >= 20 * c * c + 10 * c * R + 30 * R,
         C - 2 * R - c < c * T, c * T < C + 2 * R + c
  PROVE  round(C, T) = c
<1> DEFINE d == T \div 10
           res == C \div d
<1>1. d \in Int /\ 10 * d <= T /\ T <= 10 * d + 9
  OBVIOUS
<1>2. T >= 20 * c + 10 * R
  <2> SUFFICES ASSUME T <= 20 * c + 10 * R - 1 PROVE FALSE
    OBVIOUS
  <2>1. c * T <= c * (20 * c + 10 * R - 1)
    OBVIOUS
  <2>2. c * (20 * c + 10 * R - 1) = 20 * c * c + 10 * c * R - c
    OBVIOUS
  <2> QED BY <2>1, <2>2
<1>3. d \in Nat \ {0} /\ d >= 2 * c + R
  BY <1>1, <1>2
<1> HIDE DEF d
<1>4. 10 * (c * d) <= c * T /\ c * T <= 10 * (c * d) + 9 * c
  <2>1. c * (10 * d) <= c * T /\ c * T <= c * (10 * d + 9)
    BY <1>1, <1>3
  <2>2. c * (10 * d) = 10 * (c * d) /\ c * (10 * d + 9) = 10 * (c * d) + 9 * c
    BY <1>3
  <2> QED BY <2>1, <2>2
<1>5. d * (10 * c - 5) = 10 * (c * d) - 5 * d /\ d * (10 * c + 4 + 1) = 10 * (c * d) + 5 * d
  BY <1>3
<1>6. res \in (10 * c - 5)..(10 * c + 4)
  <2>1. c * d \in Int /\ c * T \in Int
    BY <1>3
  <2>2. d * (10 * c - 5) <= C /\ C < d * (10 * c + 4 + 1)
    BY <1>3, <1>4, <1>5, <2>1
  <2> QED BY <1>3, <2>2, QuotientWithin
<1> HIDE DEF res
<1>7. round(C, T) = res \div 10 + (IF res % 10 >= 5 THEN 1 ELSE 0)
  BY DEF round, res, d
<1>8. CASE res >= 10 * c
  BY <1>6, <1>7, <1>8
<1>9. CASE res < 10 * c
  BY <1>6, <1>7, <1>9
<1> QED BY <1>6, <1>8, <1>9

\* Cycles per instruction, and the inverse, to a twentieth.
CpiShown(k, C, I, R) ==
  C >= 30 * (k + R) /\ C - R - k < k * I /\ k * I < C + R + k =>
    (C * 1000) \div I \in (950 * k)..(1050 * k) /\ k * ((I * 1000) \div C) \in 950..1050

LEMMA CpiFigure == \A k \in 1..16, C \in Nat, I \in Nat, R \in Nat : CpiShown(k, C, I, R)
<1> TAKE k \in 1..16, C \in Nat, I \in Nat, R \in Nat
<1> SUFFICES ASSUME C >= 30 * (k + R) /\ C - R - k < k * I /\ k * I < C + R + k
             PROVE  /\ (C * 1000) \div I \in (950 * k)..(1050 * k)
                    /\ k * ((I * 1000) \div C) \in 950..1050
  BY DEF CpiShown
<1>1. I \in Nat \ {0} /\ C \in Nat \ {0}
  OBVIOUS
<1>2. (C * 1000) \div I \in (950 * k)..(1050 * k)
  <2>1. I * (950 * k) = 950 * (k * I) /\ I * (1050 * k + 1) = 1050 * (k * I) + I
    OBVIOUS
  <2>2. I * (950 * k) <= C * 1000 /\ C * 1000 < I * (1050 * k + 1)
    BY <1>1, <2>1
  <2> QED BY <1>1, <2>2, QuotientWithin
<1> DEFINE q == (I * 1000) \div C
<1>3. q \in Int /\ C * q <= I * 1000 /\ I * 1000 < C * (q + 1)
  BY <1>1
<1> HIDE DEF q
<1>4. k * (C * q) <= k * (I * 1000) /\ k * (I * 1000) < k * (C * (q + 1))
  BY <1>3
<1>5. /\ k * (C * q) = C * (k * q) /\ k * (I * 1000) = 1000 * (k * I)
      /\ k * (C * (q + 1)) = C * (k * q) + k * C
  BY <1>3
<1>6. k * C <= 16 * C
  OBVIOUS
<1>7. k * q \in Int /\ k * I \in Int /\ C * (k * q) \in Int /\ k * C \in Int
  BY <1>3
<1>8. k * q <= 1050
  <2> SUFFICES ASSUME k * q >= 1051 PROVE FALSE
    BY <1>7
  <2>1. C * (k * q) >= C * 1051
    BY <1>7
  <2> QED BY <1>4, <1>5, <1>7, <2>1
<1>9. k * q >= 950
  <2> SUFFICES ASSUME k * q <= 949 PROVE FALSE
    BY <1>7
  <2>1. C * (k * q) <= C * 949
    BY <1>7
  <2> QED BY <1>4, <1>5, <1>6, <1>7, <2>1
<1>10. k * q \in 950..1050
  BY <1>7, <1>8, <1>9
<1>11. k * ((I * 1000) \div C) \in 950..1050
  BY <1>10 DEF q
<1> HIDE DEF q
<1> QED BY <1>2, <1>11

\* A counter that goes on once in per edges keeps its distance from the edges.
LEMMA TicksFollow ==
  ASSUME NEW per \in Nat \ {0}, NEW e \in Nat, NEW n \in Nat, NEW x \in 0..(CountMod - 1),
         NEW then \in 0..(CountMod - 1), NEW ago \in Nat, NEW slack \in Nat, ago + n < CountMod,
         per * Gone(x, then) + (e % per) - ago \in (-slack)..(per - 1)
  PROVE  LET x2 == (x + ((e + n) \div per - e \div per)) % CountMod
         IN /\ x2 \in 0..(CountMod - 1)
            /\ per * Gone(x2, then) + ((e + n) % per) - (ago + n) \in (-slack)..(per - 1)
<1> DEFINE p == (e + n) \div per - e \div per
           g == Gone(x, then)
<1>1. /\ p \in 0..n /\ per * p = n + (e % per) - ((e + n) % per)
      /\ e % per \in 0..(per - 1) /\ (e + n) % per \in 0..(per - 1)
  BY TicksPassed
<1> HIDE DEF p
<1>2. g \in Nat
  BY CountAssumption DEF Gone
<1>3. g <= ago
  BY <1>1, <1>2, FewerTicks
<1>4. /\ (x + p) % CountMod \in 0..(CountMod - 1)
      /\ Gone((x + p) % CountMod, then) = g + p
  BY <1>1, <1>2, <1>3, CounterGoesOn, CountAssumption
<1> HIDE DEF g
<1>5. per * (g + p) = per * g + per * p
  BY <1>1, <1>2
<1>6. per * g + (e % per) - ago \in (-slack)..(per - 1)
  BY DEF g
<1>7. per * (g + p) + ((e + n) % per) - (ago + n) \in (-slack)..(per - 1)
  <2>1. per * g \in Int /\ per * p \in Int
    BY <1>1, <1>2
  <2> QED BY <1>1, <1>5, <1>6, <2>1
<1> QED BY <1>4, <1>7 DEF p

-----------------------------------------------------------------------------

SinceStart == Gone(cycle, start.cycle)
RunEdges == Gone(end.cycle, start.cycle)

Counts == [cycle : 0..(CountMod - 1), instr : 0..(CountMod - 1), time : 0..(CountMod - 1)]

BenchRanges ==
  /\ bench_pc \in {"start_cycle", "start_instr", "start_time", "runs", "end_cycle", "end_instr",
                   "end_time", "main", "reported"}
  /\ f_clk \in Clocks /\ edges \in Nat
  /\ cycle \in 0..(CountMod - 1) /\ instr \in 0..(CountMod - 1) /\ TIME \in 0..(CountMod - 1)
  /\ start \in Counts /\ end \in Counts
  /\ report \in [cpmi : Int, ipmc : Int, f_clk_mhz : Int]

\* How long it was since the first counter was read.
Spent ==
  /\ bench_pc = "start_instr" => SinceStart <= Reading
  /\ bench_pc = "start_time" => SinceStart <= 2 * Reading
  /\ bench_pc = "runs" => SinceStart <= 3 * Reading
  /\ bench_pc = "end_cycle" =>
       SinceStart \in Enough(f_clk)..(Enough(f_clk) + Spread + 3 * Reading)
  /\ bench_pc \in {"end_instr", "end_time", "main"} =>
       RunEdges \in Enough(f_clk)..(Enough(f_clk) + Spread + 3 * Reading)
  /\ bench_pc = "end_instr" => SinceStart \in RunEdges..(RunEdges + Reading)
  /\ bench_pc = "end_time" => SinceStart \in RunEdges..(RunEdges + 2 * Reading)

\* The other two counters follow the edges, up to those between the reads.
InstrFollows ==
  /\ bench_pc \in {"start_time", "runs", "end_cycle", "end_instr"} =>
       Cpi * Gone(instr, start.instr) + (edges % Cpi) - SinceStart \in (-Reading)..(Cpi - 1)
  /\ bench_pc \in {"end_time", "main"} =>
       /\ RunEdges - Reading - Cpi < Cpi * Gone(end.instr, start.instr)
       /\ Cpi * Gone(end.instr, start.instr) < RunEdges + Reading + Cpi

TimeFollows ==
  /\ bench_pc \in {"runs", "end_cycle", "end_instr", "end_time"} =>
       f_clk * Gone(TIME, start.time) + (edges % f_clk) - SinceStart \in (-(2 * Reading))..(f_clk - 1)
  /\ bench_pc = "main" =>
       /\ RunEdges - 2 * Reading - f_clk < f_clk * Gone(end.time, start.time)
       /\ f_clk * Gone(end.time, start.time) < RunEdges + 2 * Reading + f_clk

BenchInv == BenchRanges /\ Spent /\ InstrFollows /\ TimeFollows /\ ClockReported

LEMMA LongEnough ==
  ASSUME NEW clock \in Clocks
  PROVE  /\ clock \in Nat \ {0} /\ CountMod \in Nat /\ Reading \in Nat \ {0} /\ Spread \in Nat
         /\ Cpi \in 1..16
         /\ Enough(clock) \in Nat /\ Enough(clock) >= 30 * (Cpi + Reading)
         /\ Enough(clock) >= 20 * clock * clock + 10 * clock * Reading + 30 * Reading
         /\ 2 * (Enough(clock) + Spread + 6 * Reading) < CountMod
<1>1. clock \in Nat \ {0} /\ Reading \in Nat \ {0} /\ Cpi \in 1..16 /\ 2 * Most(clock) < CountMod
  BY CountAssumption
<1>2. clock * clock \in Nat /\ clock * Reading \in Nat
  BY <1>1
<1>3. 20 * clock * clock = 20 * (clock * clock) /\ 10 * clock * Reading = 10 * (clock * Reading)
  BY <1>1
<1> QED BY <1>1, <1>2, <1>3, CountAssumption DEF Enough, Most

\* Edges go by: every counter goes on, and follows the edges as before.
LEMMA EdgesGoBy ==
  ASSUME BenchRanges, NEW n \in Nat, Elapse(n), f_clk' = f_clk,
         NEW s \in Counts, NEW slack \in Nat, NEW ago \in Nat, ago + n < CountMod
  PROVE  /\ edges' \in Nat
         /\ cycle' \in 0..(CountMod - 1) /\ instr' \in 0..(CountMod - 1) /\ TIME' \in 0..(CountMod - 1)
         /\ Gone(cycle, s.cycle) + n < CountMod => Gone(cycle', s.cycle) = Gone(cycle, s.cycle) + n
         /\ Cpi * Gone(instr, s.instr) + (edges % Cpi) - ago \in (-slack)..(Cpi - 1) =>
              Cpi * Gone(instr', s.instr) + (edges' % Cpi) - (ago + n) \in (-slack)..(Cpi - 1)
         /\ f_clk * Gone(TIME, s.time) + (edges % f_clk) - ago \in (-slack)..(f_clk - 1) =>
              f_clk * Gone(TIME', s.time) + (edges' % f_clk) - (ago + n) \in (-slack)..(f_clk - 1)
<1> USE DEF BenchRanges, Counts
<1>1. f_clk \in Nat \ {0} /\ CountMod \in Nat \ {0} /\ Cpi \in Nat \ {0}
  BY LongEnough
<1>2. /\ edges' = edges + n /\ cycle' = (cycle + n) % CountMod
      /\ instr' = (instr + ((edges + n) \div Cpi - edges \div Cpi)) % CountMod
      /\ TIME' = (TIME + ((edges + n) \div f_clk - edges \div f_clk)) % CountMod
  BY DEF Elapse
<1>3. Gone(cycle, s.cycle) + n < CountMod => Gone(cycle', s.cycle) = Gone(cycle, s.cycle) + n
  BY <1>2, CounterGoesOn
<1>4. /\ (edges + n) \div Cpi - edges \div Cpi \in Int
      /\ (edges + n) \div f_clk - edges \div f_clk \in Int
  BY <1>1, TicksPassed
<1>5. /\ cycle' \in 0..(CountMod - 1) /\ instr' \in 0..(CountMod - 1) /\ TIME' \in 0..(CountMod - 1)
  BY <1>1, <1>2, <1>4
<1>6. Cpi * Gone(instr, s.instr) + (edges % Cpi) - ago \in (-slack)..(Cpi - 1) =>
        Cpi * Gone(instr', s.instr) + (edges' % Cpi) - (ago + n) \in (-slack)..(Cpi - 1)
  BY <1>1, <1>2, TicksFollow
<1>7. f_clk * Gone(TIME, s.time) + (edges % f_clk) - ago \in (-slack)..(f_clk - 1) =>
        f_clk * Gone(TIME', s.time) + (edges' % f_clk) - (ago + n) \in (-slack)..(f_clk - 1)
  BY <1>1, <1>2, TicksFollow
<1> QED BY <1>2, <1>3, <1>5, <1>6, <1>7

\* A counter just read has not gone on.
LEMMA JustRead ==
  ASSUME BenchRanges
  PROVE  /\ Gone(cycle, cycle) = 0 /\ Gone(instr, instr) = 0 /\ Gone(TIME, TIME) = 0
         /\ edges % Cpi \in 0..(Cpi - 1) /\ edges % f_clk \in 0..(f_clk - 1)
BY LongEnough DEF BenchRanges, Gone

LEMMA StartStep == BenchInv /\ dhrystone_timer_start => BenchInv'
<1> SUFFICES ASSUME BenchInv, dhrystone_timer_start PROVE BenchInv'
  OBVIOUS
<1> USE DEF BenchInv
<1> PICK n \in 1..Reading : Elapse(n)
  BY DEF dhrystone_timer_start, Read
<1>1. f_clk' = f_clk /\ end' = end /\ report' = report
  BY DEF dhrystone_timer_start, Read
<1>2. /\ f_clk \in Clocks /\ f_clk \in Nat \ {0} /\ CountMod \in Nat /\ Reading \in Nat \ {0}
      /\ Cpi \in 1..16 /\ Spread \in Nat /\ Enough(f_clk) \in Nat
      /\ 2 * (Enough(f_clk) + Spread + 6 * Reading) < CountMod
  BY LongEnough DEF BenchRanges
<1>3. start \in Counts
  BY DEF BenchRanges
<1>4. CASE bench_pc = "start_cycle"
  <2>1. bench_pc' = "start_instr" /\ start' = [start EXCEPT !.cycle = cycle]
    BY <1>4 DEF dhrystone_timer_start, Read
  <2>2. start' \in Counts /\ start'.cycle = cycle
    BY <1>3, <2>1 DEF BenchRanges, Counts
  <2>3. /\ edges' \in Nat
        /\ cycle' \in 0..(CountMod - 1) /\ instr' \in 0..(CountMod - 1) /\ TIME' \in 0..(CountMod - 1)
        /\ Gone(cycle, start'.cycle) + n < CountMod =>
             Gone(cycle', start'.cycle) = Gone(cycle, start'.cycle) + n
    BY <1>1, <1>2, <2>2, EdgesGoBy
  <2>4. Gone(cycle', start'.cycle) = n
    BY <1>2, <2>2, <2>3, JustRead
  <2>5. BenchRanges'
    BY <1>1, <2>1, <2>2, <2>3 DEF BenchRanges
  <2>6. Spent'
    BY <1>2, <2>1, <2>4 DEF Spent, SinceStart, Gone
  <2> QED BY <2>1, <2>5, <2>6 DEF InstrFollows, TimeFollows, ClockReported
<1>5. CASE bench_pc = "start_instr"
  <2>1. bench_pc' = "start_time" /\ start' = [start EXCEPT !.instr = instr]
    BY <1>5 DEF dhrystone_timer_start, Read
  <2>2. start' \in Counts /\ start'.cycle = start.cycle /\ start'.instr = instr
    BY <1>3, <2>1 DEF BenchRanges, Counts
  <2>3. SinceStart \in 0..Reading
    BY <1>2, <1>5 DEF Spent, SinceStart, Gone, BenchRanges, Counts
  <2>4. Cpi * Gone(instr, start'.instr) + (edges % Cpi) - SinceStart \in (-Reading)..(Cpi - 1)
    BY <1>2, <2>2, <2>3, JustRead
  <2>5. /\ edges' \in Nat
        /\ cycle' \in 0..(CountMod - 1) /\ instr' \in 0..(CountMod - 1) /\ TIME' \in 0..(CountMod - 1)
        /\ Gone(cycle', start'.cycle) = SinceStart + n
        /\ Cpi * Gone(instr', start'.instr) + (edges' % Cpi) - (SinceStart + n) \in (-Reading)..(Cpi - 1)
    <3>1. SinceStart \in Nat /\ SinceStart + n < CountMod /\ Gone(cycle, start'.cycle) = SinceStart
      BY <1>2, <2>2, <2>3 DEF SinceStart
    <3> QED BY <1>1, <1>2, <2>2, <2>4, <3>1, EdgesGoBy
  <2>6. BenchRanges'
    BY <1>1, <2>1, <2>2, <2>5 DEF BenchRanges
  <2>7. SinceStart' = SinceStart + n
    BY <2>5 DEF SinceStart
  <2>8. Spent'
    BY <1>2, <2>1, <2>3, <2>7 DEF Spent
  <2>9. InstrFollows'
    BY <2>1, <2>5, <2>7 DEF InstrFollows
  <2> QED BY <2>1, <2>6, <2>8, <2>9 DEF TimeFollows, ClockReported
<1>6. CASE bench_pc = "start_time"
  <2>1. bench_pc' = "runs" /\ start' = [start EXCEPT !.time = TIME]
    BY <1>6 DEF dhrystone_timer_start, Read
  <2>2. /\ start' \in Counts /\ start'.cycle = start.cycle /\ start'.instr = start.instr
        /\ start'.time = TIME
    BY <1>3, <2>1 DEF BenchRanges, Counts
  <2>3. SinceStart \in 0..(2 * Reading)
    BY <1>2, <1>6 DEF Spent, SinceStart, Gone, BenchRanges, Counts
  <2>4. /\ Cpi * Gone(instr, start'.instr) + (edges % Cpi) - SinceStart \in (-Reading)..(Cpi - 1)
        /\ f_clk * Gone(TIME, start'.time) + (edges % f_clk) - SinceStart \in (-(2 * Reading))..(f_clk - 1)
    BY <1>2, <1>6, <2>2, <2>3, JustRead DEF InstrFollows
  <2>5. /\ edges' \in Nat
        /\ cycle' \in 0..(CountMod - 1) /\ instr' \in 0..(CountMod - 1) /\ TIME' \in 0..(CountMod - 1)
        /\ Gone(cycle', start'.cycle) = SinceStart + n
        /\ Cpi * Gone(instr', start'.instr) + (edges' % Cpi) - (SinceStart + n) \in (-Reading)..(Cpi - 1)
        /\ f_clk * Gone(TIME', start'.time) + (edges' % f_clk) - (SinceStart + n)
             \in (-(2 * Reading))..(f_clk - 1)
    <3>1. SinceStart \in Nat /\ SinceStart + n < CountMod /\ Gone(cycle, start'.cycle) = SinceStart
      BY <1>2, <2>2, <2>3 DEF SinceStart
    <3>2. 2 * Reading \in Nat /\ n \in Nat
      BY <1>2
    <3> QED BY <1>1, <1>2, <2>2, <2>4, <3>1, <3>2, EdgesGoBy
  <2>6. BenchRanges'
    BY <1>1, <2>1, <2>2, <2>5 DEF BenchRanges
  <2>7. SinceStart' = SinceStart + n
    BY <2>5 DEF SinceStart
  <2>8. Spent'
    BY <1>2, <2>1, <2>3, <2>7 DEF Spent
  <2>9. InstrFollows' /\ TimeFollows'
    BY <1>1, <2>1, <2>5, <2>7 DEF InstrFollows, TimeFollows
  <2> QED BY <2>1, <2>6, <2>8, <2>9 DEF ClockReported
<1> QED BY <1>4, <1>5, <1>6 DEF dhrystone_timer_start, Read

LEMMA RunsStep == BenchInv /\ Runs => BenchInv'
<1> SUFFICES ASSUME BenchInv, Runs PROVE BenchInv'
  OBVIOUS
<1> USE DEF BenchInv
<1> PICK n \in Enough(f_clk)..(Enough(f_clk) + Spread) : Elapse(n)
  BY DEF Runs
<1>1. /\ bench_pc = "runs" /\ bench_pc' = "end_cycle"
      /\ f_clk' = f_clk /\ start' = start /\ end' = end /\ report' = report
  BY DEF Runs
<1>2. /\ f_clk \in Clocks /\ f_clk \in Nat \ {0} /\ CountMod \in Nat /\ Reading \in Nat \ {0}
      /\ Cpi \in 1..16 /\ Spread \in Nat /\ Enough(f_clk) \in Nat
      /\ 2 * (Enough(f_clk) + Spread + 6 * Reading) < CountMod
  BY LongEnough DEF BenchRanges
<1>3. start \in Counts
  BY DEF BenchRanges
<1>4. SinceStart \in 0..(3 * Reading)
  BY <1>1, <1>2 DEF Spent, SinceStart, Gone, BenchRanges, Counts
<1>5. /\ edges' \in Nat
      /\ cycle' \in 0..(CountMod - 1) /\ instr' \in 0..(CountMod - 1) /\ TIME' \in 0..(CountMod - 1)
      /\ SinceStart' = SinceStart + n
      /\ Cpi * Gone(instr', start.instr) + (edges' % Cpi) - (SinceStart + n) \in (-Reading)..(Cpi - 1)
      /\ f_clk * Gone(TIME', start.time) + (edges' % f_clk) - (SinceStart + n)
           \in (-(2 * Reading))..(f_clk - 1)
  <2>1. n \in Nat /\ SinceStart \in Nat /\ SinceStart + n < CountMod /\ 2 * Reading \in Nat
    BY <1>2, <1>4
  <2>2. /\ Cpi * Gone(instr, start.instr) + (edges % Cpi) - SinceStart \in (-Reading)..(Cpi - 1)
        /\ f_clk * Gone(TIME, start.time) + (edges % f_clk) - SinceStart \in (-(2 * Reading))..(f_clk - 1)
    BY <1>1 DEF InstrFollows, TimeFollows
  <2> QED BY <1>1, <1>2, <1>3, <2>1, <2>2, EdgesGoBy DEF SinceStart
<1>6. BenchRanges'
  BY <1>1, <1>5 DEF BenchRanges
<1>7. Enough(f_clk)' = Enough(f_clk)
  BY <1>1 DEF Enough
<1>8. Spent'
  BY <1>1, <1>2, <1>4, <1>5, <1>7 DEF Spent
<1>9. InstrFollows' /\ TimeFollows'
  BY <1>1, <1>5 DEF InstrFollows, TimeFollows
<1> QED BY <1>1, <1>6, <1>8, <1>9 DEF ClockReported

LEMMA EndStep == BenchInv /\ dhrystone_timer_end => BenchInv'
<1> SUFFICES ASSUME BenchInv, dhrystone_timer_end PROVE BenchInv'
  OBVIOUS
<1> USE DEF BenchInv
<1> PICK n \in 1..Reading : Elapse(n)
  BY DEF dhrystone_timer_end, Read
<1>1. f_clk' = f_clk /\ start' = start /\ report' = report
  BY DEF dhrystone_timer_end, Read
<1>2. /\ f_clk \in Clocks /\ f_clk \in Nat \ {0} /\ CountMod \in Nat /\ Reading \in Nat \ {0}
      /\ Cpi \in 1..16 /\ Spread \in Nat /\ Enough(f_clk) \in Nat
      /\ 2 * (Enough(f_clk) + Spread + 6 * Reading) < CountMod
  BY LongEnough DEF BenchRanges
<1>3. start \in Counts /\ end \in Counts /\ Enough(f_clk)' = Enough(f_clk)
  BY <1>1 DEF BenchRanges, Enough
<1>4. n \in Nat /\ 2 * Reading \in Nat
  BY <1>2
<1>5. ASSUME SinceStart \in Nat, SinceStart + n < CountMod
      PROVE  /\ edges' \in Nat
             /\ cycle' \in 0..(CountMod - 1) /\ instr' \in 0..(CountMod - 1) /\ TIME' \in 0..(CountMod - 1)
             /\ SinceStart' = SinceStart + n
             /\ Cpi * Gone(instr, start.instr) + (edges % Cpi) - SinceStart \in (-Reading)..(Cpi - 1) =>
                  Cpi * Gone(instr', start.instr) + (edges' % Cpi) - (SinceStart + n)
                    \in (-Reading)..(Cpi - 1)
             /\ f_clk * Gone(TIME, start.time) + (edges % f_clk) - SinceStart
                    \in (-(2 * Reading))..(f_clk - 1) =>
                  f_clk * Gone(TIME', start.time) + (edges' % f_clk) - (SinceStart + n)
                    \in (-(2 * Reading))..(f_clk - 1)
  BY <1>1, <1>2, <1>3, <1>4, <1>5, EdgesGoBy DEF SinceStart
<1>6. CASE bench_pc = "end_cycle"
  <2>1. bench_pc' = "end_instr" /\ end' = [end EXCEPT !.cycle = cycle]
    BY <1>6 DEF dhrystone_timer_end, Read
  <2>2. end' \in Counts /\ end'.cycle = cycle
    BY <1>3, <2>1 DEF BenchRanges, Counts
  <2>3. SinceStart \in Enough(f_clk)..(Enough(f_clk) + Spread + 3 * Reading)
    BY <1>6 DEF Spent
  <2>4. SinceStart \in Nat /\ SinceStart + n < CountMod
    BY <1>2, <2>3
  <2>5. RunEdges' = SinceStart
    BY <1>1, <2>2 DEF RunEdges, SinceStart
  <2>6. BenchRanges'
    BY <1>1, <1>3, <1>5, <2>1, <2>2, <2>4 DEF BenchRanges
  <2>7. Spent'
    BY <1>1, <1>2, <1>3, <1>5, <2>1, <2>3, <2>4, <2>5 DEF Spent
  <2>8. InstrFollows' /\ TimeFollows'
    BY <1>1, <1>5, <1>6, <2>1, <2>4 DEF InstrFollows, TimeFollows
  <2> QED BY <2>1, <2>6, <2>7, <2>8 DEF ClockReported
<1>7. CASE bench_pc = "end_instr"
  <2>1. bench_pc' = "end_time" /\ end' = [end EXCEPT !.instr = instr]
    BY <1>7 DEF dhrystone_timer_end, Read
  <2>2. end' \in Counts /\ end'.cycle = end.cycle /\ end'.instr = instr
    BY <1>3, <2>1 DEF BenchRanges, Counts
  <2>3. /\ RunEdges \in Enough(f_clk)..(Enough(f_clk) + Spread + 3 * Reading)
        /\ SinceStart \in RunEdges..(RunEdges + Reading)
    BY <1>7 DEF Spent
  <2>4. SinceStart \in Nat /\ SinceStart + n < CountMod
    BY <1>2, <2>3
  <2>5. RunEdges' = RunEdges
    BY <1>1, <2>2 DEF RunEdges
  <2>6. BenchRanges'
    BY <1>1, <1>3, <1>5, <2>1, <2>2, <2>4 DEF BenchRanges
  <2>7. Spent'
    BY <1>1, <1>2, <1>3, <1>5, <2>1, <2>3, <2>4, <2>5 DEF Spent
  <2>8. /\ RunEdges - Reading - Cpi < Cpi * Gone(instr, start.instr)
        /\ Cpi * Gone(instr, start.instr) < RunEdges + Reading + Cpi
    <3>1. Cpi * Gone(instr, start.instr) + (edges % Cpi) - SinceStart \in (-Reading)..(Cpi - 1)
      BY <1>7 DEF InstrFollows
    <3>2. Cpi * Gone(instr, start.instr) \in Int /\ edges % Cpi \in 0..(Cpi - 1)
      BY <1>2, <1>3, JustRead DEF Gone, BenchRanges, Counts
    <3> QED BY <1>2, <2>3, <3>1, <3>2
  <2>9. InstrFollows' /\ TimeFollows'
    BY <1>1, <1>5, <1>7, <2>1, <2>2, <2>4, <2>5, <2>8 DEF InstrFollows, TimeFollows
  <2> QED BY <2>1, <2>6, <2>7, <2>9 DEF ClockReported
<1>8. CASE bench_pc = "end_time"
  <2>1. bench_pc' = "main" /\ end' = [end EXCEPT !.time = TIME]
    BY <1>8 DEF dhrystone_timer_end, Read
  <2>2. end' \in Counts /\ end'.cycle = end.cycle /\ end'.instr = end.instr /\ end'.time = TIME
    BY <1>3, <2>1 DEF BenchRanges, Counts
  <2>3. /\ RunEdges \in Enough(f_clk)..(Enough(f_clk) + Spread + 3 * Reading)
        /\ SinceStart \in RunEdges..(RunEdges + 2 * Reading)
    BY <1>8 DEF Spent
  <2>4. SinceStart \in Nat /\ SinceStart + n < CountMod
    BY <1>2, <2>3
  <2>5. RunEdges' = RunEdges
    BY <1>1, <2>2 DEF RunEdges
  <2>6. BenchRanges'
    BY <1>1, <1>3, <1>5, <2>1, <2>2, <2>4 DEF BenchRanges
  <2>7. Spent'
    BY <1>1, <1>3, <2>1, <2>3, <2>5 DEF Spent
  <2>8. /\ RunEdges - 2 * Reading - f_clk < f_clk * Gone(TIME, start.time)
        /\ f_clk * Gone(TIME, start.time) < RunEdges + 2 * Reading + f_clk
    <3>1. f_clk * Gone(TIME, start.time) + (edges % f_clk) - SinceStart \in (-(2 * Reading))..(f_clk - 1)
      BY <1>8 DEF TimeFollows
    <3>2. f_clk * Gone(TIME, start.time) \in Int /\ edges % f_clk \in 0..(f_clk - 1)
      BY <1>2, <1>3, JustRead DEF Gone, BenchRanges, Counts
    <3> QED BY <1>2, <2>3, <3>1, <3>2
  <2>9. InstrFollows' /\ TimeFollows'
    BY <1>1, <1>8, <2>1, <2>2, <2>5, <2>8 DEF InstrFollows, TimeFollows
  <2> QED BY <2>1, <2>6, <2>7, <2>9 DEF ClockReported
<1> QED BY <1>6, <1>7, <1>8 DEF dhrystone_timer_end, Read

LEMMA MainStep == BenchInv /\ main => BenchInv'
<1> SUFFICES ASSUME BenchInv, main PROVE BenchInv'
  OBVIOUS
<1> USE DEF BenchInv
<1> DEFINE instrs == Gone(end.instr, start.instr)
           time == Gone(end.time, start.time)
<1>1. bench_pc = "main" /\ bench_pc' = "reported"
      /\ UNCHANGED <<f_clk, edges, cycle, instr, TIME, start, end>>
  BY DEF main
<1>2. /\ f_clk \in Clocks /\ f_clk \in Nat \ {0} /\ CountMod \in Nat /\ Reading \in Nat \ {0}
      /\ Cpi \in 1..16 /\ Spread \in Nat /\ Enough(f_clk) \in Nat
      /\ Enough(f_clk) >= 30 * (Cpi + Reading)
      /\ Enough(f_clk) >= 20 * f_clk * f_clk + 10 * f_clk * Reading + 30 * Reading
      /\ 2 * (Enough(f_clk) + Spread + 6 * Reading) < CountMod
  BY LongEnough DEF BenchRanges
<1>3. /\ start.cycle \in 0..(CountMod - 1) /\ end.cycle \in 0..(CountMod - 1)
      /\ start.instr \in 0..(CountMod - 1) /\ end.instr \in 0..(CountMod - 1)
      /\ start.time \in 0..(CountMod - 1) /\ end.time \in 0..(CountMod - 1)
  BY DEF BenchRanges, Counts
<1>4. RunEdges \in Enough(f_clk)..(Enough(f_clk) + Spread + 3 * Reading)
  BY <1>1 DEF Spent
<1>5. instrs \in Nat /\ time \in Nat
  BY <1>2, <1>3 DEF Gone
<1>6. RunEdges - Reading - Cpi < Cpi * instrs /\ Cpi * instrs < RunEdges + Reading + Cpi
  BY <1>1 DEF InstrFollows
<1>7. RunEdges - 2 * Reading - f_clk < f_clk * time /\ f_clk * time < RunEdges + 2 * Reading + f_clk
  BY <1>1 DEF TimeFollows
<1> HIDE DEF instrs, time
<1>8. instrs <= RunEdges + Reading /\ time <= RunEdges + 2 * Reading
  <2>1. RunEdges \in Nat /\ Cpi \in Nat \ {0} /\ Cpi * instrs \in Int /\ f_clk * time \in Int
    BY <1>2, <1>4, <1>5
  <2>2. Cpi * instrs <= (RunEdges + Reading) + Cpi - 1
        /\ f_clk * time <= (RunEdges + 2 * Reading) + f_clk - 1
    BY <1>2, <1>6, <1>7, <2>1
  <2>3. RunEdges + Reading \in Nat /\ RunEdges + 2 * Reading \in Nat
    BY <1>2, <2>1
  <2>4. instrs <= RunEdges + Reading
    BY <1>5, <2>1, <2>2, <2>3, FewerTicks
  <2>5. time <= RunEdges + 2 * Reading
    BY <1>2, <1>5, <2>2, <2>3, FewerTicks
  <2> QED BY <2>4, <2>5
<1>9. /\ Int32(end.cycle - start.cycle) = RunEdges
      /\ Int32(end.instr - start.instr) = instrs
      /\ Int32(end.time - start.time) = time
  BY <1>2, <1>3, <1>4, <1>5, <1>8, DifferenceFits DEF RunEdges, instrs, time
<1>10. report' = [cpmi |-> (RunEdges * 1000) \div instrs, ipmc |-> (instrs * 1000) \div RunEdges,
                  f_clk_mhz |-> round(RunEdges, time)]
  BY <1>9 DEF main
<1>11. round(RunEdges, time) = f_clk
  <2>1. RunEdges \in Nat /\ RunEdges >= 20 * f_clk * f_clk + 10 * f_clk * Reading + 30 * Reading
    <3> HIDE DEF BenchInv
    <3>1. 20 * f_clk * f_clk + 10 * f_clk * Reading + 30 * Reading \in Int
      BY <1>2
    <3> QED BY <1>2, <1>4, <3>1
  <2> QED BY <1>2, <1>5, <1>7, <2>1, ClockFigure
<1>12. /\ report'.cpmi \in Int /\ report'.ipmc \in Int
       /\ Near(report'.cpmi, 1000 * Cpi) /\ Near(Cpi * report'.ipmc, 1000)
  <2>1. RunEdges \in Nat /\ RunEdges >= 30 * (Cpi + Reading)
    BY <1>2, <1>4
  <2>2. Cpi \in 1..16 /\ Reading \in Nat /\ instrs \in Nat
    BY <1>2, <1>5
  <2>3. /\ report'.cpmi = (RunEdges * 1000) \div instrs
        /\ report'.ipmc = (instrs * 1000) \div RunEdges
    BY <1>10, Zenon
  <2>4. /\ (RunEdges * 1000) \div instrs \in (950 * Cpi)..(1050 * Cpi)
        /\ Cpi * ((instrs * 1000) \div RunEdges) \in 950..1050
    <3>1. CpiShown(Cpi, RunEdges, instrs, Reading)
      BY <2>1, <2>2, CpiFigure
    <3> QED BY <1>6, <2>1, <3>1, Zenon DEF CpiShown
  <2>5. report'.cpmi \in (950 * Cpi)..(1050 * Cpi) /\ Cpi * report'.ipmc \in 950..1050
    BY <2>3, <2>4
  <2>6. report'.ipmc \in Int
    <3>1. RunEdges \in Nat \ {0}
      BY <2>1, <2>2
    <3> QED BY <2>2, <2>3, <3>1
  <2> HIDE DEF BenchInv
  <2>7. Near(report'.cpmi, 1000 * Cpi)
    BY <2>2, <2>5 DEF Near
  <2>8. Cpi * report'.ipmc \in Int /\ report'.cpmi \in Int
    BY <2>2, <2>5, <2>6
  <2> QED BY <2>5, <2>6, <2>7, <2>8 DEF Near
<1>13. ClockReported'
  <2>1. report'.f_clk_mhz = f_clk'
    BY <1>1, <1>10, <1>11
  <2> HIDE DEF BenchInv
  <2> QED BY <1>12, <2>1 DEF ClockReported
<1>14. report' \in [cpmi : Int, ipmc : Int, f_clk_mhz : Int]
  BY <1>2, <1>10, <1>11, <1>12
<1>15. BenchRanges'
  BY <1>1, <1>14 DEF BenchRanges
<1> QED BY <1>1, <1>13, <1>15 DEF Spent, InstrFollows, TimeFollows

LEMMA BenchKept == BenchInv /\ UNCHANGED benchVars => BenchInv'
<1> SUFFICES ASSUME BenchInv, UNCHANGED benchVars PROVE BenchInv'
  OBVIOUS
<1>1. /\ bench_pc' = bench_pc /\ f_clk' = f_clk /\ edges' = edges /\ cycle' = cycle
      /\ instr' = instr /\ TIME' = TIME /\ start' = start /\ end' = end /\ report' = report
  BY DEF benchVars
<1>2. SinceStart' = SinceStart /\ RunEdges' = RunEdges /\ Enough(f_clk') = Enough(f_clk)
  BY <1>1 DEF SinceStart, RunEdges, Gone
<1>3. BenchRanges' /\ ClockReported'
  <2>1. BenchRanges' <=> BenchRanges
    BY <1>1 DEF BenchRanges
  <2>2. ClockReported' <=> ClockReported
    BY <1>1 DEF ClockReported
  <2> QED BY <2>1, <2>2 DEF BenchInv
<1>4. Spent'
  BY <1>1, <1>2, Zenon DEF BenchInv, Spent
<1>5. InstrFollows'
  BY <1>1, <1>2, Zenon DEF BenchInv, InstrFollows, Gone
<1>6. TimeFollows'
  BY <1>1, <1>2, Zenon DEF BenchInv, TimeFollows, Gone
<1> QED BY <1>3, <1>4, <1>5, <1>6 DEF BenchInv

LEMMA BenchStart == BenchInit => BenchInv
<1> SUFFICES ASSUME NEW clock \in Clocks, NEW phase \in 0..(clock - 1),
                    NEW count \in {0, CountMod \div 2, CountMod - 1}, Begins(clock, phase, count)
             PROVE  BenchInv
  BY DEF BenchInit
<1>1. clock \in Nat \ {0} /\ CountMod \in Nat \ {0}
  BY LongEnough
<1>2. count \in 0..(CountMod - 1)
  BY <1>1
<1>3. BenchRanges
  BY <1>1, <1>2 DEF Begins, BenchRanges, Counts
<1> QED BY <1>3 DEF Begins, BenchInv, Spent, InstrFollows, TimeFollows, ClockReported

\* For every clock, modulus of the counters, cost of a read and length of a run that
\* CountAssumption admits: main reports the board's clock and cycles per instruction,
\* whatever wraps and wherever in a tick the reads fall (main.c:42-50, 58-113).
THEOREM ClockIsReported == ProgramsSpec => []ClockReported
<1> DEFINE Inv == IF image = "benchmark" THEN BenchInv ELSE bench_pc = "start_cycle"
<1>1. ProgramsInit => Inv
  BY BenchStart DEF ProgramsInit, BenchAbsent, Begins
<1>2. Inv /\ [ProgramsNext]_programsVars => Inv'
  <2> SUFFICES ASSUME Inv, [ProgramsNext]_programsVars PROVE Inv'
    OBVIOUS
  <2>1. image' = image
    BY DEF ProgramsNext, programsVars
  <2>2. UNCHANGED benchVars \/ (image = "benchmark" /\ BenchNext)
    BY DEF ProgramsNext, programsVars
  <2>3. CASE UNCHANGED benchVars
    BY <2>1, <2>3, BenchKept DEF benchVars
  <2>4. CASE image = "benchmark" /\ BenchNext
    BY <2>1, <2>4, StartStep, RunsStep, EndStep, MainStep, BenchKept DEF BenchNext, Stays
  <2> QED BY <2>2, <2>3, <2>4
<1>3. Inv => ClockReported
  BY DEF BenchInv, ClockReported
<1> QED BY <1>1, <1>2, <1>3, PTL DEF ProgramsSpec

-----------------------------------------------------------------------------
(* strcpy and strcmp.                                                      *)

\* For every set of strings and every even number of chars: the word-wise strcpy and
\* strcmp do what C says, at every pair of alignments and wherever in a word the
\* strings end (stdlib.c:24-114).
THEOREM StringsRight == ProgramsSpec => []StringsAsSpecified
<1>1. ProgramsInit => StringInv
  BY StringStart DEF ProgramsInit, LibAbsent
<1>2. StringInv /\ [ProgramsNext]_programsVars => StringInv'
  BY StringStep, StringsKept DEF ProgramsNext, programsVars
<1>3. StringInv => StringsAsSpecified
  BY DEF StringInv
<1> QED BY <1>1, <1>2, <1>3, PTL DEF ProgramsSpec

-----------------------------------------------------------------------------
(* Types: every variable of the image that runs stays in its range.        *)

Heaps == [Rec_Pointer -> Rec_Type]
DhryTypes == DhryInv /\ DhryTypeOK

\* Records with other fields are records.
LEMMA RecordsStay ==
  /\ \A h \in Heaps, p \in Rec_Pointer, n \in Int : [h EXCEPT ![p].Int_Comp = n] \in Heaps
  /\ \A h \in Heaps, p \in Rec_Pointer, q \in Rec_Pointer \union {Null} :
       [h EXCEPT ![p].Ptr_Comp = q] \in Heaps
  /\ \A h \in Heaps, p \in Rec_Pointer, e \in Enumeration :
       [h EXCEPT ![p].Enum_Comp = e] \in Heaps
  /\ \A h \in Heaps, p \in Rec_Pointer : h[p] \in Rec_Type /\ h[p].Ptr_Comp \in Rec_Pointer \union {Null}
  /\ \A h \in Heaps, p \in Rec_Pointer, r \in Rec_Type : [h EXCEPT ![p] = r] \in Heaps
  /\ \A r \in Rec_Type, n \in Int : [r EXCEPT !.Int_Comp = n] \in Rec_Type
  /\ \A h \in Heaps, n \in Int : [h EXCEPT ![2].Int_Comp = n][1] = h[1]
BY DEF Heaps, Rec_Type, Rec_Pointer

\* And so are locals.
Locals == [Int_1_Loc : Int, Int_2_Loc : Int, Int_3_Loc : Int, Enum_Loc : Enumeration,
           Str_1_Loc : 1..4, Str_2_Loc : 1..4]
LEMMA LocalsStay ==
  /\ \A l \in Locals, n \in Int : /\ [l EXCEPT !.Int_1_Loc = n] \in Locals
                                 /\ [l EXCEPT !.Int_2_Loc = n] \in Locals
                                 /\ [l EXCEPT !.Int_3_Loc = n] \in Locals
  /\ \A l \in Locals, e \in Enumeration : [l EXCEPT !.Enum_Loc = e] \in Locals
  /\ \A l \in Locals, n \in 1..4 : /\ [l EXCEPT !.Str_1_Loc = n] \in Locals
                                  /\ [l EXCEPT !.Str_2_Loc = n] \in Locals
  /\ \A l \in Locals : l.Int_1_Loc \in Int /\ l.Int_2_Loc \in Int
BY DEF Locals

LEMMA HeapTypes ==
  ASSUME DhryTypes, CallProc_1
  PROVE  heap' \in Heaps
<1>1. /\ heap \in Heaps /\ RecordIs(heap[2], 2, heap[2].Int_Comp)
      /\ glob.Ptr_Glob = 2 /\ glob.Int_Glob = 5
  BY DEF DhryTypes, DhryTypeOK, DhryInv, AtRest, CallProc_1, GlobalsAre, HeapReady, Heaps
<1>2. heap[2].Ptr_Comp = 1 /\ heap[2].Discr = 0 /\ 1 \in Rec_Pointer /\ 2 \in Rec_Pointer
  BY <1>1 DEF RecordIs, Rec_Pointer
<1>3. CopiedHeap \in Heaps /\ CopiedHeap[1].Discr = 0
  <2> DEFINE r == [heap[2] EXCEPT !.Int_Comp = 5]
             h == [heap EXCEPT ![1] = r]
             n == 5
  <2>1. r \in Rec_Type /\ r.Discr = 0
    BY <1>1, <1>2, RecordsStay DEF Rec_Type
  <2>2. h \in Heaps /\ h[1] = r
    BY <1>1, <1>2, <2>1, RecordsStay DEF Heaps
  <2>3. CopiedHeap = [h EXCEPT ![2].Int_Comp = n] /\ n \in Int
    BY DEF CopiedHeap
  <2> HIDE DEF h, r, n
  <2>4. CopiedHeap \in Heaps /\ CopiedHeap[1] = h[1]
    BY <1>2, <2>2, <2>3, RecordsStay
  <2> QED BY <2>1, <2>2, <2>4
<1>4. LinkedHeap \in Heaps /\ LinkedHeap[1].Discr = 0
  <2>1. CopiedHeap[2].Ptr_Comp \in Rec_Pointer \union {Null} /\ CopiedHeap[1] \in Rec_Type
    BY <1>2, <1>3, RecordsStay
  <2>2. LinkedHeap = [CopiedHeap EXCEPT ![1].Ptr_Comp = CopiedHeap[2].Ptr_Comp]
    BY DEF LinkedHeap
  <2>3. LinkedHeap \in Heaps
    BY <1>2, <1>3, <2>1, <2>2, RecordsStay
  <2> QED BY <1>2, <1>3, <2>1, <2>2, <2>3 DEF Heaps, Rec_Type
<1>5. HeapAfterProc_3 \in Heaps /\ HeapAfterProc_3[1].Discr = 0
  <2> DEFINE named == [LinkedHeap EXCEPT ![1].Ptr_Comp = LinkedHeap[2].Ptr_Comp]
             n == 17
  <2>1. LinkedHeap[2].Ptr_Comp \in Rec_Pointer \union {Null} /\ LinkedHeap[1] \in Rec_Type
    BY <1>2, <1>4, RecordsStay
  <2>2. named \in Heaps
    BY <1>2, <1>4, <2>1, RecordsStay
  <2>3. named[1].Discr = 0
    BY <1>2, <1>4, <2>1 DEF Heaps, Rec_Type
  <2>4. HeapAfterProc_3 = [named EXCEPT ![2].Int_Comp = n] /\ n \in Int
    BY <1>1 DEF HeapAfterProc_3, Proc_3, Proc_7, Null
  <2> HIDE DEF named, n
  <2>5. HeapAfterProc_3 \in Heaps /\ HeapAfterProc_3[1] = named[1]
    BY <1>2, <2>2, <2>4, RecordsStay
  <2> QED BY <2>3, <2>5
<1>6. heap' = [HeapAfterProc_3 EXCEPT ![1].Enum_Comp = Proc_6(HeapAfterProc_3[2].Enum_Comp, 5),
                                      ![1].Ptr_Comp = HeapAfterProc_3[2].Ptr_Comp,
                                      ![1].Int_Comp = Proc_7(6, 10)]
  <2>1. heap' = Proc_1(heap, 2, glob)
    BY <1>1 DEF CallProc_1
  <2> QED BY <1>1, <1>2, <1>5, <2>1, Proc_1Unfolds DEF Ident_1
<1>7. \A e \in Enumeration : Proc_6(e, 5) \in Enumeration
  BY DEF Proc_6, Enumeration, Func_3, Ident_1, Ident_2, Ident_3, Ident_4, Ident_5
<1>8. Proc_6(HeapAfterProc_3[2].Enum_Comp, 5) \in Enumeration /\ Proc_7(6, 10) \in Int
      /\ HeapAfterProc_3[2].Ptr_Comp \in Rec_Pointer \union {Null}
  <2>1. HeapAfterProc_3[2].Enum_Comp \in Enumeration
    BY <1>2, <1>5 DEF Heaps, Rec_Type
  <2> QED BY <1>2, <1>5, <1>7, <2>1, RecordsStay DEF Proc_7
<1> DEFINE a == Proc_6(HeapAfterProc_3[2].Enum_Comp, 5)
           b == HeapAfterProc_3[2].Ptr_Comp
           c == Proc_7(6, 10)
           h1 == [HeapAfterProc_3 EXCEPT ![1].Enum_Comp = a]
           h2 == [h1 EXCEPT ![1].Ptr_Comp = b]
<1>9. heap' = [h2 EXCEPT ![1].Int_Comp = c]
  BY <1>6
<1>10. a \in Enumeration /\ b \in Rec_Pointer \union {Null} /\ c \in Int
  BY <1>8
<1> HIDE DEF a, b, c
<1>11. h1 \in Heaps
  BY <1>2, <1>5, <1>10, RecordsStay
<1> HIDE DEF h1
<1>12. h2 \in Heaps
  BY <1>2, <1>10, <1>11, RecordsStay
<1> HIDE DEF h2
<1> QED BY <1>2, <1>9, <1>10, <1>12, RecordsStay

LEMMA DhryTypesNext == DhryTypes /\ DhryNext => DhryTypes'
<1> SUFFICES ASSUME DhryTypes, DhryNext PROVE DhryTypes'
  OBVIOUS
<1> DEFINE G == [Int_Glob : Int, Bool_Glob : {0, 1}, Ch_1_Glob : Nat, Ch_2_Glob : Nat,
                 Ptr_Glob : {Null, 2}, Next_Ptr_Glob : {Null, 1}]
<1>1. DhryInv'
  BY InitializeStep, BeginRunStep, WhileBodyStep, Proc_8Step, Proc_1Step, ForBodyStep, EndRunStep,
     EndRunsStep, DhryKept DEF DhryNext, Reported, DhryTypes
<1>2. /\ Number_Of_Runs \in RunCounts /\ Run_Index \in 0..(Number_Of_Runs + 1) /\ Ch_Index \in Nat
      /\ glob \in G /\ loc \in Locals /\ heap \in Heaps /\ Number_Of_Runs \in Nat
      /\ Arr_1_Glob \in Arr_1_Dim /\ Arr_2_Glob \in Arr_2_Dim
  BY RunBounds DEF DhryTypes, DhryTypeOK, Heaps, Locals
<1>3. Arr_1_Glob' \in Arr_1_Dim /\ Arr_2_Glob' \in Arr_2_Dim
  <2>1. dhry_pc' \in {"init", "run", "while", "proc_1", "for", "report"}
    BY DEF DhryTypes, DhryTypeOK, DhryNext, Initialize, BeginRun, WhileBody, CallProc_8, CallProc_1,
           ForBody, EndRun, EndRuns, Reported, dhryVars
  <2> QED BY <1>1, <2>1 DEF DhryInv
<1>4. ASSUME dhry_pc' \in {"init", "run", "while", "proc_1", "for", "report"},
             Number_Of_Runs' = Number_Of_Runs, Run_Index' \in 0..(Number_Of_Runs + 1), Ch_Index' \in Nat,
             glob' \in G, heap' \in Heaps, loc' \in Locals
      PROVE  DhryTypes'
  BY <1>1, <1>2, <1>3, <1>4 DEF DhryTypes, DhryTypeOK, Heaps, Locals
<1>5. CASE Initialize
  <2>1. heap' \in Heaps
    <3> DEFINE r == [Ptr_Comp |-> 1, Discr |-> Ident_1, Enum_Comp |-> Ident_3, Int_Comp |-> 40,
                     Str_Comp |-> Some]
    <3>1. r \in Rec_Type
      BY DEF Rec_Type, Rec_Pointer, Enumeration, Some
    <3>2. heap' = [heap EXCEPT ![2] = r] /\ 2 \in Rec_Pointer
      BY <1>5 DEF Initialize, Rec_Pointer
    <3> HIDE DEF r
    <3> QED BY <1>2, <3>1, <3>2, RecordsStay
  <2>2. glob' \in G
    BY <1>2, <1>5 DEF Initialize
  <2>3. loc' \in Locals
    <3> DEFINE n == 1
    <3>1. loc' = [loc EXCEPT !.Str_1_Loc = n] /\ n \in 1..4
      BY <1>5 DEF Initialize, String
    <3> HIDE DEF n
    <3> QED BY <1>2, <3>1, LocalsStay
  <2> QED BY <1>2, <1>4, <1>5, <2>1, <2>2, <2>3 DEF Initialize
<1>6. CASE BeginRun
  <2>1. glob' \in G
    <3> DEFINE g5 == Proc_5(glob)
               g4 == Proc_4(g5)
               g2 == AfterFunc_2(g4, loc.Str_1_Loc, String(2))
               z == IF Func_2(loc.Str_1_Loc, String(2)) THEN 0 ELSE 1
    <3>1. g5 \in G
      BY <1>2 DEF Proc_5
    <3> HIDE DEF g5
    <3>2. g4 \in G
      BY <3>1 DEF Proc_4
    <3> HIDE DEF g4
    <3>3. g2 \in G
      BY <3>2 DEF AfterFunc_2
    <3>4. glob' = [g2 EXCEPT !.Bool_Glob = z] /\ z \in {0, 1}
      BY <1>6 DEF BeginRun, g4, g5
    <3> HIDE DEF g2, z
    <3> QED BY <3>3, <3>4
  <2>2. loc' \in Locals
    <3> DEFINE m == 2
               n == 3
               l1 == [loc EXCEPT !.Int_1_Loc = m]
               l2 == [l1 EXCEPT !.Int_2_Loc = n]
               l3 == [l2 EXCEPT !.Str_2_Loc = m]
    <3>1. loc' = [l3 EXCEPT !.Enum_Loc = Ident_2] /\ Ident_2 \in Enumeration
          /\ m \in Int /\ n \in Int /\ m \in 1..4
      BY <1>6 DEF BeginRun, String, Enumeration
    <3> HIDE DEF m, n
    <3>2. l1 \in Locals
      BY <1>2, <3>1, LocalsStay
    <3> HIDE DEF l1
    <3>3. l2 \in Locals
      BY <3>1, <3>2, LocalsStay
    <3> HIDE DEF l2
    <3>4. l3 \in Locals
      BY <3>1, <3>3, LocalsStay
    <3> HIDE DEF l3
    <3> QED BY <3>1, <3>4, LocalsStay
  <2> QED BY <1>2, <1>4, <1>6, <2>1, <2>2 DEF BeginRun
<1>7. CASE WhileBody
  <2>1. loc' \in Locals
    <3> DEFINE n == Proc_7(loc.Int_1_Loc, loc.Int_2_Loc)
               l == [loc EXCEPT !.Int_3_Loc = n]
    <3>1. loc' = [l EXCEPT !.Int_1_Loc = @ + 1]
      BY <1>7 DEF WhileBody
    <3>2. n \in Int
      BY <1>2, LocalsStay DEF Proc_7
    <3> HIDE DEF n
    <3>3. l \in Locals
      BY <1>2, <3>2, LocalsStay
    <3> HIDE DEF l
    <3>4. l.Int_1_Loc + 1 \in Int
      BY <3>3, LocalsStay
    <3> QED BY <3>1, <3>3, <3>4, LocalsStay
  <2> QED BY <1>2, <1>4, <1>7, <2>1 DEF WhileBody, DhryTypes, DhryTypeOK
<1>8. CASE CallProc_8
  <2>1. glob' \in G
    BY <1>2, <1>8 DEF CallProc_8
  <2> QED BY <1>2, <1>4, <1>8, <2>1 DEF CallProc_8
<1>9. CASE CallProc_1
  <2>1. heap' \in Heaps
    BY <1>9, HeapTypes
  <2> QED BY <1>2, <1>4, <1>9, <2>1 DEF CallProc_1
<1>10. CASE ForBody
  <2>1. GlobalsAre(glob, 1, 65, 66) /\ loc.Enum_Loc = 1 /\ Ch_Index \in 65..67
    BY <1>10 DEF DhryTypes, DhryInv, AtRest, AtFor, ForBody
  <2>2. Ch_Index \in 65..66
    BY <1>10, <2>1 DEF ForBody, GlobalsAre
  <2>3. AfterFunc_1(glob, Ch_Index, 67) = glob /\ loc.Enum_Loc # Func_1(Ch_Index, 67)
    BY <2>1, <2>2 DEF AfterFunc_1, Func_1, Ident_1
  <2>4. glob' = glob /\ loc' = loc /\ Ch_Index' = Ch_Index + 1
    BY <1>10, <2>3 DEF ForBody
  <2> QED BY <1>2, <1>4, <1>10, <2>4 DEF ForBody
<1>11. CASE EndRun
  <2>1. loc.Int_3_Loc = 7 /\ LocalsAre(loc, 3, 3) /\ glob.Int_Glob = 5 /\ Run_Index \in 1..Number_Of_Runs
    BY <1>11 DEF DhryTypes, DhryInv, AtRest, EndRun
  <2>2. loc' = [loc EXCEPT !.Int_2_Loc = 13, !.Int_1_Loc = 5]
    BY <1>11, <2>1 DEF EndRun, Proc_2, LocalsAre
  <2>3. loc' \in Locals
    <3> DEFINE m == 13
               n == 5
               l == [loc EXCEPT !.Int_2_Loc = m]
    <3>1. loc' = [l EXCEPT !.Int_1_Loc = n] /\ m \in Int /\ n \in Int
      BY <2>2
    <3> HIDE DEF m, n
    <3>2. l \in Locals
      BY <1>2, <3>1, LocalsStay
    <3> HIDE DEF l
    <3> QED BY <3>1, <3>2, LocalsStay
  <2> QED BY <1>2, <1>4, <1>11, <2>1, <2>3 DEF EndRun
<1>12. CASE EndRuns
  BY <1>2, <1>4, <1>12 DEF EndRuns
<1>13. CASE Reported
  BY <1>2, <1>4, <1>13 DEF Reported, dhryVars
<1> QED BY <1>5, <1>6, <1>7, <1>8, <1>9, <1>10, <1>11, <1>12, <1>13 DEF DhryNext

LEMMA DhryTypesKept == DhryTypes /\ UNCHANGED dhryVars => DhryTypes'
<1>1. DhryTypeOK /\ UNCHANGED dhryVars => DhryTypeOK'
  BY DEF dhryVars, DhryTypeOK
<1> QED BY <1>1, DhryKept DEF DhryTypes

LEMMA DhryTypesStart == ProgramsInit /\ image = "dhrystone" => DhryTypes
<1> SUFFICES ASSUME NEW runs \in RunCounts, DhryCalled(runs), ProgramsInit PROVE DhryTypes
  BY DEF ProgramsInit, DhryInit
<1>1. runs \in Nat
  BY RunBounds
<1>2. glob \in [Int_Glob : Int, Bool_Glob : {0, 1}, Ch_1_Glob : Nat, Ch_2_Glob : Nat,
                Ptr_Glob : {Null, 2}, Next_Ptr_Glob : {Null, 1}]
  BY DEF DhryCalled
<1>3. heap \in [Rec_Pointer -> Rec_Type]
  BY DEF DhryCalled, Rec_Type, Enumeration
<1>4. loc \in [Int_1_Loc : Int, Int_2_Loc : Int, Int_3_Loc : Int, Enum_Loc : Enumeration,
               Str_1_Loc : 1..4, Str_2_Loc : 1..4]
  BY DEF DhryCalled, Enumeration, String
<1> QED BY <1>1, <1>2, <1>3, <1>4, DhryStart DEF DhryCalled, DhryTypes, DhryTypeOK, Arr_1_Dim, Arr_2_Dim

\* From _start on: the loops go by words, in a RAM of whole words.
BootTypes ==
  /\ BootInv /\ BootTypeOK
  /\ \E k \in Nat : ptr = 4 * k
  /\ layout.data_end <= Top /\ region.size \in Nat

Bytes == {Junk, 0, Assigned, 99} \union 1..Top

LEMMA WholeWords == \E t \in Nat : Top = 4 * t
<1>1. Top \in Nat /\ Top % 4 = 0
  BY LayoutAssumption
<1>2. Top = 4 * (Top \div 4) + (Top % 4) /\ Top \div 4 \in Nat
  BY <1>1
<1> QED BY <1>1, <1>2

LEMMA BootTypesNext == BootTypes /\ BootNext => BootTypes'
<1> SUFFICES ASSUME BootTypes, BootNext PROVE BootTypes'
  OBVIOUS
<1>1. BootInv'
  BY ClearStep, CopyStep, SectionsStep, AllocStep, BootKept DEF BootNext, BootIdle, BootTypes
<1>2. PICK k \in Nat, t \in Nat : ptr = 4 * k /\ Top = 4 * t
  BY WholeWords DEF BootTypes
<1>3. /\ ram \in [0..(Top - 1) -> Bytes] /\ fail \subseteq 0..7 /\ taken \in 0..region.size
      /\ layout.data_end \in Nat /\ layout.data_end <= Top /\ region.size \in Nat
      /\ layout.bss_end \in Nat /\ layout.bss_end <= Top
  BY DEF BootTypes, BootTypeOK, Bytes, BootInv, BuiltRight
<1>4. layout' = layout
  BY DEF BootNext, BootIdle, ClearWord, Cleared, CopyWordOfData, Copied, TestContents, TestAssignments,
         AssignRegion, lwmem_malloc, bootVars
<1>5. ASSUME ram' \in [0..(Top - 1) -> Bytes], fail' \subseteq 0..7, taken' \in 0..region'.size,
             region'.size \in Nat, ptr' \in {ptr, 0} \/ (ptr' = ptr + 4 /\ ptr < Top)
      PROVE  BootTypes'
  <2>1. \E n \in Nat : ptr' = 4 * n /\ n <= t
    <3>1. k <= t
      BY <1>2 DEF BootTypes, BootTypeOK
    <3>2. CASE ptr' = ptr
      BY <1>2, <3>1, <3>2
    <3>3. CASE ptr' = 0
      BY <1>2, <3>3
    <3>4. CASE ptr' = ptr + 4 /\ ptr < Top
      <4>1. ptr' = 4 * (k + 1) /\ k + 1 <= t /\ k + 1 \in Nat
        BY <1>2, <3>4
      <4> QED BY <4>1
    <3> QED BY <1>5, <3>2, <3>3, <3>4
  <2>2. PICK n \in Nat : ptr' = 4 * n /\ n <= t
    BY <2>1
  <2>3. ptr' \in 0..Top
    BY <1>2, <2>2
  <2>4. layout'.data_end <= Top
    BY <1>3, <1>4
  <2>5. boot_pc' \in {"clear", "copy", "main", "assign", "sent", "allocate", "idle"}
    BY <1>1 DEF BootInv
  <2> QED BY <1>1, <1>5, <2>2, <2>3, <2>4, <2>5 DEF BootTypes, BootTypeOK, Bytes
<1>6. 0 \in Bytes /\ Assigned \in Bytes /\ \A a \in 0..(Top - 1) : Image(a) \in Bytes
  BY <1>2, <1>3 DEF Bytes, Image, Assigned
<1> HIDE DEF Bytes
<1>7. CASE ClearWord
  <2>1. ram' \in [0..(Top - 1) -> Bytes]
    BY <1>3, <1>6, <1>7 DEF ClearWord
  <2>2. ptr' = ptr + 4 /\ ptr < Top
    BY <1>2, <1>3, <1>7 DEF ClearWord
  <2> QED BY <1>3, <1>5, <1>7, <2>1, <2>2 DEF ClearWord
<1>8. CASE Cleared \/ Copied
  BY <1>3, <1>5, <1>8 DEF Cleared, Copied
<1>9. CASE CopyWordOfData
  <2>1. ram' \in [0..(Top - 1) -> Bytes]
    BY <1>3, <1>6, <1>9 DEF CopyWordOfData
  <2>2. ptr' = ptr + 4 /\ ptr < Top
    BY <1>2, <1>3, <1>9 DEF CopyWordOfData
  <2> QED BY <1>3, <1>5, <1>9, <2>1, <2>2 DEF CopyWordOfData
<1>10. CASE TestContents
  <2>1. fail' \subseteq 0..7
    BY <1>10 DEF TestContents
  <2> QED BY <1>3, <1>5, <1>10, <2>1 DEF TestContents
<1>11. CASE TestAssignments
  <2> DEFINE wrong(n) == InRom \/ \E a \in this_is_data2 \union this_is_data : ram'[a] # Assigned
  <2>3. fail' = fail \union {n \in 4..5 : wrong(n)}
    BY <1>11 DEF TestAssignments
  <2> HIDE DEF wrong
  <2>1. fail' \subseteq 0..7
    <3>1. \A n \in 4..5 : n \in 0..7
      OBVIOUS
    <3> QED BY <1>3, <2>3, <3>1
  <2>2. ram' \in [0..(Top - 1) -> Bytes]
    BY <1>3, <1>6, <1>11 DEF TestAssignments
  <2> QED BY <1>3, <1>5, <1>11, <2>1, <2>2 DEF TestAssignments
<1>12. CASE AssignRegion
  <2>1. taken = 0
    BY <1>12 DEF AssignRegion, BootTypes, BootInv, MainInv
  <2>2. region'.size \in Nat
    BY <1>2, <1>3, <1>12 DEF AssignRegion, Region
  <2> QED BY <1>3, <1>5, <1>12, <2>1, <2>2 DEF AssignRegion
<1>13. CASE lwmem_malloc
  <2>1. ram' \in [0..(Top - 1) -> Bytes]
    BY <1>3, <1>6, <1>13 DEF lwmem_malloc
  <2>2. taken' \in 0..region'.size
    BY <1>3, <1>13, LayoutAssumption DEF lwmem_malloc
  <2> QED BY <1>3, <1>5, <1>13, <2>1, <2>2 DEF lwmem_malloc
<1>14. CASE BootIdle
  BY <1>3, <1>5, <1>14 DEF BootIdle, bootVars
<1> QED BY <1>7, <1>8, <1>9, <1>10, <1>11, <1>12, <1>13, <1>14 DEF BootNext

LEMMA BootTypesKept == BootTypes /\ UNCHANGED bootVars => BootTypes'
<1>1. BootTypes /\ UNCHANGED bootVars => BootInv'
  BY BootKept DEF BootTypes
<1> QED BY <1>1 DEF bootVars, BootTypes, BootTypeOK

LEMMA BootTypesStart == BootInit => BootTypes
<1> SUFFICES ASSUME BootInit PROVE BootTypes
  OBVIOUS
<1>1. PICK p \in {"sections", "alloc"}, e \in DataEnds, b \in BssSizes, in \in {"ram", "rom"}, c \in BOOLEAN :
        Built(p, e, b, in, c)
  BY DEF BootInit
<1>2. e \in Nat /\ b \in Nat /\ Top \in Nat /\ 4 * ((e + 3) \div 4) + b <= Top
  BY LayoutAssumption
<1> DEFINE q == (e + 3) \div 4
<1>3. q \in Nat /\ e <= 4 * q
  BY <1>2
<1> HIDE DEF q
<1>4. 4 * q + b <= Top
  BY <1>2 DEF q
<1>5. ptr = (IF in = "ram" THEN 4 * q ELSE 0) /\ layout.data_end = e /\ taken = 0 /\ fail = {}
      /\ region.size = 0 /\ boot_pc = "clear" /\ ram = [a \in 0..(Top - 1) |-> Junk]
  BY <1>1 DEF Built, bss_start, BssStart, q
<1>6. ram \in [0..(Top - 1) -> Bytes]
  BY <1>5 DEF Bytes
<1>7. ptr \in 0..Top /\ \E k \in Nat : ptr = 4 * k
  BY <1>2, <1>3, <1>4, <1>5
<1>8. layout.data_end <= Top
  BY <1>2, <1>3, <1>4, <1>5
<1> QED BY <1>5, <1>6, <1>7, <1>8, BootStart DEF BootTypes, BootTypeOK, Bytes

-----------------------------------------------------------------------------

PacedTypes == PacedInv /\ DelayTypeOK

LEMMA PacedTypesNext == PacedTypes /\ DelayNext => PacedTypes'
<1> SUFFICES ASSUME PacedTypes, DelayNext PROVE PacedTypes'
  OBVIOUS
<1>1. PacedInv'
  BY PacedStep DEF PacedTypes
<1>2. CLK_DIV \in Nat /\ CLK_DIV >= 1 /\ Spins \in Nat
  BY TimerAssumption
<1>3. div \in 0..(CLK_DIV - 1) /\ i \in Int /\ waited \in Int /\ since \in Int /\ program \in Programs
      /\ ser_pc \in {"send", "mark", "wait", "spin", "halt"}
  BY DEF PacedTypes, DelayTypeOK
<1>4. div' \in 0..(CLK_DIV - 1)
  BY <1>2, <1>3 DEF DelayNext, TimerEdge, Ticks
<1>5. ser_pc' \in {"send", "mark", "wait", "spin", "halt"} /\ i' \in Int /\ waited' \in Int
  <2>1. CASE uart_send
    BY <1>2, <1>3, <2>1 DEF uart_send, Programs
  <2>2. CASE Mark
    BY <1>3, <2>2 DEF Mark
  <2>3. CASE Wait
    BY <1>3, <2>3 DEF Wait
  <2>4. CASE Spin
    BY <1>3, <2>4 DEF Spin
  <2>5. CASE Computes
    BY <1>3, <2>5 DEF Computes
  <2> QED BY <2>1, <2>2, <2>3, <2>4, <2>5 DEF DelayNext
<1>6. PacedRanges'
  BY <1>1 DEF PacedInv
<1> QED BY <1>1, <1>4, <1>5, <1>6 DEF PacedTypes, DelayTypeOK, PacedRanges

LEMMA PacedTypesKept == PacedTypes /\ UNCHANGED delayVars => PacedTypes'
<1>1. DelayTypeOK /\ UNCHANGED delayVars => DelayTypeOK'
  BY DEF delayVars, timerVars, serVars, DelayTypeOK
<1> QED BY <1>1, PacedKept DEF PacedTypes

LEMMA PacedTypesStart == ProgramsInit => PacedTypes
<1>1. ASSUME NEW p, NEW t, Starts(p, t)
      PROVE  div = 0 /\ i = 0 /\ waited = -1 /\ ser_pc \in {"send", "wait"}
  BY <1>1 DEF Starts
<1>2. ProgramsInit => div = 0 /\ i = 0 /\ waited = -1 /\ ser_pc \in {"send", "wait"}
  BY <1>1 DEF ProgramsInit, DelayInit, DelayAbsent
<1>3. 0 \in 0..(CLK_DIV - 1)
  BY TimerAssumption
<1> QED BY <1>2, <1>3, PacedStart DEF PacedTypes, PacedInv, PacedRanges, DelayTypeOK

-----------------------------------------------------------------------------

\* Behind its first edge a period has been on for no more edges than it has had,
\* and the level it is compared with leaves the last edge dark.
LedTypes == LedTypeOK /\ (cnt # 0 => on <= cnt)

LEMMA PwmTypes ==
  ASSUME LedTypes, NEW wren, NEW di \in Int, PwmEdge(wren, di)
  PROVE  /\ watched' \in LEDs /\ cnt' \in 0..Highest /\ cmp' \in 0..Highest /\ out' \in {0, 1}
         /\ on' \in Unknown..Highest /\ shown' \in Unknown..Highest /\ step' \in 0..Highest
         /\ cnt' # 0 => on' <= cnt'
<1> USE LevelBounds
<1>1. /\ watched \in LEDs /\ cnt \in 0..Highest /\ cmp \in 0..Highest
      /\ on \in Unknown..Highest /\ shown \in Unknown..Highest /\ step \in 0..Highest
      /\ cnt # 0 => on <= cnt
  BY DEF LedTypes, LedTypeOK
<1>2. cnt' = IF cnt = Highest THEN 0 ELSE cnt + 1
  <2>1. CASE cnt = Highest
    <3>1. cnt + 1 = Levels /\ Levels % Levels = 0
      BY <2>1, Turn
    <3> QED BY <2>1, <3>1 DEF PwmEdge
  <2>2. CASE cnt # Highest
    <3>1. cnt + 1 \in 0..(Levels - 1)
      BY <1>1, <2>2
    <3>2. (cnt + 1) % Levels = cnt + 1
      BY <3>1, Turn
    <3> QED BY <2>2, <3>2 DEF PwmEdge
  <2> QED BY <2>1, <2>2
<1>3. di % Levels \in 0..Highest
  OBVIOUS
<1>4. cmp' \in 0..Highest /\ watched' \in LEDs
  BY <1>1, <1>3 DEF PwmEdge
<1>5. out' = IF cnt < cmp THEN 1 ELSE 0
  BY DEF PwmEdge
<1>6. on' = (IF cnt = 0 THEN out' ELSE IF on = Unknown THEN Unknown ELSE on + out')
      /\ shown' = IF cnt = 0 THEN on ELSE shown
  BY DEF PwmEdge
<1>7. on' \in Unknown..Highest /\ (cnt' # 0 => on' <= cnt')
  BY <1>1, <1>2, <1>5, <1>6 DEF Unknown
<1>8. step' \in 0..Highest
  <2>1. step' = IF cnt = 0 /\ on # Unknown /\ shown # Unknown THEN Distance(on, shown) ELSE step
    BY DEF PwmEdge
  <2> QED BY <1>1, <2>1 DEF Distance, Unknown
<1>9. cnt' \in 0..Highest /\ out' \in {0, 1} /\ shown' \in Unknown..Highest
  BY <1>1, <1>2, <1>5, <1>6
<1> QED BY <1>4, <1>7, <1>8, <1>9

LEMMA LedTypesNext == LedTypes /\ LedNext => LedTypes'
<1> SUFFICES ASSUME LedTypes, LedNext PROVE LedTypes'
  OBVIOUS
<1> USE LevelBounds
<1>1. /\ led_program \in {"led", "led_breathe"} /\ led_pc \in {"set", "gamma", "down", "up", "idle"}
      /\ id \in LEDs /\ level \in 0..Highest /\ pause \in Nat
  BY DEF LedTypes, LedTypeOK
<1>2. \A n \in 0..Highest : Gamma(n) \in Int
  BY GammaStep
<1>3. Gamma(Levels \div 4) \in Int
  <2>1. Levels \div 4 \in 0..Highest
    OBVIOUS
  <2> QED BY <1>2, <2>1
<1>4. \E wren \in BOOLEAN : \E di \in Int : PwmEdge(wren, di)
  <2>1. (id = watched) \in BOOLEAN /\ Highest \in Int /\ Gamma(level) \in Int
    BY <1>1, <1>2
  <2>2. CASE SetAll
    BY <2>1, <2>2 DEF SetAll, LED_SET
  <2>3. CASE SetGamma
    BY <1>3, <2>1, <2>3 DEF SetGamma, LED_SET
  <2>4. CASE BreatheDown
    BY <2>1, <2>4 DEF BreatheDown, LED_SET
  <2>5. CASE BreatheUp
    BY <2>1, <2>5 DEF BreatheUp, LED_SET
  <2>6. CASE Pauses
    <3>1. PwmEdge(FALSE, 0)
      BY <2>6 DEF Pauses
    <3>2. 0 \in Int
      OBVIOUS
    <3> QED BY <3>1, <3>2, Zenon
  <2> QED BY <2>2, <2>3, <2>4, <2>5, <2>6 DEF LedNext
<1>5. /\ watched' \in LEDs /\ cnt' \in 0..Highest /\ cmp' \in 0..Highest /\ out' \in {0, 1}
      /\ on' \in Unknown..Highest /\ shown' \in Unknown..Highest /\ step' \in 0..Highest
      /\ cnt' # 0 => on' <= cnt'
  BY <1>4, PwmTypes
<1>6. led_program' = led_program
  BY DEF LedNext, SetAll, SetGamma, BreatheDown, BreatheUp, Pauses
<1>7. led_pc' \in {"set", "gamma", "down", "up", "idle"}
  BY <1>1 DEF LedNext, SetAll, SetGamma, BreatheDown, BreatheUp, Pauses
<1>8. id' \in LEDs
  <2>1. After(id) \in LEDs
    BY <1>1 DEF LEDs, After
  <2> QED BY <1>1, <2>1 DEF LedNext, SetAll, SetGamma, BreatheDown, BreatheUp, Pauses
<1>9. level' \in 0..Highest
  <2>1. level' = level \/ (level # 0 /\ level' = level - 1) \/ (level # Highest /\ level' = level + 1)
    BY DEF LedNext, SetAll, SetGamma, BreatheDown, BreatheUp, Pauses
  <2> QED BY <1>1, <2>1
<1>10. pause' \in Nat
  <2>1. pause' \in Gaps \/ pause' \in Delays \/ pause' = IF pause = 0 THEN 0 ELSE pause - 1
    BY DEF LedNext, SetAll, SetGamma, BreatheDown, BreatheUp, Pauses
  <2>2. Gaps \subseteq Nat /\ Delays \subseteq Nat
    BY PauseAssumption
  <2>3. (IF pause = 0 THEN 0 ELSE pause - 1) \in Nat
    BY <1>1
  <2> QED BY <2>1, <2>2, <2>3
<1> QED BY <1>1, <1>5, <1>6, <1>7, <1>8, <1>9, <1>10 DEF LedTypes, LedTypeOK

LEMMA LedTypesKept == LedTypes /\ UNCHANGED ledVars => LedTypes'
BY DEF LedTypes, LedTypeOK, ledVars, pwmVars

LEMMA LedTypesStart == LedInit => LedTypes
BY LevelBounds DEF LedInit, Lit, LedTypes, LedTypeOK, LEDs, Unknown

-----------------------------------------------------------------------------

\* What holds of the image that runs.
ImageInv ==
  /\ image \in Images
  /\ image = "dhrystone" => DhryTypes
  /\ image = "stdlib" => StringInv
  /\ image = "sections" => BootTypes
  /\ image = "paced" => PacedTypes
  /\ image = "leds" => LedTypes
  /\ image = "benchmark" => BenchInv
  /\ image = "fpu" => FpuTypes
  /\ image = "lanes" => LaneInv

\* Every variable of the program that runs, and of the hardware it is about, keeps
\* to its range, for every size and count the assumptions allow: no pointer of
\* _start leaves RAM, no string function its buffer, no sum of the floating point
\* unit its width, and Dhrystone's records point at each other or nowhere.
THEOREM ProgramsTypeCorrect == ProgramsSpec => []ProgramsTypeOK
<1>1. ProgramsInit => ImageInv
  BY DhryTypesStart, StringStart, BootTypesStart, PacedTypesStart, LedTypesStart, BenchStart,
     FpuTypesStart, LaneInvInit DEF ProgramsInit, ImageInv
<1>2. ImageInv /\ [ProgramsNext]_programsVars => ImageInv'
  <2> SUFFICES ASSUME ImageInv, [ProgramsNext]_programsVars PROVE ImageInv'
    OBVIOUS
  <2>1. image' = image
    BY DEF ProgramsNext, programsVars
  <2>2. image = "dhrystone" => DhryTypes'
    <3>1. image = "dhrystone" => DhryNext \/ UNCHANGED dhryVars
      BY DEF ProgramsNext, programsVars
    <3> QED BY <3>1, DhryTypesNext, DhryTypesKept DEF ImageInv
  <2>3. image = "stdlib" => StringInv'
    <3>1. image = "stdlib" => LibNext \/ UNCHANGED libVars
      BY DEF ProgramsNext, programsVars
    <3> QED BY <3>1, StringStep, StringsKept DEF ImageInv
  <2>4. image = "sections" => BootTypes'
    <3>1. image = "sections" => BootNext \/ UNCHANGED bootVars
      BY DEF ProgramsNext, programsVars
    <3> QED BY <3>1, BootTypesNext, BootTypesKept DEF ImageInv
  <2>5. image = "paced" => PacedTypes'
    <3>1. image = "paced" => DelayNext \/ UNCHANGED delayVars
      BY DEF ProgramsNext, programsVars
    <3> QED BY <3>1, PacedTypesNext, PacedTypesKept DEF ImageInv
  <2>6. image = "leds" => LedTypes'
    <3>1. image = "leds" => LedNext \/ UNCHANGED ledVars
      BY DEF ProgramsNext, programsVars
    <3> QED BY <3>1, LedTypesNext, LedTypesKept DEF ImageInv
  <2>7. image = "benchmark" => BenchInv'
    <3>1. image = "benchmark" => BenchNext \/ UNCHANGED benchVars
      BY DEF ProgramsNext, programsVars
    <3> QED BY <3>1, StartStep, RunsStep, EndStep, MainStep, BenchKept DEF ImageInv, BenchNext, Stays
  <2>8. image = "fpu" => FpuTypes'
    <3>1. image = "fpu" => FpuNext \/ UNCHANGED fpuVars
      BY DEF ProgramsNext, programsVars
    <3> QED BY <3>1, FpuTypesNext, FpuTypesKept DEF ImageInv
  <2>9. image = "lanes" => LaneInv'
    <3>1. image = "lanes" => [LaneNext]_laneVars
      BY DEF ProgramsNext, programsVars
    <3> QED BY <3>1, LaneInvNext DEF ImageInv
  <2> QED BY <2>1, <2>2, <2>3, <2>4, <2>5, <2>6, <2>7, <2>8, <2>9 DEF ImageInv
<1>3. ImageInv => ProgramsTypeOK
  <2>1. BenchInv => BenchTypeOK
    BY DEF BenchInv, BenchRanges, BenchTypeOK, Counts
  <2>2. LaneInv => LaneTypeOK
    BY DEF LaneInv
  <2> QED BY <2>1, <2>2, TypesSuffice
      DEF ImageInv, ProgramsTypeOK, DhryTypes, StringInv, BootTypes, PacedTypes, LedTypes
<1> QED BY <1>1, <1>2, <1>3, PTL DEF ProgramsSpec

-----------------------------------------------------------------------------

\* In the images the board is built with, as by itself: without a reset of a busy
\* unit every sum is within one place of the exact one (extra/dark_fpu.v).
THEOREM DsqaInTheImages == ResetBusy = FALSE => (ProgramsSpec => []DsqaAccurate)
<1>1. ProgramsInit => DsqaInv /\ FpuTypes
  BY DsqaStart, FpuTypesStart DEF ProgramsInit
<1>2. ResetBusy = FALSE /\ DsqaInv /\ FpuTypes /\ [ProgramsNext]_programsVars => (DsqaInv /\ FpuTypes)'
  <2> SUFFICES ASSUME ResetBusy = FALSE, DsqaInv, FpuTypes, [ProgramsNext]_programsVars
               PROVE  (DsqaInv /\ FpuTypes)'
    OBVIOUS
  <2>1. FpuNext \/ UNCHANGED fpuVars
    BY DEF ProgramsNext, programsVars
  <2> QED BY <2>1, DsqaNext, DsqaKept, FpuTypesNext, FpuTypesKept
<1>3. SUFFICES ASSUME ResetBusy = FALSE PROVE ProgramsSpec => []DsqaAccurate
  OBVIOUS
<1>4. DsqaInv /\ FpuTypes /\ [ProgramsNext]_programsVars => (DsqaInv /\ FpuTypes)'
  BY <1>2, <1>3
<1> QED BY <1>1, <1>4, DsqaHolds, PTL DEF ProgramsSpec
=============================================================================
