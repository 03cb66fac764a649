------------------------------ MODULE Programs ------------------------------
(***************************************************************************)
(* The images the board is built with: one is in ROM and runs, with the    *)
(* hardware it is about, and the others stay where they would start.       *)
(***************************************************************************)
EXTENDS Dhrystone, Stdlib, Startup, Delays, Leds, Benchmark, DarkFpu, ByteLanes, BaudDivisor

VARIABLE image

programsVars == <<image, dhryVars, libVars, bootVars, delayVars, ledVars, benchVars,
                  fpuVars, laneVars, vars>>

Images == {"dhrystone", "stdlib", "sections", "paced", "leds", "benchmark", "fpu", "lanes", "uart"}

\* An image that is not there: its variables hold next to nothing.
DhryAbsent ==
  /\ dhry_pc = "absent" /\ Number_Of_Runs = 0 /\ Run_Index = 0 /\ Ch_Index = 0
  /\ glob = <<>> /\ Arr_1_Glob = <<>> /\ Arr_2_Glob = <<>> /\ heap = <<>> /\ loc = <<>>
LibAbsent == LibCalled("malloc", Blank, 0, Buffer)
BootAbsent == Built("sections", 12, 0, "ram", TRUE)
DelayAbsent == Starts("uart", 0)
LedAbsent == Lit("led", "RED", 0)
BenchAbsent == Begins(1, 0, 0)
UartAbsent ==
  LET rate == CHOOSE rate \in Rates : TRUE
  IN clk_freq = rate[1] /\ uart_freq = rate[2] /\ bit = 0

ProgramsInit ==
  /\ image \in Images
  /\ IF image = "dhrystone" THEN DhryInit ELSE DhryAbsent
  /\ IF image = "stdlib" THEN LibInit ELSE LibAbsent
  /\ IF image = "sections" THEN BootInit ELSE BootAbsent
  /\ IF image = "paced" THEN DelayInit ELSE DelayAbsent
  /\ IF image = "leds" THEN LedInit ELSE LedAbsent
  /\ IF image = "benchmark" THEN BenchInit ELSE BenchAbsent
  /\ IF image = "uart" THEN Init ELSE UartAbsent
  /\ FpuInit /\ LaneInit

ProgramsNext ==
  /\ UNCHANGED image
  /\ \/ /\ image = "dhrystone" /\ DhryNext
        /\ UNCHANGED <<libVars, bootVars, delayVars, ledVars, benchVars, fpuVars, laneVars, vars>>
     \/ /\ image = "stdlib" /\ LibNext
        /\ UNCHANGED <<dhryVars, bootVars, delayVars, ledVars, benchVars, fpuVars, laneVars, vars>>
     \/ /\ image = "sections" /\ BootNext
        /\ UNCHANGED <<dhryVars, libVars, delayVars, ledVars, benchVars, fpuVars, laneVars, vars>>
     \/ /\ image = "paced" /\ DelayNext
        /\ UNCHANGED <<dhryVars, libVars, bootVars, ledVars, benchVars, fpuVars, laneVars, vars>>
     \/ /\ image = "leds" /\ LedNext
        /\ UNCHANGED <<dhryVars, libVars, bootVars, delayVars, benchVars, fpuVars, laneVars, vars>>
     \/ /\ image = "benchmark" /\ BenchNext
        /\ UNCHANGED <<dhryVars, libVars, bootVars, delayVars, ledVars, fpuVars, laneVars, vars>>
     \/ /\ image = "fpu" /\ FpuNext
        /\ UNCHANGED <<dhryVars, libVars, bootVars, delayVars, ledVars, benchVars, laneVars, vars>>
     \/ /\ image = "lanes" /\ LaneNext
        /\ UNCHANGED <<dhryVars, libVars, bootVars, delayVars, ledVars, benchVars, fpuVars, vars>>
     \/ /\ image = "uart" /\ Next
        /\ UNCHANGED <<dhryVars, libVars, bootVars, delayVars, ledVars, benchVars, fpuVars, laneVars>>

ProgramsSpec ==
  ProgramsInit /\ [][ProgramsNext]_programsVars /\ WF_programsVars(ProgramsNext)

-----------------------------------------------------------------------------

ProgramsTypeOK ==
  /\ image \in Images
  /\ image = "dhrystone" => DhryTypeOK
  /\ image = "stdlib" => LibTypeOK
  /\ image = "sections" => BootTypeOK
  /\ image = "paced" => DelayTypeOK
  /\ image = "leds" => LedTypeOK
  /\ image = "benchmark" => BenchTypeOK
  /\ image = "fpu" => FpuTypeOK
  /\ image = "lanes" => LaneTypeOK

\* Where a program ends, or comes again and again.
Arrives ==
  CASE image = "dhrystone" -> dhry_pc = "report"
    [] image = "stdlib" -> lib_pc \in {"returned", "malloc", "ebreak"}
    [] image = "sections" -> boot_pc \in {"sent", "idle"}
    [] image = "paced" -> Sends
    [] image = "leds" -> led_pc = "idle" \/ (led_pc = "down" /\ id = "RED" /\ level = 0)
    [] image = "benchmark" -> bench_pc = "reported"
    [] image = "fpu" -> fpu_pc # "dsqa"
    [] image \in {"lanes", "uart"} -> TRUE

(* Every program comes to its end, and those that pace themselves go on    *)
(* for ever: the loops that wait for two characters to differ, for a byte  *)
(* of the string to be 0, for the transmitter, for the timer or for the    *)
(* floating point unit all end.  Nothing is assumed but that the clock     *)
(* runs and the core takes its steps.                                      *)
ProgramsGoOn == []<>Arrives
=============================================================================
