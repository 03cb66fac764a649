-------------------------------- MODULE Soc --------------------------------
(***************************************************************************)
(* The bus of the SoCs (cores/*-soc/*soc.v), which the debug unit and the  *)
(* CPU share, with the memories of extra/ram32.v behind it and the clock   *)
(* of the CPU, which the debug unit gates.  A step is one rising edge of   *)
(* clk.                                                                    *)
(*                                                                         *)
(* The CPU clock is  cpu_run ? clk : 0  and cpu_run changes just after clk *)
(* has risen, so the CPU clock rises with clk while cpu_run was high, and  *)
(* a moment after it when cpu_run has just gone up: at such a late edge    *)
(* the CPU sees what the rest of the SoC has already moved on to.          *)
(*                                                                         *)
(* The CPU is any bus master that presents one access per edge of its      *)
(* clock and takes what it has read at the next, which is how the five     *)
(* SoCs adapt their cores.  The debug unit is reduced to its commands.     *)
(***************************************************************************)
EXTENDS Integers

CONSTANTS Ram, Rom, Mmio,  \* the words of each region
          Unmapped,        \* an address in none of them
          Value, Written,  \* words, and those of them that are written
          Zero, Unknown,   \* the silent bus; an output nobody may rely on
          FetchPort,       \* does the CPU fetch through port 1 of the ROM?
          Cycles           \* arguments of I_CPU_RUN_CYC; for 0 see Dbgu32

ASSUME SocAssumption ==
  /\ Ram \intersect Rom = {} /\ Ram \intersect Mmio = {} /\ Rom \intersect Mmio = {}
  /\ Unmapped \notin Ram \union Rom \union Mmio
  /\ Written \subseteq Value /\ Zero \notin Value /\ Unknown \notin Value /\ Zero # Unknown
  /\ Cycles \subseteq 1..255
  /\ FetchPort \in BOOLEAN

VARIABLES
  cpu_run, cpu_n_reset, cpu_cycles,    \* the debug unit's hold on the CPU
  dbg, dbg_mem_rdy,                    \* its access, the registered ready
  mem,                                 \* every word of memory and MMIO
  oe,                                  \* who drives the bus
  ram_out, rom_out,                    \* the output latches of the memories
  cpu, awaited,                        \* the CPU's access, the one it awaits
  fetch, fetching,                     \* the same of its fetch port
  must_reset,                          \* history: a CPU reset not yet seen
  disturbed,                           \* history: what came between the CPU
                                       \* and the access it awaits
  target, granted                      \* history of I_CPU_RUN_CYC: the edges
                                       \* the CPU is due and has had

hold == <<cpu_run, cpu_n_reset, cpu_cycles>>
bus_vars == <<mem, oe, ram_out, rom_out>>
cpu_vars == <<cpu, awaited, fetch, fetching>>
history == <<must_reset, disturbed, target, granted>>
vars == <<hold, dbg, dbg_mem_rdy, bus_vars, cpu_vars, history>>

Words == Ram \union Rom \union Mmio
Adr == Words \union {Unmapped}
None == [op |-> "none"]
Accesses == [op : {"read"}, adr : Adr] \union [op : {"write"}, adr : Words, data : Written]
Fetches == IF FetchPort THEN [op : {"read"}, adr : Rom] ELSE {None}

Init ==
  /\ cpu_run = TRUE /\ cpu_n_reset = FALSE /\ cpu_cycles = 0
  /\ dbg = None /\ dbg_mem_rdy = FALSE
  /\ mem \in [Words -> Value]
  /\ oe = {} /\ ram_out = Unknown /\ rom_out = Unknown
  /\ cpu = None /\ awaited = None /\ fetch = None /\ fetching = None
  /\ must_reset = FALSE /\ disturbed = {} /\ target = 0 /\ granted = 0

-----------------------------------------------------------------------------
(* The bus.                                                                *)

dbg_mem_op == dbg # None

\* The debug unit comes first; a stopped CPU is kept off.
bus == IF dbg_mem_op THEN dbg ELSE IF cpu_run THEN cpu ELSE None
mem_op == bus # None

\* Mutant: the CPU may write the ROM.
WritesRom == bus.op = "write"

Writes == bus.op = "write" /\ (bus.adr \in Rom => dbg_mem_op)

Selects(region) == mem_op /\ bus.adr \in region

\* Mutant: port 1 is always ready.
p1_always_ready == TRUE

p1_ready == ~Selects(Rom)

\* What the word read by port 0 or port 1 leaves in the latch of a memory.
Latch(region, p1) ==
  CASE Selects(region) /\ ~Writes -> mem[bus.adr]
    [] ~Selects(region) /\ p1 # None -> mem[p1.adr]
    [] OTHER -> Unknown

\* Mutant: the output enable is not registered, and over with the access.
OutputEnableUnregistered(access) == {}

OutputEnable(access) == IF access # None THEN {access.adr} ELSE {}

Access ==
  /\ mem' = IF Writes THEN [mem EXCEPT ![bus.adr] = bus.data] ELSE mem
  /\ oe' = OutputEnable(bus)
  /\ ram_out' = Latch(Ram, None)
  /\ rom_out' = Latch(Rom, fetch)

\* The OR of all outputs, of which those not enabled are zero.
mem_do ==
  CASE oe \intersect Ram # {} -> ram_out
    [] oe \intersect Rom # {} -> rom_out
    [] oe \intersect Mmio # {} -> mem[CHOOSE p \in oe : TRUE]
    [] OTHER -> Zero

-----------------------------------------------------------------------------
(* The debug unit.                                                         *)

\* Commands are many cycles apart: the last is done and the CPU out of reset.
Idle == ~dbg_mem_op /\ cpu_cycles = 0 /\ (cpu_run => cpu_n_reset)

\* Mutant: the reset ends although the CPU is stopped.
ReleaseAlways == cpu_n_reset' = TRUE

Release == cpu_n_reset' = (cpu_n_reset \/ cpu_run)

\* Mutant: the counter goes on below zero.
CountOn == cpu_cycles' = cpu_cycles - 1

CountDown == cpu_cycles' = IF cpu_cycles > 0 THEN cpu_cycles - 1 ELSE 0

\* Mutant: the CPU stops one edge early.
StopEarly == cpu_run' = (cpu_run /\ cpu_cycles # 2)

Stop == cpu_run' = (cpu_run /\ cpu_cycles # 1)

\* Mutant: the memory is ready as soon as the access begins.
ReadyAtOnce == dbg_mem_rdy' = (dbg' # None)

Ready == dbg_mem_rdy' = dbg_mem_op

NoCommand ==
  /\ dbg' = IF dbg_mem_rdy THEN None ELSE dbg
  /\ CountDown /\ Stop /\ Release
  /\ target' = IF cpu_run' THEN target ELSE 0
  /\ granted' = IF target' > 0 THEN granted + 1 ELSE 0

MemoryCommand(access) ==
  /\ Idle
  /\ dbg' = access
  /\ Release
  /\ UNCHANGED <<cpu_run, cpu_cycles, target, granted>>

FreeRun(on) ==
  /\ Idle
  /\ cpu_run' = on
  /\ Release
  /\ UNCHANGED <<cpu_cycles, dbg, target, granted>>

RunCycles(n) ==
  /\ Idle
  /\ cpu_run' = TRUE
  /\ cpu_cycles' = n
  /\ Release
  /\ target' = IF cpu_run THEN n ELSE n + 1
  /\ granted' = IF cpu_run THEN 0 ELSE 1
  /\ UNCHANGED dbg

ResetCpu ==
  /\ Idle
  /\ cpu_n_reset' = FALSE
  /\ UNCHANGED <<cpu_run, cpu_cycles, dbg, target, granted>>

\* An edge with n_reset of the board low.
BoardReset ==
  /\ cpu_run' = TRUE /\ cpu_n_reset' = FALSE /\ cpu_cycles' = 0
  /\ dbg' = None
  /\ target' = 0 /\ granted' = 0

-----------------------------------------------------------------------------
(* The CPU.                                                                *)

CpuEdge == cpu_run \/ cpu_run'
InReset == IF cpu_run THEN ~cpu_n_reset ELSE ~cpu_n_reset'

\* At a late edge the CPU has the bus already.
Fetched == IF cpu_run THEN p1_ready ELSE cpu # None => cpu.adr \notin Rom

\* On its edge the CPU takes what it awaited and presents its next access.
CpuMovesOn ==
  /\ CpuEdge
  /\ IF InReset
     THEN cpu' = None /\ fetch' = None
     ELSE cpu' \in Accesses \union {None} /\ fetch' \in Fetches
  /\ awaited' = IF cpu.op = "read" /\ ~InReset THEN cpu ELSE None
  /\ fetching' = IF Fetched /\ ~InReset THEN fetch ELSE None

CpuWaits == ~CpuEdge /\ UNCHANGED cpu_vars

\* A rising edge of clk on which the debug unit does this.
Edge(command) ==
  /\ Access
  /\ command
  /\ Ready
  /\ CpuMovesOn \/ CpuWaits
  /\ must_reset' = CASE cpu_n_reset /\ ~cpu_n_reset' /\ ~(CpuEdge /\ InReset) -> TRUE
                     [] CpuEdge -> FALSE
                     [] OTHER -> must_reset
  /\ disturbed' =
       CASE CpuEdge /\ InReset -> {}
         [] CpuEdge /\ ~InReset -> {x \in {"access"} : dbg_mem_op}
                                    \union {x \in {"stop"} : ~cpu_run}
         [] OTHER -> disturbed

Next ==
  \/ Edge(NoCommand)
  \/ \E access \in Accesses : Edge(MemoryCommand(access))
  \/ \E on \in BOOLEAN : Edge(FreeRun(on))
  \/ \E n \in Cycles : Edge(RunCycles(n))
  \/ Edge(ResetCpu)
  \/ Edge(BoardReset)

Spec == Init /\ [][Next]_vars

-----------------------------------------------------------------------------

SocTypeOK ==
  /\ cpu_run \in BOOLEAN /\ cpu_n_reset \in BOOLEAN /\ cpu_cycles \in 0..255
  /\ dbg \in Accesses \union {None} /\ dbg_mem_rdy \in BOOLEAN
  /\ mem \in [Words -> Value]
  /\ oe \subseteq Adr
  /\ ram_out \in Value \union {Unknown} /\ rom_out \in Value \union {Unknown}
  /\ cpu \in Accesses \union {None} /\ fetch \in Fetches \union {None}
  /\ awaited \in Accesses \union {None} /\ fetching \in Fetches \union {None}
  /\ must_reset \in BOOLEAN /\ disturbed \subseteq {"access", "stop"}
  /\ target \in 0..256 /\ granted \in 0..target

Contents(m, adr) == IF adr \in Words THEN m[adr] ELSE Zero

(* The debug unit reads what the memory holds, even while the CPU runs:    *)
(* its access is held for two edges and dbg_mem_rdy marks the second       *)
(* (picosoc.v:51-54,120-125, dbgu32.v:279-297).                            *)
DbgReadsMemory ==
  dbg.op = "read" /\ dbg_mem_rdy => mem_do = Contents(mem, dbg.adr)

CpuTakesMemory ==
  cpu_run /\ ~InReset /\ awaited # None => mem_do = Contents(mem, awaited.adr)

(* What the CPU takes is what the memory holds, whatever the host does     *)
(* before and after.  Lost are only a word asked for at an edge at which   *)
(* the debug unit has the bus, since the CPU is not told, and those asked  *)
(* for or to be taken at the late edge that ends a stop                    *)
(* (picosoc.v:84-103,120-125, ram32.v:25-29).                              *)
CpuReadsMemory == [][disturbed = {} => CpuTakesMemory]_vars

(* The test of memory access under a running CPU (t12_dbgu32_mem.v:7-38)   *)
(* expects its loop of reads to go on, and so the CPU to read what the     *)
(* memory holds however the host accesses it.                              *)
CpuReadsOn == [][disturbed \subseteq {"access"} => CpuTakesMemory]_vars

(* A word fetched through port 1 while port 0 left it the memory is the    *)
(* word of the ROM, through accesses of the debug unit, stops and starts   *)
(* of the CPU; only the one it awaits when its clock stops is lost         *)
(* (vexsoc.v:132-145, ram32.v:19-32).                                      *)
FetchReadsRom ==
  [][cpu_run /\ ~InReset /\ fetching # None => rom_out = mem[fetching.adr]]_vars

(* A store of the CPU takes effect on the edge that ends it, unless the    *)
(* debug unit has the bus, and no other changes the memory: not that of a  *)
(* CPU that stands still before it, nor one to the ROM                     *)
(* (picosoc.v:120-126).                                                    *)
WritesTakeEffect ==
  [][/\ cpu_run /\ ~dbg_mem_op /\ cpu.op = "write" /\ cpu.adr \in Ram \union Mmio
          => mem'[cpu.adr] = cpu.data
     /\ \A adr \in Words : mem'[adr] # mem[adr] =>
          \/ dbg.op = "write" /\ dbg.adr = adr
          \/ cpu_run /\ cpu.op = "write" /\ cpu.adr = adr /\ adr \notin Rom]_vars

(* A reset of the CPU holds until the CPU has seen it: the first edge of   *)
(* its clock afterwards finds cpu_n_reset low, however long it was stopped *)
(* (dbgu32.v:261-264,302-303, picosoc.v:83-84).                            *)
ResetIsSeen == [][CpuEdge /\ must_reset => InReset]_vars

(* I_CPU_RUN_CYC n gives a running CPU n edges of its clock and a stopped  *)
(* one n + 1, since the gate opens while clk is high: it stops exactly     *)
(* then (dbgu32.v:254-258,305-313, picosoc.v:84).                          *)
CyclesGranted ==
  [][target > 0 /\ CpuEdge =>
       granted < target /\ (~cpu_run' => granted + 1 = target)]_vars
=============================================================================
