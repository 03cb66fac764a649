----------------------------- MODULE SocProofs -----------------------------
(***************************************************************************)
(* What holds on the bus of Soc for every memory map, every word and every *)
(* argument of I_CPU_RUN_CYC: the types, the reads of the debug unit, the  *)
(* reads, fetches and writes of the CPU, its resets and the clock edges it *)
(* is granted.                                                             *)
(***************************************************************************)
EXTENDS Soc, TLAPS

(* The ready mark of an access goes with its word in the output latch.     *)
DbgInv ==
  dbg # None /\ dbg_mem_rdy =>
    /\ oe = {dbg.adr}
    /\ dbg.op = "read" =>
         /\ dbg.adr \in Ram => ram_out = mem[dbg.adr]
         /\ dbg.adr \in Rom => rom_out = mem[dbg.adr]

(* A reset that the CPU has not seen is still there.                       *)
ResetInv == must_reset => ~cpu_n_reset

(* The edges granted and those the counter still holds are all those due.  *)
CyclesInv ==
  /\ target = 0 => cpu_cycles = 0
  /\ target > 0 => cpu_run /\ cpu_cycles > 0 /\ granted + cpu_cycles = target

(* What the CPU takes at its next edge is in the output latch, unless it   *)
(* did not have the bus when it asked.                                     *)
AwaitInv ==
  cpu_run /\ awaited # None /\ disturbed = {} =>
    /\ oe = {awaited.adr}
    /\ awaited.adr \in Ram => ram_out = mem[awaited.adr]
    /\ awaited.adr \in Rom => rom_out = mem[awaited.adr]

(* So is the word fetched, also after a late edge.                         *)
FetchInv == cpu_run /\ fetching # None => rom_out = mem[fetching.adr]

IInv ==
  /\ SocTypeOK /\ DbgInv /\ ResetInv /\ CyclesInv
  /\ AwaitInv /\ FetchInv

-----------------------------------------------------------------------------
(* What an access on the bus consists of.                                  *)
LEMMA AccessFields ==
  ASSUME NEW a \in Accesses
  PROVE  /\ a # None
         /\ a.adr \in Adr
         /\ a.op \in {"read", "write"}
         /\ a.op = "write" => a.adr \in Words /\ a.data \in Value
BY SocAssumption DEF Accesses, None, Adr

(* A fetch is of a word of the ROM.                                        *)
LEMMA FetchFields ==
  ASSUME NEW f \in Fetches \union {None}, f # None
  PROVE  f.adr \in Rom
BY DEF Fetches, None

(* Initially everything holds.                                             *)
LEMMA InitIInv == Init => IInv
<1> SUFFICES ASSUME Init PROVE IInv
  OBVIOUS
<1>1. SocTypeOK
  <2>1. cpu_cycles \in 0..255 /\ target \in 0..256 /\ granted \in 0..target
    BY DEF Init
  <2>2. cpu_run \in BOOLEAN /\ cpu_n_reset \in BOOLEAN /\ dbg_mem_rdy \in BOOLEAN
        /\ must_reset \in BOOLEAN
    BY DEF Init
  <2>3. oe \subseteq Adr /\ disturbed \subseteq {"access", "stop"}
    BY DEF Init
  <2> QED
    BY <2>1, <2>2, <2>3 DEF Init, SocTypeOK
<1>2. DbgInv /\ ResetInv
  BY DEF Init, DbgInv, ResetInv
<1>3. CyclesInv
  BY DEF Init, CyclesInv
<1>4. AwaitInv /\ FetchInv
  BY DEF Init, AwaitInv, FetchInv
<1> QED
  BY <1>1, <1>2, <1>3, <1>4 DEF IInv

(* What is on the bus is an access or nothing.                             *)
LEMMA BusType == SocTypeOK => bus \in Accesses \union {None}
BY DEF SocTypeOK, bus

(* The latch of a memory holds a word, whichever port it served.           *)
LEMMA LatchType ==
  ASSUME SocTypeOK, NEW region, region \subseteq Words,
         NEW p1, p1 # None => p1.adr \in Words
  PROVE  Latch(region, p1) \in Value \union {Unknown}
<1>1. bus \in Accesses \union {None}
  BY BusType
<1>2. Selects(region) => bus.adr \in Words
  BY DEF Selects
<1>3. mem \in [Words -> Value]
  BY DEF SocTypeOK
<1>4. CASE Selects(region) /\ ~Writes
  BY <1>2, <1>3, <1>4 DEF Latch
<1>5. CASE ~Selects(region) /\ p1 # None
  BY <1>3, <1>5 DEF Latch
<1>6. CASE ~(Selects(region) /\ ~Writes) /\ ~(~Selects(region) /\ p1 # None)
  BY <1>6 DEF Latch
<1> QED
  BY <1>4, <1>5, <1>6

(* Access keeps the types of the bus.                                      *)
LEMMA AccessType ==
  ASSUME SocTypeOK, Access
  PROVE  /\ mem' \in [Words -> Value]
         /\ oe' \subseteq Adr
         /\ ram_out' \in Value \union {Unknown}
         /\ rom_out' \in Value \union {Unknown}
<1>1. bus \in Accesses \union {None}
  BY BusType
<1>2. mem' \in [Words -> Value]
  <2>1. CASE Writes
    <3>1. bus.adr \in Words /\ bus.data \in Value
      BY <1>1, <2>1, AccessFields DEF Writes, None
    <3> QED
      BY <2>1, <3>1 DEF Access, SocTypeOK
  <2>2. CASE ~Writes
    BY <2>2 DEF Access, SocTypeOK
  <2> QED
    BY <2>1, <2>2
<1>3. oe' \subseteq Adr
  BY <1>1, AccessFields DEF Access, OutputEnable
<1>4. ram_out' \in Value \union {Unknown}
  <2>1. Ram \subseteq Words
    BY DEF Words
  <2> QED
    BY <2>1, LatchType DEF Access
<1>5. rom_out' \in Value \union {Unknown}
  <2>1. Rom \subseteq Words
    BY DEF Words
  <2>2. fetch # None => fetch.adr \in Words
    BY FetchFields, <2>1 DEF SocTypeOK
  <2> QED
    BY <2>1, <2>2, LatchType DEF Access
<1> QED
  BY <1>2, <1>3, <1>4, <1>5

-----------------------------------------------------------------------------
(* What every command leaves of the types of the debug unit's registers    *)
(* and of the history of I_CPU_RUN_CYC.                                    *)
CommandTypes ==
  /\ cpu_run \in BOOLEAN /\ cpu_n_reset \in BOOLEAN /\ cpu_cycles \in 0..255
  /\ dbg \in Accesses \union {None}
  /\ target \in 0..256 /\ granted \in 0..target

Command ==
  \/ NoCommand
  \/ \E access \in Accesses : MemoryCommand(access)
  \/ \E on \in BOOLEAN : FreeRun(on)
  \/ \E n \in Cycles : RunCycles(n)
  \/ ResetCpu
  \/ BoardReset

(* Every step is an edge with one of the commands.                         *)
LEMMA NextIsEdge == Next => Edge(Command)
<1> SUFFICES ASSUME Next PROVE Edge(Command)
  OBVIOUS
<1>1. CASE Edge(NoCommand)
  BY <1>1 DEF Edge, Command
<1>2. CASE \E access \in Accesses : Edge(MemoryCommand(access))
  BY <1>2 DEF Edge, Command
<1>3. CASE \E on \in BOOLEAN : Edge(FreeRun(on))
  BY <1>3 DEF Edge, Command
<1>4. CASE \E n \in Cycles : Edge(RunCycles(n))
  BY <1>4 DEF Edge, Command
<1>5. CASE Edge(ResetCpu)
  BY <1>5 DEF Edge, Command
<1>6. CASE Edge(BoardReset)
  BY <1>6 DEF Edge, Command
<1> QED
  BY <1>1, <1>2, <1>3, <1>4, <1>5, <1>6 DEF Next

(* Every command keeps those types and the account of the edges due: only  *)
(* an idle unit takes one, and NoCommand moves both counts by one.         *)
LEMMA CommandKeeps ==
  ASSUME SocTypeOK, CyclesInv, Command
  PROVE  CommandTypes' /\ CyclesInv'
<1> USE DEF CommandTypes, CyclesInv
<1>0. /\ cpu_run \in BOOLEAN /\ cpu_n_reset \in BOOLEAN /\ cpu_cycles \in 0..255
      /\ dbg \in Accesses \union {None}
      /\ target \in 0..256 /\ granted \in 0..target
  BY DEF SocTypeOK
<1>1. CASE NoCommand
  <2> USE <1>0, <1>1 DEF NoCommand, CountDown, Stop, Release
  <2>1. cpu_run' \in BOOLEAN /\ cpu_n_reset' \in BOOLEAN
    OBVIOUS
  <2>2. dbg' \in Accesses \union {None}
    OBVIOUS
  <2>3. cpu_cycles' \in 0..255
    OBVIOUS
  <2>4. CASE target = 0
    <3>1. target' = 0 /\ granted' = 0 /\ cpu_cycles' = 0
      BY <2>4
    <3> QED
      BY ONLY <2>1, <2>2, <2>3, <3>1 DEF CommandTypes, CyclesInv
  <2>5. CASE target > 0 /\ cpu_cycles = 1
    <3>1. cpu_run' = FALSE
      BY <2>5
    <3>2. target' = 0 /\ cpu_cycles' = 0
      BY <2>5, <3>1
    <3>3. granted' = 0
      BY <3>2
    <3> QED
      BY ONLY <2>1, <2>2, <2>3, <3>2, <3>3 DEF CommandTypes, CyclesInv
  <2>6. CASE target > 0 /\ cpu_cycles > 1
    <3>1. cpu_run'
      <4>1. cpu_run /\ cpu_cycles # 1
        BY <2>6
      <4> QED
        BY <4>1
    <3>2. target' = target /\ cpu_cycles' = cpu_cycles - 1
      BY <2>6, <3>1
    <3>3. granted' = granted + 1
      BY <2>6, <3>2
    <3>4. granted' + cpu_cycles' = target' /\ cpu_cycles' > 0 /\ granted' \in 0..target'
      BY <2>6, <3>2, <3>3
    <3> QED
      BY <2>1, <2>2, <2>3, <2>6, <3>1, <3>2, <3>4
  <2> QED
    BY <2>4, <2>5, <2>6
<1>2. ASSUME NEW access \in Accesses, MemoryCommand(access)
      PROVE  CommandTypes' /\ CyclesInv'
  BY <1>0, <1>2 DEF MemoryCommand, Release
<1>3. ASSUME NEW on \in BOOLEAN, FreeRun(on)
      PROVE  CommandTypes' /\ CyclesInv'
  BY <1>0, <1>3 DEF FreeRun, Idle, Release
<1>4. ASSUME NEW n \in Cycles, RunCycles(n)
      PROVE  CommandTypes' /\ CyclesInv'
  <2>1. n \in 1..255
    BY SocAssumption
  <2> QED
    BY <1>0, <1>4, <2>1 DEF RunCycles, Idle, Release
<1>5. CASE ResetCpu
  BY <1>0, <1>5 DEF ResetCpu
<1>6. CASE BoardReset
  <2>1. cpu_run' \in BOOLEAN /\ cpu_n_reset' \in BOOLEAN
    BY <1>6 DEF BoardReset
  <2>2. target' = 0 /\ granted' = 0 /\ cpu_cycles' = 0 /\ dbg' = None
    BY <1>6 DEF BoardReset
  <2> QED
    BY ONLY <2>1, <2>2 DEF CommandTypes, CyclesInv
<1> QED
  BY <1>1, <1>2, <1>3, <1>4, <1>5, <1>6 DEF Command

(* An edge keeps the types.                                                *)
LEMMA TypeStep ==
  ASSUME SocTypeOK, CyclesInv, Edge(Command)
  PROVE  SocTypeOK'
<1>1. CommandTypes'
  BY CommandKeeps DEF Edge
<1>2. /\ mem' \in [Words -> Value]
      /\ oe' \subseteq Adr
      /\ ram_out' \in Value \union {Unknown}
      /\ rom_out' \in Value \union {Unknown}
  BY AccessType DEF Edge
<1>3. /\ cpu' \in Accesses \union {None} /\ fetch' \in Fetches \union {None}
      /\ awaited' \in Accesses \union {None} /\ fetching' \in Fetches \union {None}
  <2>1. CASE CpuMovesOn
    BY <2>1 DEF CpuMovesOn, SocTypeOK
  <2>2. CASE CpuWaits
    BY <2>2 DEF CpuWaits, cpu_vars, SocTypeOK
  <2> QED
    BY <2>1, <2>2 DEF Edge
<1>4. dbg_mem_rdy' \in BOOLEAN
  BY DEF Edge, Ready, dbg_mem_op
<1>5. must_reset' \in BOOLEAN
  BY DEF Edge, SocTypeOK
<1>6. disturbed' \subseteq {"access", "stop"}
  BY DEF Edge, SocTypeOK
<1> QED
  BY <1>1, <1>2, <1>3, <1>4, <1>5, <1>6 DEF SocTypeOK, CommandTypes

(* The edge on which dbg_mem_rdy rises is the edge after the access began, *)
(* and the access stays on the bus: nothing but the end of it or a reset   *)
(* of the board changes dbg then.                                          *)
LEMMA DbgStep ==
  ASSUME SocTypeOK, Edge(Command)
  PROVE  DbgInv'
<1> SUFFICES ASSUME dbg' # None, dbg_mem_rdy'
             PROVE  /\ oe' = {dbg'.adr}
                    /\ dbg'.op = "read" =>
                         /\ dbg'.adr \in Ram => ram_out' = mem'[dbg'.adr]
                         /\ dbg'.adr \in Rom => rom_out' = mem'[dbg'.adr]
  BY DEF DbgInv
<1>1. dbg # None
  BY DEF Edge, Ready, dbg_mem_op
<1>2. dbg' = dbg
  <2>1. CASE NoCommand
    BY <2>1 DEF NoCommand
  <2>2. CASE BoardReset
    BY <2>2 DEF BoardReset
  <2>3. CASE ~NoCommand /\ ~BoardReset
    BY <1>1, <2>3 DEF Edge, Command, MemoryCommand, FreeRun, RunCycles,
                      ResetCpu, Idle, dbg_mem_op
  <2> QED
    BY <2>1, <2>2, <2>3
<1>3. bus = dbg /\ mem_op
  BY <1>1 DEF bus, mem_op, dbg_mem_op
<1>4. oe' = {dbg'.adr}
  BY <1>1, <1>2, <1>3 DEF Edge, Access, OutputEnable
<1>5. ASSUME dbg'.op = "read"
      PROVE  /\ dbg'.adr \in Ram => ram_out' = mem'[dbg'.adr]
             /\ dbg'.adr \in Rom => rom_out' = mem'[dbg'.adr]
  <2>1. ~Writes
    BY <1>2, <1>3, <1>5 DEF Writes
  <2>2. mem' = mem
    BY <2>1 DEF Edge, Access
  <2>3. dbg'.adr \in Ram => ram_out' = mem'[dbg'.adr]
    BY <1>2, <1>3, <2>1, <2>2 DEF Edge, Access, Latch, Selects
  <2>4. dbg'.adr \in Rom => rom_out' = mem'[dbg'.adr]
    BY <1>2, <1>3, <2>1, <2>2 DEF Edge, Access, Latch, Selects
  <2> QED
    BY <2>3, <2>4
<1> QED
  BY <1>4, <1>5

(* A command raises cpu_n_reset only while the CPU runs.                   *)
LEMMA ReleaseNeedsRun ==
  ASSUME SocTypeOK, Command, ~cpu_n_reset, ~cpu_run
  PROVE  ~cpu_n_reset'
<1>1. Release => ~cpu_n_reset'
  BY DEF Release
<1> QED
  BY <1>1 DEF Command, NoCommand, MemoryCommand, FreeRun, RunCycles,
              ResetCpu, BoardReset

(* A reset lasts while the clock of the CPU stands still.                  *)
LEMMA ResetStep ==
  ASSUME SocTypeOK, ResetInv, Edge(Command)
  PROVE  ResetInv'
<1> SUFFICES ASSUME must_reset' PROVE ~cpu_n_reset'
  BY DEF ResetInv
<1>1. CASE cpu_n_reset /\ ~cpu_n_reset' /\ ~(CpuEdge /\ InReset)
  BY <1>1
<1>2. CASE ~(cpu_n_reset /\ ~cpu_n_reset' /\ ~(CpuEdge /\ InReset))
  <2>1. ~CpuEdge /\ must_reset
    BY <1>2 DEF Edge
  <2>2. ~cpu_run /\ ~cpu_n_reset
    BY <2>1 DEF CpuEdge, ResetInv
  <2> QED
    BY <2>2, ReleaseNeedsRun DEF Edge
<1> QED
  BY <1>1, <1>2

(* An edge that leaves no trace in the history, if not in reset, is one at *)
(* which the CPU was running and had the bus.                              *)
LEMMA Undisturbed ==
  ASSUME Edge(Command), CpuEdge, ~InReset, disturbed' = {}
  PROVE  cpu_run /\ bus = cpu
<1>1. disturbed' = {x \in {"access"} : dbg_mem_op} \union {x \in {"stop"} : ~cpu_run}
  BY DEF Edge
<1>2. ~dbg_mem_op /\ cpu_run
  BY <1>1
<1> QED
  BY <1>2 DEF bus

(* A late edge finds the bus silent: only an idle unit starts the CPU.     *)
LEMMA LateEdge ==
  ASSUME Edge(Command), ~cpu_run, cpu_run', ~InReset
  PROVE  ~mem_op
<1>1. ~NoCommand /\ ~BoardReset
  BY DEF NoCommand, Stop, BoardReset, InReset
<1>2. (\E on \in BOOLEAN : FreeRun(on)) \/ (\E n \in Cycles : RunCycles(n))
  BY <1>1 DEF Edge, Command, MemoryCommand, ResetCpu
<1>3. ~dbg_mem_op
  BY <1>2 DEF FreeRun, RunCycles, Idle
<1> QED
  BY <1>3 DEF mem_op, bus

(* The CPU awaits what it has read at this edge.                           *)
LEMMA AwaitStep ==
  ASSUME SocTypeOK, Edge(Command)
  PROVE  AwaitInv'
<1> SUFFICES ASSUME cpu_run', awaited' # None, disturbed' = {}
             PROVE  /\ oe' = {awaited'.adr}
                    /\ awaited'.adr \in Ram => ram_out' = mem'[awaited'.adr]
                    /\ awaited'.adr \in Rom => rom_out' = mem'[awaited'.adr]
  BY DEF AwaitInv
<1>1. CpuEdge /\ CpuMovesOn
  BY DEF Edge, CpuEdge, CpuWaits
<1>2. ~InReset /\ cpu.op = "read" /\ awaited' = cpu
  BY <1>1 DEF CpuMovesOn
<1>3. bus = cpu /\ bus # None /\ ~Writes
  BY <1>1, <1>2, Undisturbed DEF Writes
<1>4. mem' = mem /\ oe' = {cpu.adr}
  BY <1>3 DEF Edge, Access, OutputEnable
<1>5. /\ cpu.adr \in Ram => ram_out' = mem[cpu.adr]
      /\ cpu.adr \in Rom => rom_out' = mem[cpu.adr]
  BY <1>3 DEF Edge, Access, Latch, Selects, mem_op
<1> QED
  BY <1>2, <1>4, <1>5

(* A word of the ROM that port 1 serves is not written on that edge.       *)
LEMMA FetchStep ==
  ASSUME SocTypeOK, Edge(Command)
  PROVE  FetchInv'
<1> SUFFICES ASSUME cpu_run', fetching' # None
             PROVE  rom_out' = mem'[fetching'.adr]
  BY DEF FetchInv
<1>1. CpuMovesOn
  BY DEF Edge, CpuEdge, CpuWaits
<1>2. Fetched /\ ~InReset /\ fetching' = fetch /\ fetch # None
  BY <1>1 DEF CpuMovesOn
<1>3. ~Selects(Rom)
  <2>1. CASE cpu_run
    BY <1>2, <2>1 DEF Fetched, p1_ready
  <2>2. CASE ~cpu_run
    BY <1>2, <2>2, LateEdge DEF Selects
  <2> QED
    BY <2>1, <2>2
<1>4. fetch.adr \in Rom
  BY <1>2, FetchFields DEF SocTypeOK
<1>5. rom_out' = mem[fetch.adr]
  BY <1>2, <1>3 DEF Edge, Access, Latch
<1>6. mem'[fetch.adr] = mem[fetch.adr]
  <2>1. CASE Writes
    <3>1. bus # None
      BY <2>1 DEF Writes, None
    <3>2. bus.adr # fetch.adr
      BY <1>3, <1>4, <3>1 DEF Selects, mem_op
    <3> QED
      BY <2>1, <3>2, <1>4 DEF Edge, Access, SocTypeOK
  <2>2. CASE ~Writes
    BY <2>2 DEF Edge, Access
  <2> QED
    BY <2>1, <2>2
<1> QED
  BY <1>2, <1>5, <1>6

(* The invariant is inductive.                                             *)
LEMMA Inductive == IInv /\ [Next]_vars => IInv'
<1> SUFFICES ASSUME IInv, [Next]_vars PROVE IInv'
  OBVIOUS
<1>1. CASE Next
  <2>1. Edge(Command)
    BY <1>1, NextIsEdge
  <2>2. SocTypeOK'
    BY <2>1, TypeStep DEF IInv
  <2>3. DbgInv'
    BY <2>1, DbgStep DEF IInv
  <2>4. ResetInv'
    BY <2>1, ResetStep DEF IInv
  <2>5. CyclesInv'
    BY <2>1, CommandKeeps DEF IInv, Edge
  <2>6. AwaitInv' /\ FetchInv'
    BY <2>1, AwaitStep, FetchStep DEF IInv
  <2> QED
    BY <2>2, <2>3, <2>4, <2>5, <2>6 DEF IInv
<1>2. CASE UNCHANGED vars
  <2> USE <1>2 DEF vars, hold, bus_vars, cpu_vars, history
  <2>1. SocTypeOK'
    BY DEF IInv, SocTypeOK
  <2>2. DbgInv' /\ ResetInv' /\ CyclesInv'
    BY DEF IInv, DbgInv, ResetInv, CyclesInv
  <2>3. AwaitInv' /\ FetchInv'
    BY DEF IInv, AwaitInv, FetchInv
  <2> QED
    BY <2>1, <2>2, <2>3 DEF IInv
<1> QED
  BY <1>1, <1>2

(* So it holds in every reachable state.                                   *)
THEOREM Invariance == Spec => []IInv
BY InitIInv, Inductive, PTL DEF Spec

-----------------------------------------------------------------------------
(* Every register stays in its range, for every memory map.                *)
THEOREM SocTypeCorrect == Spec => []SocTypeOK
<1>1. IInv => SocTypeOK
  BY DEF IInv
<1> QED
  BY <1>1, Invariance, PTL

(* The bus carries the word of the one address that is enabled.            *)
LEMMA BusCarries ==
  ASSUME NEW adr \in Adr, oe = {adr},
         adr \in Ram => ram_out = mem[adr],
         adr \in Rom => rom_out = mem[adr]
  PROVE  mem_do = Contents(mem, adr)
<1>1. CASE adr \in Ram
  BY <1>1 DEF mem_do, Contents, Words
<1>2. CASE adr \in Rom
  BY <1>2, SocAssumption DEF mem_do, Contents, Words
<1>3. CASE adr \in Mmio
  <2>1. oe \intersect Ram = {} /\ oe \intersect Rom = {} /\ oe \intersect Mmio # {}
    BY <1>3, SocAssumption
  <2>2. (CHOOSE p \in oe : TRUE) = adr
    OBVIOUS
  <2> QED
    BY <1>3, <2>1, <2>2 DEF mem_do, Contents, Words
<1>4. CASE adr = Unmapped
  BY <1>4, SocAssumption DEF mem_do, Contents, Words
<1> QED
  BY <1>1, <1>2, <1>3, <1>4 DEF Adr, Words

(* The debug unit reads what the memory holds, whatever a running CPU does *)
(* on the bus before, between and after (picosoc.v:51-54,120-125).         *)
THEOREM DbgReads == Spec => []DbgReadsMemory
<1>1. IInv => DbgReadsMemory
  <2> SUFFICES ASSUME IInv, dbg.op = "read", dbg_mem_rdy
               PROVE  mem_do = Contents(mem, dbg.adr)
    BY DEF DbgReadsMemory
  <2>1. dbg \in Accesses /\ dbg # None
    BY DEF IInv, SocTypeOK, None
  <2>2. dbg.adr \in Adr
    BY <2>1, AccessFields
  <2>3. /\ oe = {dbg.adr}
        /\ dbg.adr \in Ram => ram_out = mem[dbg.adr]
        /\ dbg.adr \in Rom => rom_out = mem[dbg.adr]
    BY <2>1 DEF IInv, DbgInv
  <2> QED
    BY <2>2, <2>3, BusCarries
<1> QED
  BY <1>1, Invariance, PTL

(* At every edge of its clock but the late one after a stop the CPU takes  *)
(* the word it asked for, if it had the bus when it asked, whatever the    *)
(* host does before, between and after (picosoc.v:84-103,120-125,          *)
(* ram32.v:25-29).                                                         *)
THEOREM CpuReads == Spec => CpuReadsMemory
<1>1. IInv /\ [Next]_vars => [disturbed = {} => CpuTakesMemory]_vars
  <2> SUFFICES ASSUME IInv, Next, disturbed = {}, cpu_run, awaited # None
               PROVE  mem_do = Contents(mem, awaited.adr)
    BY DEF CpuTakesMemory
  <2>1. awaited.adr \in Adr
    BY AccessFields DEF IInv, SocTypeOK
  <2> QED
    BY <2>1, BusCarries DEF IInv, AwaitInv
<1> QED
  BY <1>1, Invariance, PTL DEF Spec, CpuReadsMemory

(* At every such edge a word fetched is the word of the ROM, the first one *)
(* after a stop included, whoever uses the bus meanwhile                   *)
(* (vexsoc.v:132-145, ram32.v:19-32).                                      *)
THEOREM CpuFetches == Spec => FetchReadsRom
<1>1. IInv /\ [Next]_vars =>
        [cpu_run /\ ~InReset /\ fetching # None => rom_out = mem[fetching.adr]]_vars
  BY DEF IInv, FetchInv
<1> QED
  BY <1>1, Invariance, PTL DEF Spec, FetchReadsRom

(* A write of the CPU that has the bus takes effect on its edge, and the   *)
(* memory changes by no other access: not by one of a CPU that stands      *)
(* still, nor by one of the CPU to the ROM (picosoc.v:120-126).            *)
THEOREM CpuWrites == Spec => WritesTakeEffect
<1>1. ASSUME IInv, Next, cpu_run, ~dbg_mem_op,
             cpu.op = "write", cpu.adr \in Ram \union Mmio
      PROVE  mem'[cpu.adr] = cpu.data
  <2>1. Edge(Command) /\ bus = cpu
    BY <1>1, NextIsEdge DEF bus
  <2>2. Writes /\ cpu.adr \in Words
    BY <1>1, <2>1, SocAssumption DEF Writes, Words
  <2> QED
    BY <1>1, <2>1, <2>2 DEF Edge, Access, IInv, SocTypeOK
<1>2. ASSUME IInv, Next, NEW adr \in Words, mem'[adr] # mem[adr]
      PROVE  \/ dbg.op = "write" /\ dbg.adr = adr
             \/ cpu_run /\ cpu.op = "write" /\ cpu.adr = adr /\ adr \notin Rom
  <2>1. Writes /\ bus.adr = adr
    BY <1>2, NextIsEdge DEF Edge, Access, IInv, SocTypeOK
  <2>2. bus # None
    BY <2>1 DEF Writes, None
  <2> QED
    BY <2>1, <2>2 DEF Writes, bus, dbg_mem_op
<1>3. IInv /\ [Next]_vars =>
        [/\ cpu_run /\ ~dbg_mem_op /\ cpu.op = "write" /\ cpu.adr \in Ram \union Mmio
               => mem'[cpu.adr] = cpu.data
         /\ \A adr \in Words : mem'[adr] # mem[adr] =>
               \/ dbg.op = "write" /\ dbg.adr = adr
               \/ cpu_run /\ cpu.op = "write" /\ cpu.adr = adr /\ adr \notin Rom]_vars
  BY <1>1, <1>2
<1> QED
  BY <1>3, Invariance, PTL DEF Spec, WritesTakeEffect

(* A reset of the CPU reaches the CPU, however long its clock stands still *)
(* (dbgu32.v:261-264,302-303, picosoc.v:83-84).                            *)
THEOREM ResetsReachCpu == Spec => ResetIsSeen
<1>1. IInv /\ [Next]_vars => [CpuEdge /\ must_reset => InReset]_vars
  <2> SUFFICES ASSUME IInv, Next, CpuEdge, must_reset PROVE InReset
    OBVIOUS
  <2>1. ~cpu_n_reset
    BY DEF IInv, ResetInv
  <2>2. Command
    BY NextIsEdge DEF Edge
  <2> QED
    BY <2>1, <2>2, ReleaseNeedsRun DEF IInv, InReset
<1> QED
  BY <1>1, Invariance, PTL DEF Spec, ResetIsSeen

(* I_CPU_RUN_CYC n stops the CPU after n edges, or n + 1 from standing     *)
(* still, for every n (dbgu32.v:254-258,305-313).                          *)
THEOREM CountsHold == Spec => CyclesGranted
<1>1. IInv /\ [Next]_vars =>
        [target > 0 /\ CpuEdge =>
           granted < target /\ (~cpu_run' => granted + 1 = target)]_vars
  <2> SUFFICES ASSUME IInv, Next, target > 0
               PROVE  granted < target /\ (~cpu_run' => granted + 1 = target)
    OBVIOUS
  <2>1. /\ cpu_run /\ cpu_cycles > 0 /\ granted + cpu_cycles = target
        /\ cpu_cycles \in Nat /\ granted \in Nat /\ target \in Nat
    BY DEF IInv, CyclesInv, SocTypeOK
  <2>2. ASSUME ~cpu_run' PROVE cpu_cycles = 1
    <3>1. Command
      BY NextIsEdge DEF Edge
    <3>2. ~Idle
      BY <2>1 DEF Idle
    <3>3. ~BoardReset
      BY <2>2 DEF BoardReset
    <3>4. NoCommand
      BY <3>1, <3>2, <3>3 DEF Command, MemoryCommand, FreeRun, RunCycles, ResetCpu
    <3> QED
      BY <2>1, <2>2, <3>4 DEF NoCommand, Stop
  <2> QED
    BY <2>1, <2>2
<1> QED
  BY <1>1, Invariance, PTL DEF Spec, CyclesGranted
=============================================================================
