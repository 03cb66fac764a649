# A verification project for riscv-ice40

The repository puts five RISC-V cores on one iCE40 board.  Around every core
stands the same small set of units in Verilog: a debug unit through which a
host loads the memory and starts the CPU, a UART for the programs, memory, a
timer and PWM channels; the darkriscv board adds a floating point unit and a
demultiplexer for byte accesses.  C programs run on it, among them Dhrystone.
This directory models those units and programs as TLA+ state machines, checks
the models with TLC and proves what matters most with TLAPS.

A step of a model is one rising edge of a clock.  A register written with `<=`
is a variable, its value after the edge the primed one; when two non-blocking
assignments reach one register in an edge the later in the file wins, and the
equations of the models keep that order.  A step of a program is an access it
makes, a statement or an iteration of a loop, whichever its property is about.

## The system

| component | state | operations | talks to | what is hard |
|---|---|---|---|---|
| UART, `extra/uart.v` | two shift counters, two cycle counters, ready and finished pulses | start, count, sample or shift a bit, finish; reset | the line; `dbgu32`, `uartblk` by pulses | two clocks drift, counter widths, reset in a frame |
| divisor, `extra/uart.v` 33-35 | none (elaboration) | cycles per bit from two frequencies | the counters | rounding error adds up over a frame |
| debug unit, `extra/dbgu32.v` | received command, response, address pointer, memory strobes, CPU run/reset and cycle count, `busy` | receive, decode, execute, access memory, run the CPU, respond; reset | host by line and cts; memory by strobe and ready; CPU | many assignments to one register, answers that overlap the next command, reset anywhere |
| UART block, `extra/uartblk.v` | `tx_buf_empty`, `rx_has_data`, `busy`, read register | bus write, data read, status read, UART pulses | CPU over the bus; host | a status that is stale when used; flags without a reset |
| SoCs, `cores/*-soc/*soc.v` | bus multiplexer, ready pipeline, gated CPU clock | arbitrate CPU and debug unit, decode addresses | everything | the debug unit takes the bus from a running CPU; clock gating in an access |
| memory, `extra/ram32.v`, `darkriscv-soc/darkdemux.v` | two banks of 16K x 32; none in the demultiplexer | two ports, one array; byte mask, lane selection | the SoCs | the second port wins; three selections that must agree |
| timer, PWM, `extra/{timer,pwm}.v` | divider and counter; counter and level | count, read; compare, store a level | the programs over the bus | wrap-around; a level stored within a period |
| dark FPU, `darkriscv-soc/fpu*.v` | state, operands, pipeline of the adder | the instruction `dsqa` | the darkriscv core by ready | rounding and carries, no reset |
| start-up, `c/sections.c`, `c/alloc.c`, `c/linker.ld` | RAM by byte, a pointer, the heap | clear, copy, test, allocate | RAM and ROM | words written past unaligned ends |
| paced programs, `c/{time,uart_comm,delay,uart}.c` | `t0`, a count | poll, wait, send | timer, UART block | unsigned wrap of the timer |
| LED programs, `c/{led,led_breathe}.c` | LED, level | set, breathe | PWM | a visible jump |
| Dhrystone, `dhrystone/{dhry,main,stdlib}.c` | two records, arrays, globals; counters read; buffers and heap | the main loop and its procedures; timing; `strcpy`, `strcmp`, `malloc` | counters of the core, timer | aliases between records, wraps, word-wise strings |
| heartbeat, clock and reset, `extra/{heartbeat,clk}.v` | dividers, power-up counter | count | an LED; every clock and reset | - |
| probes, `c/{counters,print_test,ram_test}.c` | none | read, print, write and read back | registers, memory | - |
| tools, `vcd/*.py`, `cells*.py`, `lutcount*` | none | compare traces, count cells | files | - |

What makes each correct:

* UART: a sample of bit *i* falls while the other end drives bit *i*, whatever
  the drift; a byte announced is the byte sent; a frame ends before the next
  begins; a reset leaves nothing of the old frame.
* Debug unit: every command has its effect once, its response is heard whole
  and is that of the command; `cts` keeps further bytes away while it matters.
* UART block: bytes go through whole, in order and once, both ways, although
  the program acts on an old status.
* SoC: the debug unit reads what the memory holds, whatever the CPU does; the CPU
  reads, fetches and writes what it asks for, whatever the host does, but for
  the accesses at the very edges where the debug unit has the bus and for those
  under way when its clock is stopped; it gets the clock edges it is due and
  sees every reset.
* Byte accesses: a load returns the bytes last stored at its place, whatever the
  mix of lengths.
* Programs: a wait lasts what it was asked for, over every wrap of the timer; a
  breathing LED shows no jump; the sections are in place when `main` starts and
  the heap stays away from them; `malloc` never hands out memory twice; strings
  are copied and compared as C says; Dhrystone prints what it says it should and
  the clock and cycles per instruction it really had.
* FPU: `dsqa` is the accumulator plus the square of the difference, up to what
  one guard bit loses.

## Modules

| module | models | what it is |
|---|---|---|
| `UartParams` | uart.v constants | bit time, modulus of the counters, the byte |
| `UartTx`, `UartRx` | uart.v, each `always` block | one action per branch of the block |
| `UartLink` | two `uart.v` on clocks of their own | composition of the two; `ByteChannel` is what it promises |
| `UartFrame` | uart.v seen from a unit | cycle-exact abstraction: counts down to `rx_ready` and `tx_finished` |
| `Uart` | one `uart.v` with reset, any client | shown to implement `UartFrame` |
| `DbgCommands` | dbgu32.v tables | opcodes, lengths, address arithmetic |
| `DbgProtocol` | what dbgu32.v promises a host | abstract: one command, its effect, its reply |
| `Dbgu32` | dbgu32.v over `UartFrame`, the host, the memory | one operator per group of registers; shown to implement `DbgProtocol` |
| `DbguPhases` | the same, seen as an exchange | the phases from a command's first byte to its response's last: the invariant of `DbguProofs`, in a module TLC can load |
| `UartBlk` | uartblk.v over `UartFrame`, the loop of `c/uart_comm.c`, a host | shown to implement `ByteChannel` in both directions |
| `Soc` | the bus of the SoCs, ram32.v, the gated CPU clock | the debug unit and a CPU on one bus; both reduced to their accesses |
| `ByteLanes` | darkdemux.v with the mask of ram32.v, one word | byte, half word and word accesses mixed |
| `BaudDivisor` | uart.v 33-34 | where the samples fall in a frame sent at the nominal rate |
| `Dhrystone` | dhry.c, dhry.h | the main loop, an operator per procedure |
| `Stdlib` | stdlib.c | the string functions loop by loop, `malloc` |
| `Benchmark` | main.c | the counters around the benchmark and what is computed of them |
| `Startup` | sections.c, alloc.c | `_start` and the two programs about the memory map |
| `Delays` | timer.v with time.c, uart_comm.c, delay.c, uart.c | the programs that send at a pace |
| `Leds` | pwm.v with led.c, led_breathe.c | the LED programs and the modulator one looks at |
| `DarkFpu` | fpu.v, fpu_sumdiff.v with fpu.c | the unit under its test program |
| `Programs` | the images of the board | composition of the nine above from `ByteLanes` on: `image` says which is loaded, and the others stay where they would start |
| `UartLinkProofs`, `UartProofs`, `UartBlkProofs`, `DbguProofs`, `SocProofs`, `HardwareProofs`, `StdlibProofs`, `ProgramProofs` | | theorems and their proofs |
| `MC*` | | values of the constants for TLC |

The chain of abstraction is: the bit-level registers implement `UartFrame`
(`Uart`, with resets and an arbitrary client), and the two units that use a
UART are modelled over `UartFrame`.  So their models have one countdown instead
of four counters per UART, and lose no timing.

How the state corresponds: variables have the names of the registers.
`rx_left`, `tx_left` of `UartFrame` stand for (`rx_inprogress`, `rx_bit`,
`rx_cnt`) and (`tx_inprogress`, `tx_bit`, `tx_cnt`); the mapping is the
substitution in `Uart!Frame`.  A data register that holds bits of two bytes is
the one value `Garbled`; `mixed` and `sent` in `Uart` are history variables for
it, and `in_step` says whether the receiver began its frame at a start bit: a
peer may send its byte on through a reset, after which the receiver takes one
of its data bits for a start bit.  The host's variables in `Dbgu32` are what it has asked, what is left to
send and what it has heard.  In `Soc`, `dbg`, `cpu` and `fetch` are the accesses
that the three masters present, `oe`, `ram_out` and `rom_out` what the memories
drive; `awaited` and `fetching` are what the CPU takes at its next edge, and
`disturbed` is a history of `awaited`: whether the debug unit had the bus, or the
CPU stood still, at the edge where the CPU asked for it.  The
byte lanes and the adapters of the cores are abstracted: all five present an
access and take its result one edge of their clock later.  In `UartBlk`, `pc` is
the place of the program between two bus accesses; any number of edges may pass
there.  At `storing` and `loading` an access is held for a second edge, as the
debug unit does where a core takes one.

The programs keep the names of their functions and variables; `*_pc` is the
next statement.  A pointer to a record of Dhrystone is its number, a string
literal the number of its text, a character its code.  In `Stdlib` a word is
the little-endian sum of its characters, so that the test for a zero byte is
the arithmetic of the source.  `Delays` has `lag`, the edges since the program's
last step, and `since`, the ticks since it read the timer.  `Benchmark` lets
edges go by in bulk between two reads of counters.  `Leds` counts the edges the
LED was on in a period (`on`, `shown`).  In `DarkFpu` a number is its sign,
exponent and mantissa.

## Runs

| run | instance | what it shows |
|---|---|---|
| `link` | 3 cycles per bit, 2-bit counters, drift -2..1 edges, 3 bytes | `SampledInItsBit`, `EndsInStopBit`, `AnnouncedWhole`, types, and the link implements a byte channel, with liveness.  1.5 bits is 4 = 2^2, so the load of `rx_cnt` truncates to 0 and every count wraps |
| `uart_frame` | 3 cycles per bit, 2 bytes, resets at any edge | the registers keep the timing of `UartFrame`; `rx_stopbit` is exactly the stop-bit window |
| `dbg_memory` | 2 cycles per bit, 5 commands, 2 words, addresses 0 and 2^32-4 | address and memory commands implement `DbgProtocol` over the wrap of the pointer; `cts` covers a command; no response is lost |
| `dbg_control` | 2 cycles per bit, 7 commands, resets at any edge | CPU commands, an unknown command and a store, with the board reset in every state |
| `blk` | 2 cycles per bit, 2 bytes, at most one reset | both directions of the block are byte channels, only a reset loses a byte, and until a reset both are live |
| `soc` | one word of RAM and of MMIO, two of ROM, an unmapped address, a CPU with a fetch port, `I_CPU_RUN_CYC` 2 | the debug unit reads the memory, resets reach the CPU, cycle counts are exact; the CPU reads, fetches and writes the memory but for the accesses at the two edges the debug unit has the bus and those under way over a stop, and a CPU that stands still changes nothing |
| `programs` | every image, with short words, timers and strings (below) | what each computes, sends or shows is what its source says (`ReportedAsExpected`, `StringsAsSpecified`, `BlocksApart`, `SectionsVerdict`, `PeriodBounds`, `NoJump`, `ClockReported`, `DsqaAccurate`, `LoadsWhatWasStored`, `SampleWithinBit`), and it goes on or comes to its end (`ProgramsGoOn`) |
| `dbg_run_zero` | violation | `I_CPU_RUN_CYC` with 0 is never answered, `cts` stays high |
| `dbg_pipelined` | violation, 8 cycles per bit | a host that goes by `cts` alone has a response overwritten in the end |
| `soc_running` | violation | a debug access under a running CPU makes the CPU read another word |
| `blk_reset` | violation | after a reset in a transmission `tx_buf_empty` stays 0 for ever |
| `fpu_reset` | violation | a reset of the core in a `dsqa` gives its result to the next one |

Bounds.  The boards have 8 to 105 cycles per bit.  Two or three are enough for
the units: the order of events in a frame (last data bit, stop bit, ready) is
the same for every bit time of at least two cycles, and what a unit does
between two of them takes one to four cycles, so that a short bit time is the
hardest case, where its work comes nearest to the next event.  `dbg_pipelined`
uses the real bit time because the overtaking needs it.  `UartLink` is proved
for every bit time.  Commands are chosen so that every branch of the decoder is
taken and each length of command and response occurs; `MemAddresses` bounds the
address pointer, so that a walk over 2^32 addresses is replaced by its two
ends.  `MaxResets` bounds the resets of `UartBlk`: its flags keep the damage of
one, and a second adds none.  `Lead` and `Lag` bound the drift by what
1.5 bits to the first sample can absorb (`LinkAssumption`); a byte is sent only
when the last frame is over, where the count begins anew.

In `Soc`, an access is over after three edges and any three in a row can occur;
two words of ROM suffice to fetch one while the other is read.  A word is
overwritten by `Written` only and starts as anything, so that a write always
can be told from none.  The host may do anything whenever the debug unit is
`Idle`: commands come many bit times apart, so that each finds the access and the
cycles of the one before done, and the CPU out of its reset if it runs.

In `programs` every width is cut to where its edges are a few steps away:

* Dhrystone: 1, 2, 3 and 117 runs with `INT_MAX` 127; the last is the greatest
  count whose element of `Arr_2_Glob` an int can hold.
* `Stdlib`: chars below 4, all strings of up to three characters out of two, and
  some that end at each place of a second word, in buffers of three words at
  every pair of alignments;
  a heap of 7 and blocks of 1 to 3, so that requests fail with room left and
  without.
* `Startup`: .data ends at each place in a word, .bss has each size over a word
  and a bit; 48 bytes of RAM hold both, the heap and the stack's part.
* `Delays`: the timer wraps at 16 with a period of 5 ticks of 2 edges, and every
  program starts at every value of it.  `Leds`: 8 levels of PWM, and pauses of
  two periods and of no multiple of one.
* `Benchmark`: counters of 14 bits, started just before a wrap, at 1, 3 and 12
  edges per tick, and up to 3 edges between two reads.
* `DarkFpu`: 4 bits of mantissa and exponent, numbers next to 1 and 2 with the
  first and the last mantissa, two tests in a row.
* `BaudDivisor`: the rates of the repository and every ratio from 19 to 40 in
  eighths.

Symmetry is used in `soc` alone, between the two words of ROM, which has no
liveness; elsewhere bytes are told apart by their bits or by their meaning.

Fairness.  A clock never stops: weak fairness of the edge, in `UartLink` of each
of the two clocks (which also says that neither runs away from the other for
ever).  In `Dbgu32` a host that has begun a command sends the rest when `cts`
lets it; nothing obliges it to begin one, nor the board to be reset.  In
`UartBlk` the program keeps running, as its loop does; the host owes nothing.
In `Programs` weak fairness of the next step says that the clock runs and the
core executes: which step it is stays open, and that a paced program is never
starved is the bound `MaxLag` on the edges a core needs for a step.  `Soc` and
`Uart` have safety only and need none.

## Proofs

`UartLinkProofs` proves, for every bit time of at least two cycles, every counter
width that holds 1.5 bits, every payload and every drift `LinkAssumption`
admits:

* `TypeCorrect`: `Spec => []LinkTypeOK`,
* `SamplesInPlace`: `Spec => []SampledInItsBit`,
* `FramesEndInPlace`: `Spec => []EndsInStopBit`,
* `AnnouncesWhole`: `Spec => AnnouncedWhole`.

None of these is inductive.  The strengthening `IInv` relates the two ends by
time: `TxElapsed` counts the edges the transmitter has made since it drove the
start bit and `RxElapsed` those of the receiver since it saw it, and their
difference is the skew plus the delay of the first sighting (`CountInv`,
`PositionInv`).  Arithmetic (`SampleSlot`, `Multiples`) then places sample *i*
in bit *i*; `DataInv` adds that the bits taken so far are those of the byte.
The counter that wraps enters through `Remaining`, for which 0 is a full turn.

`HardwareProofs` proves three results about circuits that need no other.
`RateSuffices` (`SampleWithinBit`): from 19 cycles per bit on, whatever the two
frequencies, the rounded-up divisor keeps all samples in their bits when the
frame is sent at exactly the nominal rate.  8 cycles per bit, as on the boards,
divide evenly, and are covered by the run only.  `LanesCorrect`
(`LoadsWhatWasStored`), for every set of register values: the invariant is that
the word in RAM is the bytes stored.  `DsqaIsAccurate` is of the FPU, below.

`UartProofs` proves of one UART, for every bit time, every counter width that
holds 1.5 bits and resets at any edge: `UartTypeCorrect` (`UartTypeOK`),
`StopbitInPlace` (`StopbitWindow`) and `UartImplementsFrame` (`ImplementsFrame`),
the whole refinement: every step of the registers is a step of `UartFrame` or a
stutter.  The invariant gives each register its meaning in a frame; its heart
is `InPlace`, which ties the receiver's counters to the peer's place in its
frame while the two are in step, and `Taken`, the bits taken so far.  The value
of the counter that wraps is `Remaining` again.  So the units stand on a
frame timing that is proved, not only checked at three cycles per bit.

`UartBlkProofs` proves, for every bit time, set of bytes and number of resets:

* `BlkTypeCorrect` (`BlkTypeOK`) and `CtsIsCaused` (`CtsHasCause`), whose
  conjunction is inductive;
* `BytesReceived` (`ReceivesInOrder`) and `BytesTransmitted` (the safety of
  `TransmitsInOrder`): until a reset each direction is a `ByteChannel`, a step
  of the block being one of the channel or a stutter.  The queue of the channel
  is in the registers: `RxOne` and `TxOne` say that a byte is in at most one
  place of its way (line, data register, the program's hands), and that the
  flag the program reads late is never ahead of the place it speaks of.
  `WireInv` keeps the byte of a frame whole from its first bit to its last.

`UartLinkProofs` has the same result of the bare link: `LinkIsChannel`, the
safety of `ImplementsChannel`, from `ReadyInv`, which ties the pulse of the
receiver to the byte under way.

`DbguProofs` proves `DbguTypeCorrect` (`DbgTypeOK`) and `CpuResetWorks`
(`CpuResetTakesEffect`) for every set of commands, bit time and size of memory,
with resets, and with a host that waits for its answers or not.  `DbgTypeOK` admits
`Garbled`, the mixture of two bytes, in the shift registers and on the wires only:
what the receiver announces and what `rx_data` and `tx_data` hold are bytes, which
needs that a byte announced is one the host sent whole (`RxWhole`), also across
a reset; the reset command needs that `cpu_n_reset` is low for one cycle
only of a running CPU and that no command ends in it (`RunReleases`), since
raising the register wins over lowering it.  `DataAssumption` says that the
bytes on the line are all of 0 to 255.

Of a host that waits for each response before it begins the next command
(`~Pipelined`), it proves more:

* `CtsCovers` (`CtsCoversCommand`), `ResponsesKept` (`NoResponseLost`),
  `BytesKept` (`NothingDropped`: every byte handed to the transmitter goes out
  whole) and `RxDataKept` (`NoOverrun`: no byte comes in over one in work),
* `UnitImplementsProtocol`: the safety of `ImplementsProtocol`.  Every command has
  its effect once, with the operand the host sent and on the cell the pointer
  names, and its response carries that command's result byte by byte; a reset
  of the board ends the exchange in any state.

None of these is inductive, since the registers of the three parts of the unit
are related by the order of events alone.  `PhaseInv` (`DbguPhases`) lists the
phases of an exchange, each with what all registers hold in it, and
`PhaseInvariance` shows that an edge leads from a phase to itself or to the next.
The one overlap is in `Idle` and `Incoming`: the next command may begin in the
stop bit of a response, and the remaining cycles of the two frames then say that
the response is over long before the command is.  The assumption is needed:
the program of the host is not in the repository, and with one that goes by
`cts` alone, as `dbgu32_cts_wait.v` does, the run `dbg_pipelined` shows a response
lost.

`SocProofs` proves, for every memory map, every word and every argument of
`I_CPU_RUN_CYC`: `SocTypeCorrect` (`SocTypeOK`), `DbgReads` (`DbgReadsMemory`),
`ResetsReachCpu` (`ResetIsSeen`), `CountsHold` (`CyclesGranted`), `CpuReads`
(`CpuReadsMemory`), `CpuFetches` (`FetchReadsRom`) and `CpuWrites`
(`WritesTakeEffect`).  The invariant adds to the types that a ready access has
its word in the latch (`DbgInv`), that a reset not yet seen is still there
(`ResetInv`), and that edges granted and edges counted make up the edges due
(`CyclesInv`); the account needs the bound that a command finds the unit idle.
For the CPU's side it says that the memory drives the word the CPU takes at its
next edge, if it was running and had the bus when it asked for it (`AwaitInv`),
and the word it fetches, the one acknowledged at a late edge included
(`FetchInv`); the latter needs that a late edge finds the bus silent (`LateEdge`).
The three theorems are of any host.  What they leave out is lost indeed: the
CPU is not told when the debug unit displaces its access (`soc_running`), and at
the late edge that ends a stop it takes 0 for the word it awaited, another
instruction for the one it fetched, and its pending store is never made.  So a
host that stops a program cannot let it go on, only reset it; no line of the
repository says otherwise.  `FetchReadsRom` is of fetches that were
told `p1_ready`, as in vexsoc.v and h3soc.v; darksoc.v wires `i_ready` and does
not use it, and relies on its core halting while it reads data.

`DsqaIsAccurate` in `HardwareProofs` is `DsqaAccurate` with `FpuTypeOK`, for every
width of mantissa and exponent and any number of tests, of a core that is not
reset while the unit is busy (`ResetBusy = FALSE`; `fpu_reset` shows that it is
false otherwise).  `DsqaInv` says in `UnitAt` what the unit's registers hold in
each of its states, as functions of the operands: `AdderAt` for the six states of
the shared adder, the partial sum of the multiplication, and, from the last
addition on, that the value is near (`NearResult`).  Behind it is the error of
each step:

* an operand shifted to the other's exponent is off by half a place, rounded by
  its one guard bit (`RoundedIsNear`, `AlignedIsNear`), and a carry cuts a bit off
  (`CarriedIsNear`), so the difference is off by at most one and a half places of
  the greater operand (`DifferenceIsNear`);
* the product of the equal mantissas is exact (`ProductIsSquare`), so that its
  error is that of the difference (`SquareIsNear`: `Lost`);
* the second addition and the shifts that normalise the result stay within the
  one place left to them (`TotalIsNear`, `ShiftDownIsNear`, `ShiftUpIsNear`).

Nothing of this holds once an exponent or a mantissa wraps, so the invariant
carries `Room`: every test raises the accumulator's exponent by one at most, and
`FpuAssumption` leaves as many exponents above the squares of the inputs as there
are tests.  It asks the same below, so that the square of a difference in the
last place has an exponent.  The numbers of `fpu.c` have exponents 112 to 136,
with 40 tests: 2 * 112 is 174 or more, and 2 * 136 + 3 - 127 + 40 less than 256.
The powers of two are a recursive function, `Pow2`, of which `Pow2Unfolds` shows
that it is defined, by a least counterexample, since the library's induction
cannot be instantiated.

`ProgramProofs` proves, of `Programs`, each from an invariant of its own image
that the other images leave alone:

* `PeriodsKept` (`PeriodBounds`), for every period, timer width, lag and sending
  time that `TimerAssumption` admits: the timer and `t0` differ by the ticks
  since it was read, up to one turn (`TimeAgrees`), and a program looks again
  before that turn is over (`InTime`).
* `BlocksKeptApart` (`BlocksApart`), for every heap and every sequence of sizes:
  the blocks fill the heap from its start, and a call that fails is the last.
* `StringsRight` (`StringsAsSpecified`), for every set of strings, every pair of
  alignments and every even number of characters from 4 on: the three loops of
  `strcpy` and the two of `strcmp` have done a prefix of their work and touched
  nothing else (`StringInv`, proved in `StdlibProofs`).  They go by words as long as `ZeroByte` holds: the
  test of the source, the top bits of `(v - 0x01010101) & ~v`, holds exactly if a
  character of the word is zero, whatever borrows run through the difference.
* `ReportExpected` (`ReportedAsExpected`), for every number of runs an int can
  count: `DhryInv` says what the variables hold at each point of a run, above
  all that both records point at the first after it (`HeapRun`), so that
  `Proc_1` of the next run copies over the same one.
* `ClockIsReported` (`ClockReported`), for every clock, every width of the counters
  and up to 16 cycles per instruction: a difference of two reads is the number
  of edges between them, over a wrap of any counter (`BenchInv`), and for a run
  of at least `Enough` edges the rounding gives back the clock and the cycles per
  instruction.  `CountAssumption` asks that the differences fit an int.
* `SectionsKept` (`SectionsVerdict`), for every layout that fits the RAM with
  .data not ending before the few bytes the program itself has in it
  (`LayoutAssumption`): `BootInv` says which bytes the loops of `_start` have
  cleared and copied, word by word past unaligned ends, and that the heap and
  its blocks begin behind them.
* `BreathesSmoothly` (`NoJump`), for every number of levels: `BreatheInv` follows
  the level through the period in which it is stored.  It rests on
  `PauseAssumption`, that `delay_ms(5)` lasts two periods at least (625 rounds of
  a loop, against 256 edges), so that a level is stored only when the one
  before it has been shown in full, and on the levels of two stores differing
  by no more than `GammaStep` allows.
* `DsqaInTheImages` (`DsqaAccurate`): the result of `HardwareProofs` in the composition
  the run checks.
* `ProgramsTypeCorrect` (`ProgramsTypeOK`), by `ImageInv`, the conjunction of an
  invariant per image.  Most ranges need what the program does and not only the
  step: the pointer of `_start` stays in RAM because it goes by words and RAM is
  whole words (`BootTypes`; `LayoutAssumption` says so of the `_heap_end` of
  linker.ld, 0x10000), the pointers of the string functions because of the zeros
  ahead of them (`StringInv`), the records of Dhrystone stay records because
  `Proc_1` finds the one it was written for (`HeapTypes`), and the LED counter
  does not pass the last level because that edge is always dark (`LedTypes`).

What is left to TLC.  Everything that rests on fairness is out of the prover's
reach: that bytes and responses arrive (the liveness in `ImplementsChannel`,
`ImplementsProtocol` and `TransmitsInOrder`), `BothWaysLive` and `ProgramsGoOn`.
Every invariant of a passing run, and every safety property besides, is stated by
a theorem.  What the theorems do not cover is a divisor of 8 cycles per bit, as on
the boards, which only the run samples in place (see `RateSuffices`).

## Disagreements between the code and what is said of it

* `dbgu32.v:258` "will call tx_ack() after run": not for 0 cycles
  (`dbg_run_zero`).
* `dbgu32.v:12` "low = accept data", and the test
  `extra/tb/src/dbgu32_cts_wait.v`: a host that believes it loses a response
  after about thirty commands (`dbg_pipelined`).
* `uartblk.v:87` "tx buf empty (1 = can write)": not after a reset in a
  transmission, since the flag has no reset (`blk_reset`).  For the same
  reason a reset in a stop bit leaves `cts` high with no byte to read, so
  `CtsHasCause` is stated up to the first reset.
* `cores-tb-src/t12_dbgu32_mem.v:29,37` "don't disable cpu clk": memory is
  accessed under a running CPU that is expected to go on; the bus displaces
  the CPU's access (`soc_running`).
* `fpu.c:20,34`: `dsqa` is compared with the sum computed in software; the unit
  has no reset, and a reset of the core in a `dsqa` gives the next one its
  result (`fpu_reset`).
* `uart.v:32` "round to nearest": the divisor is rounded up; 12 MHz and 115200
  baud give 105 where 104 is nearer.
* `dhry.c:390` names the arguments of `Func_1` 'H' and 'R' where they are 'R'
  and 'Y', and `dhry.c:238` says that a value becomes 4 that becomes 5.  Neither
  changes the report.

## Not modelled

* The processor cores (submodules, third-party), their build scripts, the
  synthesis reports and power logs.
* `heartbeat.v` and `clk.v`: a divider behind an LED, and the PLL of the device
  with a counter of 256 edges; nothing reads their state.
* `c/counters.c`, `c/print_test.c` and `c/ram_test.c`: they read registers, print
  through a submodule that is absent, or write and read back each word in order.
* lwmem and printf (submodules, absent): `Startup` has of lwmem the region it is
  given and the blocks it takes from it, marked external.
* The function XFSQ of the FPU, which no program uses; the Dhrystone figures and
  the listing of .bss in `main.c`, which divide and print the same differences.
* The tools (`vcd`, `cells*.py`, `lutcount*`): scripts over files.
* Debug outputs.
* A peer whose frames are malformed, or come at another bit time than one
  `LinkAssumption` admits.
* A host that sends on through a reset of the board, outside `Uart`.  The reset
  is a button or the power-up counter (picosoc.v:33-35) and the host is not told
  of it: `Uart` has a peer whose byte goes on and whose data bits are then taken
  for a start bit, and `StopbitWindow` and `ImplementsFrame` hold of it.  In
  `Dbgu32` and `UartBlk` the host gives its byte and its exchange up at the edge of
  the reset, and hears nothing of a frame the reset cuts short, of which a real
  receiver may make a byte.  So what the units are shown to do after a reset is
  what they do for a host that begins anew.
* What a core does at `ebreak`: `malloc` returns its pointer if the core goes on
  (stdlib.c:19-21), and `BlocksApart` is of a core that stops.
* A .bss that does not begin on a word: linker.ld:29-30 aligns it as the objects
  in it are aligned, and `Startup` has an int among them, as sections.c does.
* A core whose cycles per instruction vary within a run: `Benchmark` has one `Cpi`,
  so that the figure reported can be compared with it.  Runs shorter than
  `Enough` edges, for which a tenth of the time is too coarse a divisor.
* In `Delays`, the strings and the echo of uart_comm.c: a turn of its loop is one
  sending of bounded length (`UartBlk` has its accesses to the UART, byte by byte).
* Each core's bus adapter beyond one access per edge of its clock; the masks of
  the other four cores come from the cores.

## Plan

1. (done) UART, its link and its frame abstraction; debug unit; UART block;
   divisor; the SoC with its bus, gated clock and memories.
2. (done) Byte lanes, timer, PWM, FPU, the programs, the start-up and Dhrystone;
   a peer that sends on through a reset; accesses held for two edges at the UART
   block; the proofs of `UartFrame`, of the types of both units and of the
   programs.
3. (done) The proofs of the CPU's side of `Soc`, of the phases of `Dbgu32` and
   its refinement, of the byte channels, and of the strings, figures, sections
   and levels of the programs.
4. (done) The proofs of the FPU, of the types of every image, and of its accuracy
   in the composition.
