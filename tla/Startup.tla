------------------------------- MODULE Startup ------------------------------
(***************************************************************************)
(* From _start to main with the memory map of c/linker.ld: .data, .bss and *)
(* the heap in RAM in this order, the image of .data in ROM.  Both loops   *)
(* of _start go by words, while the ends of the sections are wherever the  *)
(* last object ends.  Behind main, the two programs that are about this    *)
(* map: c/sections.c tests it, c/alloc.c gives the heap to lwmem.          *)
(***************************************************************************)
EXTENDS Integers

CONSTANTS DataEnds,    \* _data_end of the builds; _data_start is 0
          BssSizes,    \* the sizes of .bss
          Top,         \* _heap_end, and where the stack starts
          BlockSize    \* what lwmem_malloc(16) takes of the heap

(* The objects of sections.c are in .data, RAM is whole words, and the     *)
(* linker finds room for the sections.                                     *)
ASSUME LayoutAssumption ==
  /\ DataEnds \subseteq Nat /\ BssSizes \subseteq Nat /\ Top \in Nat /\ BlockSize \in Nat \ {0}
  /\ Top % 4 = 0 /\ \A e \in DataEnds : e >= 9
  /\ \A e \in DataEnds, b \in BssSizes : 4 * ((e + 3) \div 4) + b <= Top

VARIABLES boot_pc,
          layout,      \* the build: program, data_end, bss_end, data_in, copies
          ram,         \* by byte
          ptr,         \* the loop's pointer
          fail,        \* the bits sections.c has set
          region, taken    \* what lwmem was given, and has handed out

bootVars == <<boot_pc, layout, ram, ptr, fail, region, taken>>

\* The linker script: .bss starts on the next word, or at 0 if .data is not in RAM.
BssStart(data_end, data_in) == IF data_in = "ram" THEN 4 * ((data_end + 3) \div 4) ELSE 0
bss_start == BssStart(layout.data_end, layout.data_in)

\* Byte a of the image of .data, and what follows it in ROM; RAM holds junk at power-up.
Image(a) == IF a < layout.data_end THEN a + 1 ELSE 99
Junk == -1
Assigned == 50         \* a value the program assigns

\* The objects of sections.c in .data: an array, a pointer, and a last character.
this_is_data3 == 0..3
this_is_data == 4..7
this_is_data2 == {layout.data_end - 1}

Built(program, data_end, bss_size, data_in, copies) ==
  /\ layout = [program |-> program, data_end |-> data_end,
               bss_end |-> BssStart(data_end, data_in) + bss_size, data_in |-> data_in, copies |-> copies]
  /\ boot_pc = "clear" /\ ptr = bss_start
  /\ ram = [a \in 0..(Top - 1) |-> Junk]
  /\ fail = {} /\ region = [start |-> 0, size |-> 0] /\ taken = 0

\* What the comments of sections.c:68-69 name, beside the right build.
BootInit ==
  \E e \in DataEnds, b \in BssSizes :
    \/ \E program \in {"sections", "alloc"} : Built(program, e, b, "ram", TRUE)
    \/ Built("sections", e, b, "rom", TRUE)
    \/ Built("sections", e, b, "ram", FALSE)

-----------------------------------------------------------------------------
(* _start.                                                                 *)

WordAt(p) == p..(p + 3)

\* Mutant: the copy goes on for a word that starts at the end.
CopyWordInclusive ==
  /\ boot_pc = "copy" /\ ptr <= layout.data_end
  /\ ram' = [a \in DOMAIN ram |-> IF a \in WordAt(ptr) THEN Image(a) ELSE ram[a]]
  /\ ptr' = ptr + 4
  /\ UNCHANGED <<boot_pc, layout, fail, region, taken>>

ClearWord ==
  /\ boot_pc = "clear" /\ ptr < layout.bss_end
  /\ ram' = [a \in DOMAIN ram |-> IF a \in WordAt(ptr) THEN 0 ELSE ram[a]]
  /\ ptr' = ptr + 4
  /\ UNCHANGED <<boot_pc, layout, fail, region, taken>>

Cleared ==
  /\ boot_pc = "clear" /\ ~(ptr < layout.bss_end)
  /\ boot_pc' = IF layout.copies THEN "copy" ELSE "main"
  /\ ptr' = 0
  /\ UNCHANGED <<layout, ram, fail, region, taken>>

\* A store to ROM has no effect.
CopyWordOfData ==
  /\ boot_pc = "copy" /\ ptr < layout.data_end
  /\ ram' = [a \in DOMAIN ram |->
               IF a \in WordAt(ptr) /\ layout.data_in = "ram" THEN Image(a) ELSE ram[a]]
  /\ ptr' = ptr + 4
  /\ UNCHANGED <<boot_pc, layout, fail, region, taken>>

Copied ==
  /\ boot_pc = "copy" /\ ~(ptr < layout.data_end)
  /\ boot_pc' = "main"
  /\ UNCHANGED <<layout, ram, ptr, fail, region, taken>>

-----------------------------------------------------------------------------
(* main of sections.c.                                                     *)

InRom == layout.data_in = "rom"
Intact(object) == InRom \/ \A a \in object : ram[a] = Image(a)
bss == bss_start..(layout.bss_end - 1)

TestContents ==
  /\ boot_pc = "main" /\ layout.program = "sections"
  /\ fail' = {bit \in 0..3 : \/ bit = 0 /\ \E a \in bss : ram[a] # 0
                             \/ bit = 1 /\ ~Intact(this_is_data)
                             \/ bit = 2 /\ ~Intact(this_is_data2)
                             \/ bit = 3 /\ ~Intact(this_is_data3)}
  /\ boot_pc' = "assign"
  /\ UNCHANGED <<layout, ram, ptr, region, taken>>

\* this_is_data2 = 8; this_is_data = &this_is_data2; both read back.
TestAssignments ==
  /\ boot_pc = "assign"
  /\ ram' = [a \in DOMAIN ram |-> IF a \in this_is_data2 \union this_is_data /\ ~InRom
                                  THEN Assigned ELSE ram[a]]
  /\ fail' = fail \union
       {bit \in 4..5 : InRom \/ \E a \in this_is_data2 \union this_is_data : ram'[a] # Assigned}
  /\ boot_pc' = "sent"
  /\ UNCHANGED <<layout, ptr, region, taken>>

-----------------------------------------------------------------------------
(* main of alloc.c.  The size is a difference of word pointers.            *)

Region == [start |-> layout.bss_end, size |-> (Top - layout.bss_end) \div 4]

AssignRegion ==
  /\ boot_pc = "main" /\ layout.program = "alloc"
  /\ region' = Region
  /\ boot_pc' = "allocate"
  /\ UNCHANGED <<layout, ram, ptr, fail, taken>>

\* lwmem: the next block while the region has room; the program prints NULL after that.
lwmem_malloc ==
  /\ boot_pc = "allocate"
  /\ IF taken + BlockSize <= region.size
     THEN /\ taken' = taken + BlockSize
          /\ ram' = [a \in DOMAIN ram |-> IF a - region.start \in taken..(taken + BlockSize - 1)
                                          THEN Assigned ELSE ram[a]]
          /\ UNCHANGED boot_pc
     ELSE boot_pc' = "idle" /\ UNCHANGED <<ram, taken>>
  /\ UNCHANGED <<layout, ptr, fail, region>>

BootIdle == boot_pc \in {"sent", "idle"} /\ UNCHANGED bootVars

BootNext ==
  \/ ClearWord \/ Cleared \/ CopyWordOfData \/ Copied
  \/ TestContents \/ TestAssignments \/ AssignRegion \/ lwmem_malloc \/ BootIdle

BootSpec == BootInit /\ [][BootNext]_bootVars

-----------------------------------------------------------------------------

BootTypeOK ==
  /\ boot_pc \in {"clear", "copy", "main", "assign", "sent", "allocate", "idle"}
  /\ ram \in [0..(Top - 1) -> {Junk, 0, Assigned, 99} \union 1..Top]
  /\ ptr \in 0..Top /\ fail \subseteq 0..7
  /\ taken \in 0..region.size

(* The byte sections.c sends: 0 for the right build, 0x30 and 0x0E for the *)
(* two wrong ones its comments name (sections.c:49-69).  Neither the words *)
(* _start writes past an unaligned end nor their order disturbs a section, *)
(* and no block of the heap reaches one, or the stack's three quarters of  *)
(* what lies above (alloc.c:34).                                           *)
SectionsVerdict ==
  /\ boot_pc = "sent" =>
       fail = CASE InRom -> {4, 5} [] ~layout.copies -> {1, 2, 3} [] OTHER -> {}
  /\ boot_pc \in {"main", "allocate", "idle"} /\ layout.copies /\ ~InRom =>
       /\ \A a \in 0..(layout.data_end - 1) : ram[a] = Image(a)
       /\ \A a \in bss : ram[a] = 0
       /\ \A a \in (Top - (3 * (Top - layout.bss_end)) \div 4)..(Top - 1) : ram[a] # Assigned
=============================================================================
