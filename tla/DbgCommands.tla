---------------------------- MODULE DbgCommands -----------------------------
(***************************************************************************)
(* The commands of the debug unit, extra/dbgu32.v, and the data they carry.*)
(* A byte is a number, a word or an address the tuple of its four bytes,   *)
(* least significant first, a command the sequence of its bytes.           *)
(***************************************************************************)
EXTENDS Integers, Sequences

CONSTANTS
  Cells,          \* how many words of memory the debug unit reaches
  Commands,       \* the commands the host may ask
  MemAddresses    \* the addresses at which it asks for the memory

I_ADR_PTR_SET == 1
I_ADR_PTR_GET == 3
I_MEM_WR == 4
I_MEM_RD == 5
I_CPU_RUN_CYC == 32
I_CPU_RESET == 33
I_CPU_FREERUN == 34
ACK == 1
NAK == 2

Instructions == {I_ADR_PTR_SET, I_ADR_PTR_GET, I_MEM_WR, I_MEM_RD,
                 I_CPU_RUN_CYC, I_CPU_RESET, I_CPU_FREERUN}

U8 == 0..255
Word == [1..4 -> U8]

\* The bytes of the instruction that starts with byte i, itself included.
RX_DATA_LEN(i) ==
  CASE i \in {I_ADR_PTR_SET, I_MEM_WR} -> 5
    [] i \in {I_CPU_RUN_CYC, I_CPU_FREERUN} -> 2
    [] OTHER -> 1

\* Mutant: only I_ADR_PTR_GET returns a word.
TX_DATA_LEN_NoRead(i) == IF i = I_ADR_PTR_GET THEN 4 ELSE 1

\* The bytes of its response.
TX_DATA_LEN(i) == IF i \in {I_ADR_PTR_GET, I_MEM_RD} THEN 4 ELSE 1

\* Mutant: the low byte does not wrap.
Add4NoWrap(adr) == [adr EXCEPT ![1] = @ + 4]

\* adr + 4 modulo 2^32, carried from byte to byte.
Add4(adr) ==
  LET carry(i) == \A j \in 1..(i - 1) : adr[j] >= IF j = 1 THEN 252 ELSE 255
  IN [i \in 1..4 |-> IF i = 1 THEN (adr[1] + 4) % 256
                     ELSE IF carry(i) THEN (adr[i] + 1) % 256 ELSE adr[i]]

\* The word of memory an address selects.
Cell(adr) == (adr[1] \div 4) % Cells

ASSUME CommandsAssumption ==
  /\ Cells \in Nat \ {0}
  /\ \A c \in Commands :
       c \in Seq(U8) /\ c # <<>> /\ Len(c) = RX_DATA_LEN(c[1])
  /\ MemAddresses \subseteq Word

\* The address pointer is kept within a finite set, a bound of the model.
MayAsk(c, adr) == c[1] \in {I_MEM_WR, I_MEM_RD} => adr \in MemAddresses
=============================================================================
