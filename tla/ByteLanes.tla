------------------------------ MODULE ByteLanes -----------------------------
(***************************************************************************)
(* Loads and stores of bytes and half words by the darkriscv core: how     *)
(* darkdemux.v places them on the lanes of the bus and picks them from it, *)
(* and how the mask of ram32.v keeps the other bytes of the word.  A store *)
(* takes an edge, a load two, in which the core holds its access.          *)
(***************************************************************************)
EXTENDS Integers

CONSTANTS Registers    \* what the core stores: registers, four bytes, the lowest first

Lanes == 0..3
ASSUME RegisterAssumption == Registers \subseteq [Lanes -> Nat]

VARIABLES lane_pc,
          word,              \* a word of RAM
          do,                \* the output latch of the RAM
          DLEN, place,       \* bytes of the access of the core, and DADDR[1:0]
          DATAI,             \* what the core loads
          stored             \* history: the bytes it has stored

laneVars == <<lane_pc, word, do, DLEN, place, DATAI, stored>>

Silent == [l \in Lanes |-> 0]
AlignedAccess == {a \in {1, 2, 4} \X Lanes : a[2] % a[1] = 0}

-----------------------------------------------------------------------------
(* darkdemux.v: the lanes of an access, and data out and in.               *)

XBE(len, p) == IF len = 1 THEN {p}
                ELSE IF len = 2 THEN IF p \div 2 = 1 THEN {2, 3} ELSE {0, 1}
                ELSE Lanes

\* Mutant: half words are always placed at the bottom.
XATAO_Low(reg, len, p) ==
  [l \in Lanes |-> IF len = 1 /\ l = p THEN reg[0] ELSE IF len = 1 THEN 0 ELSE reg[l]]

XATAO(reg, len, p) == [l \in Lanes |-> IF l \in XBE(len, p) THEN reg[l - p] ELSE 0]

FromLanes(w, len, p) == [l \in Lanes |-> IF l < len THEN w[l + p] ELSE 0]

-----------------------------------------------------------------------------

\* ram32.v: the lanes of wren take the data, and nothing is read in this edge.
Store(reg, len, p) ==
  /\ lane_pc = "run"
  /\ word' = [l \in Lanes |-> IF l \in XBE(len, p) THEN XATAO(reg, len, p)[l] ELSE word[l]]
  /\ stored' = [l \in Lanes |-> IF l - p \in 0..(len - 1) THEN reg[l - p] ELSE stored[l]]
  /\ UNCHANGED <<lane_pc, do, DLEN, place, DATAI>>

\* The RAM reads, the core is halted ...
ReadWord(len, p) ==
  /\ lane_pc = "run" /\ lane_pc' = "halted"
  /\ do' = word
  /\ DLEN' = len /\ place' = p
  /\ UNCHANGED <<word, DATAI, stored>>

\* ... and takes its bytes of the word at the next edge.
Take ==
  /\ lane_pc = "halted" /\ lane_pc' = "loaded"
  /\ DATAI' = FromLanes(do, DLEN, place)
  /\ UNCHANGED <<word, do, DLEN, place, stored>>

Use ==
  /\ lane_pc = "loaded" /\ lane_pc' = "run"
  /\ do' = Silent /\ DLEN' = 4 /\ place' = 0 /\ DATAI' = Silent
  /\ UNCHANGED <<word, stored>>

LaneNext ==
  \/ \E len \in {1, 2, 4}, p \in Lanes :
       <<len, p>> \in AlignedAccess /\ (ReadWord(len, p) \/ \E reg \in Registers : Store(reg, len, p))
  \/ Take \/ Use

LaneInit ==
  /\ lane_pc = "run"
  /\ word = Silent /\ stored = Silent /\ do = Silent /\ DATAI = Silent
  /\ DLEN = 4 /\ place = 0

LaneSpec == LaneInit /\ [][LaneNext]_laneVars

-----------------------------------------------------------------------------

LaneTypeOK ==
  /\ lane_pc \in {"run", "halted", "loaded"}
  /\ {word, do, DATAI, stored} \subseteq [Lanes -> Nat]
  /\ <<DLEN, place>> \in AlignedAccess

(* A load returns the bytes last stored at its place, at the bottom of the *)
(* register, whichever lengths and places they were stored with            *)
(* (darkdemux.v:18-38 selects twice on the way out and once on the way in, *)
(* which must agree with each other and with the mask of ram32.v:39).      *)
LoadsWhatWasStored ==
  lane_pc = "loaded" =>
    \A l \in Lanes : DATAI[l] = IF l < DLEN THEN stored[l + place] ELSE 0
=============================================================================
