------------------------------- MODULE Stdlib -------------------------------
(***************************************************************************)
(* dhrystone/stdlib.c: strcpy and strcmp, which go byte by byte until both *)
(* pointers are aligned and word by word from there, finding the end of a  *)
(* string in a word by arithmetic; and malloc, which never frees.  A step  *)
(* is an iteration of a loop, or a whole call of malloc.                   *)
(***************************************************************************)
EXTENDS Integers, Sequences

CONSTANTS CharMod,     \* the number of chars, 256 in the program
          Buffer,      \* the bytes of a buffer, whole words
          Strings,     \* the strings passed in, sequences of non-zero chars
          HeapSize,    \* the size of heap_memory, 1024 in the program
          Sizes        \* the arguments of malloc

ASSUME CharAssumption == CharMod \in Nat /\ CharMod >= 4 /\ CharMod % 2 = 0

\* With its final zero a string fits its buffer, wherever in the first word it begins.
ASSUME StringsAssumption ==
  /\ Buffer \in Nat /\ Buffer >= 4 /\ Buffer % 4 = 0
  /\ \A str \in Strings : str \in Seq(1..(CharMod - 1)) /\ Len(str) + 4 <= Buffer

ASSUME HeapAssumption == HeapSize \in Nat /\ Sizes \subseteq Nat \ {0}

VARIABLES lib_pc,
          mem,                 \* two buffers
          dst, src,            \* the pointers, s1 and s2 of strcmp
          args,                \* the memory and the pointers at the call
          result,
          heap_memory_used, blocks   \* the blocks malloc returned

strVars == <<mem, dst, src, args, result>>
mallocVars == <<heap_memory_used, blocks>>
libVars == <<lib_pc, strVars, mallocVars>>

Char == 0..(CharMod - 1)
Blank == [a \in 0..(2 * Buffer - 1) |-> 2]

Place(m, at, str) ==
  [a \in DOMAIN m |-> IF a - at \in 0..(Len(str) - 1) THEN str[a - at + 1]
                      ELSE IF a - at = Len(str) THEN 0 ELSE m[a]]

\* A little-endian word, the weights of its bytes and of their top bits.
Weight(i) ==
  CASE i = 0 -> 1
    [] i = 1 -> CharMod
    [] i = 2 -> CharMod * CharMod
    [] i = 3 -> CharMod * CharMod * CharMod
WordMod == CharMod * CharMod * CharMod * CharMod
Load(m, a) == m[a] + Weight(1) * m[a + 1] + Weight(2) * m[a + 2] + Weight(3) * m[a + 3]
Ones == 1 + Weight(1) + Weight(2) + Weight(3)
TopBit(v, i) == (v \div (Weight(i) * (CharMod \div 2))) % 2

\* Mutant: the test without ~v.
HasZeroLoose(v) ==
  \E i \in 0..3 : TopBit((v - Ones) % WordMod, i) = 1

\* A byte of the word is zero.
HasZero(v) ==
  \E i \in 0..3 : TopBit((v - Ones) % WordMod, i) = 1 /\ TopBit(v, i) = 0

Aligned == dst % 4 = 0 /\ src % 4 = 0

-----------------------------------------------------------------------------

\* A call of strcpy or strcmp with its pointers at these places.
LibCalled(function, m, d, s) ==
  /\ lib_pc = function
  /\ mem = m /\ dst = d /\ src = s
  /\ args = [function |-> function, mem |-> m, dst |-> d, src |-> s]
  /\ result = 0
  /\ heap_memory_used = 0 /\ blocks = {}

LibInit ==
  \/ LibCalled("malloc", Blank, 0, Buffer)
  \/ \E d \in 0..3, s \in Buffer..(Buffer + 3), str2 \in Strings :
       \/ LibCalled("strcpy", Place(Blank, s, str2), d, s)
       \/ \E str1 \in Strings : LibCalled("strcmp", Place(Place(Blank, s, str2), d, str1), d, s)

GoOn(n) == dst' = dst + n /\ src' = src + n /\ UNCHANGED <<lib_pc, result>>

Return(value) == lib_pc' = "returned" /\ result' = value /\ UNCHANGED <<dst, src>>

-----------------------------------------------------------------------------
(* strcpy and strcmp.                                                      *)

CopyChar ==
  /\ lib_pc = "strcpy" /\ ~Aligned
  /\ mem' = [mem EXCEPT ![dst] = mem[src]]
  /\ IF mem[src] = 0 THEN Return(args.dst) ELSE GoOn(1)
  /\ UNCHANGED <<args, mallocVars>>

\* The bytes of a word up to its first zero, or all four.
CopyWord ==
  /\ lib_pc = "strcpy" /\ Aligned
  /\ LET ends == HasZero(Load(mem, src))
         before(i) == \A j \in 0..(i - 1) : ends => mem[src + j] # 0
     IN /\ mem' = [a \in DOMAIN mem |->
                     IF a - dst \in 0..3 /\ before(a - dst) THEN mem[src + a - dst] ELSE mem[a]]
        /\ IF ends THEN Return(args.dst) ELSE GoOn(4)
  /\ UNCHANGED <<args, mallocVars>>

Order(c1, c2) == IF c1 < c2 THEN -1 ELSE 1

CompareChar ==
  /\ lib_pc = "strcmp" /\ ~Aligned
  /\ IF mem[dst] # mem[src] THEN Return(Order(mem[dst], mem[src]))
     ELSE IF mem[dst] = 0 THEN Return(0) ELSE GoOn(1)
  /\ UNCHANGED <<mem, args, mallocVars>>

\* In two words that differ: the first bytes that differ, unless the strings end before.
CompareBytes ==
  LET decides(i) == mem[dst + i] # mem[src + i] \/ mem[dst + i] = 0
      first == CHOOSE i \in 0..3 : decides(i) /\ \A j \in 0..(i - 1) : ~decides(j)
  IN IF mem[dst + first] = mem[src + first] THEN 0 ELSE Order(mem[dst + first], mem[src + first])

CompareWord ==
  /\ lib_pc = "strcmp" /\ Aligned
  /\ IF Load(mem, dst) # Load(mem, src) THEN Return(CompareBytes)
     ELSE IF HasZero(Load(mem, dst)) THEN Return(0) ELSE GoOn(4)
  /\ UNCHANGED <<mem, args, mallocVars>>

-----------------------------------------------------------------------------

\* Mutant: the limit is compared with what was used before.
MallocChecksBefore(size) ==
  /\ lib_pc = "malloc"
  /\ heap_memory_used' = heap_memory_used + size
  /\ IF heap_memory_used > HeapSize
     THEN lib_pc' = "ebreak" /\ UNCHANGED blocks
     ELSE /\ blocks' = blocks \union {<<heap_memory_used, size>>}
          /\ UNCHANGED lib_pc
  /\ UNCHANGED strVars

\* The block is counted first; one that does not fit stops the core (ebreak).
Malloc(size) ==
  /\ lib_pc = "malloc"
  /\ heap_memory_used' = heap_memory_used + size
  /\ IF heap_memory_used + size > HeapSize
     THEN lib_pc' = "ebreak" /\ UNCHANGED blocks
     ELSE /\ blocks' = blocks \union {<<heap_memory_used, size>>}
          /\ UNCHANGED lib_pc
  /\ UNCHANGED strVars

\* The caller goes on, the core has stopped.
LibEnds == lib_pc \in {"returned", "ebreak"} /\ UNCHANGED libVars

LibNext ==
  \/ CopyChar \/ CopyWord \/ CompareChar \/ CompareWord
  \/ \E size \in Sizes : Malloc(size)
  \/ LibEnds

-----------------------------------------------------------------------------

LibTypeOK ==
  /\ lib_pc \in {"strcpy", "strcmp", "malloc", "returned", "ebreak"}
  /\ mem \in [0..(2 * Buffer - 1) -> Char]
  /\ dst \in 0..(Buffer - 1) /\ src \in Buffer..(2 * Buffer - 1)
  /\ result \in -1..(Buffer - 1)
  /\ heap_memory_used \in Nat

\* The place of the end of the string at a, and the order of two strings.
End(m, a) == CHOOSE e \in a..(2 * Buffer - 1) : m[e] = 0 /\ \A b \in a..(e - 1) : m[b] # 0

Compares(m, a, b, r) ==
  \E n \in 0..(End(m, a) - a) :
    /\ \A i \in 0..(n - 1) : m[a + i] = m[b + i]
    /\ IF m[a + n] = m[b + n] THEN m[a + n] = 0 /\ r = 0
       ELSE r = IF m[a + n] < m[b + n] THEN -1 ELSE 1

(* strcpy copies the string with its final zero and touches no other byte; *)
(* strcmp orders the strings and not what lies behind their ends: whatever *)
(* the alignments, where in a word a string ends and what follows it there *)
(* (stdlib.c:24-114, whose word loops read past the end).                  *)
StringsAsSpecified ==
  lib_pc = "returned" =>
    \/ /\ args.function = "strcpy"
       /\ result = args.dst
       /\ \A a \in DOMAIN mem :
            mem[a] = IF a - args.dst \in 0..(End(args.mem, args.src) - args.src)
                     THEN args.mem[args.src + a - args.dst] ELSE args.mem[a]
    \/ /\ args.function = "strcmp"
       /\ mem = args.mem
       /\ Compares(mem, args.dst, args.src, result)

(* Blocks of malloc neither overlap nor pass the end of heap_memory        *)
(* (stdlib.c:14-22), however many calls it takes to exhaust it.            *)
BlocksApart ==
  \A b1, b2 \in blocks :
    /\ b1[1] + b1[2] <= HeapSize
    /\ b1 # b2 => b1[1] + b1[2] <= b2[1] \/ b2[1] + b2[2] <= b1[1]
=============================================================================
