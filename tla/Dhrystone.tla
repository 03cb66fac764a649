----------------------------- MODULE Dhrystone ------------------------------
(***************************************************************************)
(* dhrystone/dhry.c: the benchmark the cores are measured with, an action  *)
(* per group of statements of its main loop, an operator per procedure.  A *)
(* procedure that stores through a pointer to one variable is the value it *)
(* stores.  Characters are their codes, and a string is the number of one  *)
(* of the four literals: only their order and two characters matter.       *)
(***************************************************************************)
EXTENDS Integers

CONSTANTS RunCounts,   \* the arguments of dhrystone(runs)
          INT_MAX      \* the greatest int of the target

ASSUME IntAssumption == INT_MAX \in Nat /\ INT_MAX >= 100
ASSUME RunsAssumption == RunCounts \subseteq 1..(INT_MAX - 10)

VARIABLES dhry_pc,     \* what is executed next
          Number_Of_Runs, Run_Index, Ch_Index,
          glob,        \* the scalar globals
          Arr_1_Glob, Arr_2_Glob,
          heap,        \* the records, by pointer
          loc          \* the other locals of dhrystone()

dhryVars == <<dhry_pc, Number_Of_Runs, Run_Index, Ch_Index, glob, Arr_1_Glob,
              Arr_2_Glob, heap, loc>>

Ident_1 == 0
Ident_2 == 1
Ident_3 == 2
Ident_4 == 3
Ident_5 == 4
Enumeration == {Ident_1, Ident_2, Ident_3, Ident_4, Ident_5}

\* Pointers: Null and the two blocks malloc returns.
Null == 0
Rec_Pointer == {1, 2}

Rec_Type == [Ptr_Comp : Rec_Pointer \union {Null}, Discr : Enumeration,
             Enum_Comp : Enumeration, Int_Comp : Int, Str_Comp : 0..4]

Arr_1_Dim == [0..49 -> Int]
Arr_2_Dim == [0..49 -> [0..49 -> Int]]

(* "DHRYSTONE PROGRAM, 1'ST STRING", 2'ND, 3'RD and SOME, in the order of  *)
(* strcmp; their characters 2 and 3 are 'R' and 'Y'.                       *)
String(k) == k
Some == 4
CharAt(str, i) == IF i = 2 THEN 82 ELSE 89

\* An int of the target; the sums here pass INT_MAX by one at most.
ToInt(n) == IF n > INT_MAX THEN n - 2 * (INT_MAX + 1) ELSE n

-----------------------------------------------------------------------------
(* The procedures.  Mutants: a sum one short, a record copied the wrong    *)
(* way round.                                                              *)

Proc_7Short(Int_1_Par_Val, Int_2_Par_Val) == Int_2_Par_Val + (Int_1_Par_Val + 1)

Proc_7(Int_1_Par_Val, Int_2_Par_Val) == Int_2_Par_Val + (Int_1_Par_Val + 2)

Func_3(Enum_Par_Val) == Enum_Par_Val = Ident_3

Proc_6(Enum_Val_Par, Int_Glob) ==
  CASE Enum_Val_Par = Ident_1 -> Ident_1
    [] Enum_Val_Par = Ident_2 -> IF Int_Glob > 100 THEN Ident_1 ELSE Ident_4
    [] Enum_Val_Par = Ident_3 -> Ident_2
    [] Enum_Val_Par = Ident_4 -> IF Func_3(Enum_Val_Par) THEN Enum_Val_Par ELSE Ident_4
    [] Enum_Val_Par = Ident_5 -> Ident_3

\* The result, and the globals afterwards.
Func_1(Ch_1_Par_Val, Ch_2_Par_Val) ==
  IF Ch_1_Par_Val # Ch_2_Par_Val THEN Ident_1 ELSE Ident_2

AfterFunc_1(g, Ch_1_Par_Val, Ch_2_Par_Val) ==
  IF Ch_1_Par_Val # Ch_2_Par_Val THEN g ELSE [g EXCEPT !.Ch_1_Glob = Ch_1_Par_Val]

(* Its loop goes round until Func_1 tells the two characters apart; Ch_Loc *)
(* is then 'A' and Int_Loc 3.                                              *)
Func_2Returns(Str_1, Str_2) == Func_1(CharAt(Str_1, 2), CharAt(Str_2, 3)) = Ident_1
Func_2(Str_1, Str_2) == Str_1 > Str_2
AfterFunc_2(g, Str_1, Str_2) ==
  IF Func_2(Str_1, Str_2) THEN [g EXCEPT !.Int_Glob = 3 + 7] ELSE g

Proc_5(g) == [g EXCEPT !.Ch_1_Glob = 65, !.Bool_Glob = 0]

Proc_4(g) ==
  [g EXCEPT !.Bool_Glob = IF g.Ch_1_Glob = 65 THEN 1 ELSE @, !.Ch_2_Glob = 66]

\* Its loop goes round unless Ch_1_Glob is 'A'.
Proc_2Returns(g) == g.Ch_1_Glob = 65
Proc_2(Int_Par, g) == (Int_Par + 10 - 1) - g.Int_Glob

\* The heap after Proc_3 (&h[p].Ptr_Comp) and after Proc_1 (p).
Proc_3(h, p, g) ==
  LET named == IF g.Ptr_Glob = Null THEN h
               ELSE [h EXCEPT ![p].Ptr_Comp = h[g.Ptr_Glob].Ptr_Comp]
  IN [named EXCEPT ![g.Ptr_Glob].Int_Comp = Proc_7(10, g.Int_Glob)]

Proc_1(h, p, g) ==
  LET next == h[p].Ptr_Comp
      copied == [h EXCEPT ![next] = [h[g.Ptr_Glob] EXCEPT !.Int_Comp = 5],
                          ![p].Int_Comp = 5]
      linked == [copied EXCEPT ![next].Ptr_Comp = copied[p].Ptr_Comp]
      h3 == Proc_3(linked, next, g)
  IN IF h3[next].Discr = Ident_1
     THEN [h3 EXCEPT ![next].Enum_Comp = Proc_6(h3[p].Enum_Comp, g.Int_Glob),
                     ![next].Ptr_Comp = h3[g.Ptr_Glob].Ptr_Comp,
                     ![next].Int_Comp = Proc_7(6, 10)]
     ELSE [h3 EXCEPT ![p] = h3[h3[p].Ptr_Comp]]

\* The two arrays after Proc_8; Int_Glob is 5 after it.
Proc_8Arr_1(arr, Int_1_Par_Val, Int_2_Par_Val) ==
  LET Int_Loc == Int_1_Par_Val + 5
  IN [arr EXCEPT ![Int_Loc] = Int_2_Par_Val, ![Int_Loc + 1] = Int_2_Par_Val,
                 ![Int_Loc + 30] = Int_Loc]

Proc_8Arr_2(arr, Int_1_Par_Val, Int_2_Par_Val) ==
  LET Int_Loc == Int_1_Par_Val + 5
      row == [arr[Int_Loc] EXCEPT ![Int_Loc] = Int_Loc, ![Int_Loc + 1] = Int_Loc,
                                  ![Int_Loc - 1] = ToInt(@ + 1)]
  IN [arr EXCEPT ![Int_Loc] = row, ![Int_Loc + 20][Int_Loc] = Int_2_Par_Val]

-----------------------------------------------------------------------------
(* dhrystone(runs).  What the locals hold at first is never read.          *)

DhryCalled(runs) ==
  /\ dhry_pc = "init"
  /\ Number_Of_Runs = runs /\ Run_Index = 0 /\ Ch_Index = 0
  /\ glob = [Int_Glob |-> 0, Bool_Glob |-> 0, Ch_1_Glob |-> 0, Ch_2_Glob |-> 0,
             Ptr_Glob |-> Null, Next_Ptr_Glob |-> Null]
  /\ Arr_1_Glob = [i \in 0..49 |-> 0]
  /\ Arr_2_Glob = [i \in 0..49 |-> [j \in 0..49 |-> 0]]
  /\ heap = [p \in Rec_Pointer |-> [Ptr_Comp |-> Null, Discr |-> Ident_1,
              Enum_Comp |-> Ident_1, Int_Comp |-> 0, Str_Comp |-> 0]]
  /\ loc = [Int_1_Loc |-> 0, Int_2_Loc |-> 0, Int_3_Loc |-> 0, Enum_Loc |-> Ident_1,
            Str_1_Loc |-> String(1), Str_2_Loc |-> String(1)]

DhryInit == \E runs \in RunCounts : DhryCalled(runs)

Initialize ==
  /\ dhry_pc = "init"
  /\ glob' = [glob EXCEPT !.Next_Ptr_Glob = 1, !.Ptr_Glob = 2]
  /\ heap' = [heap EXCEPT ![2] = [Ptr_Comp |-> 1, Discr |-> Ident_1, Enum_Comp |-> Ident_3,
                                  Int_Comp |-> 40, Str_Comp |-> Some]]
  /\ loc' = [loc EXCEPT !.Str_1_Loc = String(1)]
  /\ Arr_2_Glob' = [Arr_2_Glob EXCEPT ![8][7] = 10]
  /\ Run_Index' = 1
  /\ dhry_pc' = "run"
  /\ UNCHANGED <<Number_Of_Runs, Ch_Index, Arr_1_Glob>>

BeginRun ==
  /\ dhry_pc = "run" /\ Run_Index <= Number_Of_Runs
  /\ Func_2Returns(loc.Str_1_Loc, String(2))
  /\ loc' = [loc EXCEPT !.Int_1_Loc = 2, !.Int_2_Loc = 3, !.Str_2_Loc = String(2),
                        !.Enum_Loc = Ident_2]
  /\ glob' = [AfterFunc_2(Proc_4(Proc_5(glob)), loc.Str_1_Loc, String(2)) EXCEPT
                !.Bool_Glob = IF Func_2(loc.Str_1_Loc, String(2)) THEN 0 ELSE 1]
  /\ dhry_pc' = "while"
  /\ UNCHANGED <<Number_Of_Runs, Run_Index, Ch_Index, Arr_1_Glob, Arr_2_Glob, heap>>

WhileBody ==
  /\ dhry_pc = "while" /\ loc.Int_1_Loc < loc.Int_2_Loc
  /\ loc' = [loc EXCEPT !.Int_3_Loc = Proc_7(loc.Int_1_Loc, loc.Int_2_Loc), !.Int_1_Loc = @ + 1]
  /\ UNCHANGED <<dhry_pc, Number_Of_Runs, Run_Index, Ch_Index, glob, Arr_1_Glob, Arr_2_Glob, heap>>

CallProc_8 ==
  /\ dhry_pc = "while" /\ ~(loc.Int_1_Loc < loc.Int_2_Loc)
  /\ Arr_1_Glob' = Proc_8Arr_1(Arr_1_Glob, loc.Int_1_Loc, loc.Int_3_Loc)
  /\ Arr_2_Glob' = Proc_8Arr_2(Arr_2_Glob, loc.Int_1_Loc, loc.Int_3_Loc)
  /\ glob' = [glob EXCEPT !.Int_Glob = 5]
  /\ dhry_pc' = "proc_1"
  /\ UNCHANGED <<Number_Of_Runs, Run_Index, Ch_Index, heap, loc>>

CallProc_1 ==
  /\ dhry_pc = "proc_1"
  /\ heap' = Proc_1(heap, glob.Ptr_Glob, glob)
  /\ Ch_Index' = 65
  /\ dhry_pc' = "for"
  /\ UNCHANGED <<Number_Of_Runs, Run_Index, glob, Arr_1_Glob, Arr_2_Glob, loc>>

ForBody ==
  /\ dhry_pc = "for" /\ Ch_Index <= glob.Ch_2_Glob
  /\ LET called == AfterFunc_1(glob, Ch_Index, 67)
     IN IF loc.Enum_Loc = Func_1(Ch_Index, 67)
        THEN /\ loc' = [loc EXCEPT !.Enum_Loc = Proc_6(Ident_1, called.Int_Glob),
                                   !.Str_2_Loc = String(3), !.Int_2_Loc = Run_Index]
             /\ glob' = [called EXCEPT !.Int_Glob = Run_Index]
        ELSE glob' = called /\ UNCHANGED loc
  /\ Ch_Index' = Ch_Index + 1
  /\ UNCHANGED <<dhry_pc, Number_Of_Runs, Run_Index, Arr_1_Glob, Arr_2_Glob, heap>>

EndRun ==
  /\ dhry_pc = "for" /\ ~(Ch_Index <= glob.Ch_2_Glob)
  /\ Proc_2Returns(glob)
  /\ LET product == loc.Int_2_Loc * loc.Int_1_Loc
         quotient == product \div loc.Int_3_Loc
     IN loc' = [loc EXCEPT !.Int_2_Loc = 7 * (product - loc.Int_3_Loc) - quotient,
                           !.Int_1_Loc = Proc_2(quotient, glob)]
  /\ Run_Index' = Run_Index + 1
  /\ dhry_pc' = "run"
  /\ UNCHANGED <<Number_Of_Runs, Ch_Index, glob, Arr_1_Glob, Arr_2_Glob, heap>>

EndRuns ==
  /\ dhry_pc = "run" /\ ~(Run_Index <= Number_Of_Runs)
  /\ dhry_pc' = "report"
  /\ UNCHANGED <<Number_Of_Runs, Run_Index, Ch_Index, glob, Arr_1_Glob, Arr_2_Glob, heap, loc>>

\* The program has returned to main, which reports and loops for ever.
Reported == dhry_pc = "report" /\ UNCHANGED dhryVars

DhryNext ==
  \/ Initialize \/ BeginRun \/ WhileBody \/ CallProc_8 \/ CallProc_1
  \/ ForBody \/ EndRun \/ EndRuns \/ Reported

DhrySpec == DhryInit /\ [][DhryNext]_dhryVars

-----------------------------------------------------------------------------

\* What is printed at the end: each value with what it "should be".
Report ==
  LET Ptr == heap[glob.Ptr_Glob]
      Next_Ptr == heap[glob.Next_Ptr_Glob]
  IN {<<glob.Int_Glob, 5>>, <<glob.Bool_Glob, 1>>, <<glob.Ch_1_Glob, 65>>, <<glob.Ch_2_Glob, 66>>,
      <<Arr_1_Glob[8], 7>>, <<Arr_2_Glob[8][7], Number_Of_Runs + 10>>,
      <<Ptr.Discr, 0>>, <<Ptr.Enum_Comp, 2>>, <<Ptr.Int_Comp, 17>>, <<Ptr.Str_Comp, Some>>,
      <<Next_Ptr.Ptr_Comp, Ptr.Ptr_Comp>>,
      <<Next_Ptr.Discr, 0>>, <<Next_Ptr.Enum_Comp, 1>>, <<Next_Ptr.Int_Comp, 18>>,
      <<Next_Ptr.Str_Comp, Some>>,
      <<loc.Int_1_Loc, 5>>, <<loc.Int_2_Loc, 13>>, <<loc.Int_3_Loc, 7>>, <<loc.Enum_Loc, 1>>,
      <<loc.Str_1_Loc, String(1)>>, <<loc.Str_2_Loc, String(2)>>}

DhryTypeOK ==
  /\ dhry_pc \in {"init", "run", "while", "proc_1", "for", "report"}
  /\ Number_Of_Runs \in RunCounts /\ Run_Index \in 0..(Number_Of_Runs + 1) /\ Ch_Index \in Nat
  /\ glob \in [Int_Glob : Int, Bool_Glob : {0, 1}, Ch_1_Glob : Nat, Ch_2_Glob : Nat,
               Ptr_Glob : {Null, 2}, Next_Ptr_Glob : {Null, 1}]
  /\ Arr_1_Glob \in Arr_1_Dim /\ Arr_2_Glob \in Arr_2_Dim
  /\ heap \in [Rec_Pointer -> Rec_Type]
  /\ loc \in [Int_1_Loc : Int, Int_2_Loc : Int, Int_3_Loc : Int, Enum_Loc : Enumeration,
              Str_1_Loc : 1..4, Str_2_Loc : 1..4]

(* Every value the benchmark prints is the one it says it should be, for   *)
(* any number of runs whose count an int can hold (dhry.c:150-196): the    *)
(* state a run leaves to the next, through two records that point at each  *)
(* other and seven procedures with side effects, does not drift.           *)
ReportedAsExpected ==
  dhry_pc = "report" => \A line \in Report : line[1] = line[2]
=============================================================================
