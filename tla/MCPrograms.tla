----------------------------- MODULE MCPrograms -----------------------------
(* Small instances of the images: what is short for what is in the cfg.    *)
EXTENDS Programs

\* Short strings of two characters, and some that end in each place of a second word.
MCStrings ==
  UNION {[1..n -> {1, 3}] : n \in 0..3} \union
  {<<1, 1, 1, 1>>, <<1, 3, 1, 1, 3>>, <<1, 3, 1, 1, 1, 3>>, <<3, 3, 3, 3, 3, 3, 1>>}

\* Two registers that differ in every byte.
MCRegisters == {[l \in Lanes |-> l + 1], [l \in Lanes |-> l + 5]}

\* Four bits of mantissa: near 1 and 2, with the first and the last mantissa.
MCInputs == [sgn : {0, 1}, exp : 7..8, man : {0, 7}]

(* The rates of the default parameters, of the SoCs and their test benches *)
(* (in units of 100 Hz, so that TLC's integers hold the products), and     *)
(* every ratio of at least 19 cycles per bit, in steps of 1/8 cycle.       *)
RepositoryRates ==
  {<<120000, 1152>>, <<80000, 10000>>, <<160000, 10000>>, <<80000, 5000>>}
AllRates == RepositoryRates \union {<<clk, 8>> : clk \in 152..320}
=============================================================================
