-------------------------------- MODULE Leds --------------------------------
(***************************************************************************)
(* The LEDs: the programs c/led.c and c/led_breathe.c on one side, the     *)
(* pulse width modulator extra/pwm.v of the LED one looks at on the other. *)
(* A step is an edge of the clock.                                         *)
(***************************************************************************)
EXTENDS Integers

CONSTANTS Levels,      \* 2 to the WIDTH of the modulator, 256 on the board
          Gaps, Delays \* edges between two stores, and those delay_ms(5) takes

ASSUME LevelsAssumption == Levels \in Nat \ {0, 1}

(* delay_ms(5) goes 625 times through its loop: more than two periods of   *)
(* the 256 levels, even at an edge each.                                   *)
ASSUME PauseAssumption ==
  Gaps \subseteq Nat /\ Delays \subseteq Nat /\ \A d \in Delays : d >= 2 * Levels

VARIABLES led_program, led_pc,
          id,          \* the LED that is set
          level,       \* i, the level before gamma
          pause,       \* edges until the next store
          watched,     \* the LED one looks at, and its modulator
          cnt, cmp, out,
          on, shown,   \* edges it was on in this period, in the one before, or Unknown
          step         \* how much brighter or darker that one was than its predecessor

pwmVars == <<watched, cnt, cmp, out, on, shown, step>>
ledVars == <<led_program, led_pc, id, level, pause, pwmVars>>

LEDs == {"RED", "GREEN", "BLUE"}
After(l) == CASE l = "RED" -> "GREEN" [] l = "GREEN" -> "BLUE" [] l = "BLUE" -> "RED"

Highest == Levels - 1
Unknown == -1

\* Mutant: a gamma that is not scaled back.
GammaUnscaled(i) == i * i

\* led_set_gamma: i*i / 256
Gamma(i) == (i * i) \div Levels

-----------------------------------------------------------------------------
(* The modulator at an edge: out compares the values before the edge.      *)

Distance(m, n) == IF m < n THEN n - m ELSE m - n

PwmEdge(wren, di) ==
  /\ cmp' = IF wren THEN di % Levels ELSE cmp
  /\ cnt' = (cnt + 1) % Levels
  /\ out' = IF cnt < cmp THEN 1 ELSE 0
  /\ on' = IF cnt = 0 THEN out' ELSE IF on = Unknown THEN Unknown ELSE on + out'
  /\ shown' = IF cnt = 0 THEN on ELSE shown
  /\ step' = IF cnt = 0 /\ on # Unknown /\ shown # Unknown THEN Distance(on, shown) ELSE step
  /\ UNCHANGED watched

-----------------------------------------------------------------------------
(* The programs.                                                           *)

LED_SET(val) == pause = 0 /\ PwmEdge(id = watched, val)

\* Both set the three LEDs first.
SetAll ==
  /\ led_pc = "set" /\ LED_SET(Highest)
  /\ id' = After(id)
  /\ led_pc' = CASE id # "BLUE" -> "set" [] led_program = "led" -> "gamma" [] OTHER -> "down"
  /\ pause' \in Gaps
  /\ UNCHANGED <<led_program, level>>

\* led.c: a quarter, before gamma.
SetGamma ==
  /\ led_pc = "gamma" /\ LED_SET(Gamma(Levels \div 4))
  /\ id' = After(id)
  /\ led_pc' = IF id = "BLUE" THEN "idle" ELSE "gamma"
  /\ pause' \in Gaps
  /\ UNCHANGED <<led_program, level>>

\* breathe(id): from the highest level to 0 and back, then the next LED.
BreatheDown ==
  /\ led_pc = "down" /\ LED_SET(Gamma(level))
  /\ IF level = 0 THEN led_pc' = "up" /\ UNCHANGED level
     ELSE level' = level - 1 /\ UNCHANGED led_pc
  /\ pause' \in Delays
  /\ UNCHANGED <<led_program, id>>

BreatheUp ==
  /\ led_pc = "up" /\ LED_SET(Gamma(level))
  /\ IF level = Highest THEN led_pc' = "down" /\ id' = After(id) /\ UNCHANGED level
     ELSE level' = level + 1 /\ UNCHANGED <<led_pc, id>>
  /\ pause' \in Delays
  /\ UNCHANGED led_program

Pauses ==
  /\ pause > 0 \/ led_pc = "idle"
  /\ PwmEdge(FALSE, 0)
  /\ pause' = IF pause = 0 THEN 0 ELSE pause - 1
  /\ UNCHANGED <<led_program, led_pc, id, level>>

LedNext == SetAll \/ SetGamma \/ BreatheDown \/ BreatheUp \/ Pauses

\* After power-up, at any place in a period.
Lit(p, l, phase) ==
  /\ led_program = p /\ led_pc = "set" /\ id = "RED" /\ level = Highest /\ pause = 0
  /\ watched = l /\ cnt = phase /\ cmp = Highest /\ out = 0
  /\ on = Unknown /\ shown = Unknown /\ step = 0

LedInit == \E p \in {"led", "led_breathe"}, l \in LEDs, phase \in 0..Highest : Lit(p, l, phase)

LedSpec == LedInit /\ [][LedNext]_ledVars

-----------------------------------------------------------------------------

LedTypeOK ==
  /\ led_program \in {"led", "led_breathe"} /\ led_pc \in {"set", "gamma", "down", "up", "idle"}
  /\ id \in LEDs /\ watched \in LEDs /\ level \in 0..Highest /\ pause \in Nat
  /\ cnt \in 0..Highest /\ cmp \in 0..Highest /\ out \in {0, 1}
  /\ on \in Unknown..Highest /\ shown \in Unknown..Highest /\ step \in 0..Highest

(* A breathing LED has no visible jump: whatever the place in a period at  *)
(* which the modulator takes the next level (pwm.v:23-28 compares with it  *)
(* at once), no period is on for more than two edges longer or shorter     *)
(* than the one before (led_breathe.c:18-28).                              *)
NoJump == led_program = "led_breathe" => step <= 2
=============================================================================
