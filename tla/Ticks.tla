------------------------------- MODULE Ticks -------------------------------
(***************************************************************************)
(* ticks_since_boot of timer.c: irq0_handler counts it up, and the waits   *)
(* of ps2.c read it.                                                       *)
(***************************************************************************)
EXTENDS Integers

CONSTANT TickRange \* the values of ticks_since_boot; 2^32 in the program

ASSUME TickAssumption == TickRange \in Nat \ {0}

VARIABLE ticks \* ticks_since_boot

CountTick == ticks' = (ticks + 1) % TickRange
=============================================================================
