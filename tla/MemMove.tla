------------------------------ MODULE MemMove ------------------------------
(***************************************************************************)
(* memmove.s and memset.s: the byte by byte copy and its direction, and    *)
(* the fill.  Memory is a function of addresses; a copy is the fold of its *)
(* moves, in the order of rep movsb.  The handlers may interrupt a copy    *)
(* that runs downwards: isr_common clears the direction flag for them, and *)
(* iret restores it.                                                       *)
(***************************************************************************)
EXTENDS Naturals, SequencesExt

CONSTANT AddressRange \* the number of addresses, 2^32

ASSUME MemMoveAssumption == AddressRange \in Nat \ {0}

Upwards(n) == [i \in 1..n |-> i - 1]
Downwards(n) == [i \in 1..n |-> n - i]

\* rep movsb: one byte after another, in the order of the offsets.
RepMovsb(mem, dest, src, offsets) ==
    FoldLeft(LAMBDA m, i : [m EXCEPT ![dest + i] = m[src + i]], mem, offsets)

\* Mutation: the comparison is the wrong way round.
Fast_Behind(dest, src, n) == dest > src

\* Where the copy may run upwards: below the source, or behind its end.  The
\* end is a 32-bit sum.
Fast(dest, src, n) == dest < src \/ dest >= (src + n) % AddressRange

memmove(mem, dest, src, n) ==
    IF dest = src THEN mem
    ELSE RepMovsb(mem, dest, src,
                  IF Fast(dest, src, n) THEN Upwards(n) ELSE Downwards(n))

memset(mem, s, c, n) ==
    FoldLeft(LAMBDA m, i : [m EXCEPT ![s + i] = c], mem, Upwards(n))

-----------------------------------------------------------------------------
(* What they promise.                                                      *)

Moved(mem, dest, src, n) ==
    [a \in DOMAIN mem |-> IF a \in dest..dest + n - 1 THEN mem[src + a - dest]
                                                      ELSE mem[a]]
Filled(mem, s, c, n) ==
    [a \in DOMAIN mem |-> IF a \in s..s + n - 1 THEN c ELSE mem[a]]

\* Copies and fills between regions that end below the end of a memory.
MovesWell(size) ==
    LET mem == [a \in 0..size - 1 |-> a]
    IN  \A dest, src, n \in 0..size - 1 :
            dest + n < size /\ src + n < size =>
                /\ memmove(mem, dest, src, n) = Moved(mem, dest, src, n)
                /\ memset(mem, dest, size, n) = Filled(mem, dest, size, n)
=============================================================================
