----------------------------- MODULE Interrupts -----------------------------
(***************************************************************************)
(* The path of an interrupt request: two cascaded PICs, the CPU, the stubs *)
(* of isr_stubs.s, interrupt_handler (isrs.c) and irq_handler (irqs.c).    *)
(*                                                                         *)
(* isrs_intall installs interrupt gates, so a handler starts with          *)
(* interrupts disabled; interrupt_handler enables them before iret, so     *)
(* that returns nest.  A device's own handler (irq0_handler, irq1_handler, *)
(* irq12_handler) is part of one step here: Ps2Devices and Ps2Keyboard     *)
(* take from this module that handlers exclude one another.                *)
(***************************************************************************)
EXTENDS Integers, Sequences, FiniteSetsExt

CONSTANTS
    Line,      \* lines whose devices raise requests, numbered 0 to 15
    MaxDepth   \* bound: no new request with this many interrupts on the stack

ASSUME LineAssumption == Line \subseteq (0..15 \ {2}) /\ MaxDepth \in Nat \ {0}

IRQ0 == 32
IRQ8 == 40
Spurious == -1   \* in the place of a line: no device is behind the interrupt
SlaveSpurious == 16   \* ... and it came through the slave
NoLine == {Spurious, SlaveSpurious}
Unknown == -1    \* int_to_irq: not an IRQ

VARIABLES
    irr,    \* lines with a request that the PICs have not passed on
    isrM,   \* the master PIC's in-service register, a set of its inputs
    isrS,   \* the slave PIC's
    ifFlag, \* the CPU accepts interrupts
    stack   \* the interrupts being handled, the innermost last

vars == <<irr, isrM, isrS, ifFlag, stack>>

\* A stub's frame: the vector, the step interrupt_handler is at, whether an
\* EOI was sent, and (history) the line that was acknowledged.
Frame == [line : Line \cup NoLine, vector : 32..47,
          at : {"entry", "dispatch", "sti", "iret"}, eoi : BOOLEAN]

TypeOK ==
    /\ irr \subseteq Line
    /\ isrM \subseteq 0..7 /\ isrS \subseteq 0..7
    /\ ifFlag \in BOOLEAN
    /\ stack \in Seq(Frame)

\* After the sti of isrs_intall.
Init ==
    /\ irr = {} /\ isrM = {} /\ isrS = {}
    /\ ifFlag = TRUE
    /\ stack = <<>>

-----------------------------------------------------------------------------
(* The PICs (external, set up by pic_remap in fully nested mode).          *)

Pin(l) == IF l < 8 THEN l ELSE 2

Vector(l) == IF l < 8 THEN IRQ0 + l ELSE IRQ8 + l - 8

\* The slave passes a request on unless it serves one at least as urgent.
Passes(l) == l >= 8 => \A s \in isrS : l - 8 < s

\* The request with the highest priority among those that can get through.
Presented(l) ==
    /\ l \in irr /\ Passes(l)
    /\ \A m \in isrM : Pin(l) < m
    /\ \A k \in irr : Passes(k) => Pin(l) < Pin(k) \/ (Pin(l) = Pin(k) /\ l <= k)

\* A device does not ask again before its handler is done.
Raise(l) ==
    /\ l \notin irr /\ Len(stack) < MaxDepth
    /\ \A i \in DOMAIN stack : stack[i].line = l => stack[i].at = "iret"
    /\ irr' = irr \cup {l}
    /\ UNCHANGED <<isrM, isrS, ifFlag, stack>>

\* Mutation: a trap gate leaves the interrupt flag alone.
Push_TrapGate(l, v) ==
    /\ ifFlag
    /\ stack' = Append(stack, [line |-> l, vector |-> v, at |-> "entry",
                               eoi |-> FALSE])
    /\ UNCHANGED ifFlag

\* The CPU takes the interrupt through a gate that clears the flag.
Push(l, v) ==
    /\ ifFlag
    /\ stack' = Append(stack, [line |-> l, vector |-> v, at |-> "entry",
                               eoi |-> FALSE])
    /\ ifFlag' = FALSE

Accept(l) ==
    /\ Presented(l)
    /\ Push(l, Vector(l))
    /\ irr' = irr \ {l}
    /\ isrM' = isrM \cup {Pin(l)}
    /\ isrS' = IF l < 8 THEN isrS ELSE isrS \cup {l - 8}

\* The request went away before it was acknowledged and no other gets through:
\* the PIC answers with its lowest-priority vector and marks nothing as being
\* served.  To the master, a spurious interrupt of the slave is one like others.
AcceptSpurious ==
    /\ Len(stack) < MaxDepth
    /\ \/ /\ isrM = {} /\ \A k \in irr : ~Passes(k)
          /\ Push(Spurious, IRQ0 + 7)
          /\ UNCHANGED isrM
       \/ /\ \A m \in isrM : 2 < m
          /\ 0 \notin isrS /\ \A k \in irr : Passes(k) => 2 < Pin(k)
          /\ Push(SlaveSpurious, IRQ8 + 7)
          /\ isrM' = isrM \cup {2}
    /\ UNCHANGED <<irr, isrS>>

\* A non-specific end of interrupt ends the most urgent one in service.
Ended(isr) == IF isr = {} THEN {} ELSE isr \ {Min(isr)}

-----------------------------------------------------------------------------
(* The handlers.                                                           *)

\* Mutation: the slave's lines are numbered from 8.
IntToIrq_From8(v) ==
    IF v \in IRQ0..IRQ8 + 7 THEN v - IRQ0 ELSE Unknown

\* int_to_irq: a slave interrupt loses its 8.
IntToIrq(v) ==
    IF v \in IRQ0..IRQ0 + 7 THEN v - IRQ0
    ELSE IF v \in IRQ8..IRQ8 + 7 THEN v - IRQ8
    ELSE Unknown

\* The test "pic_isr & bit == 0" is pic_isr & (bit == 0) in C.
SpuriousTest(bit) == bit = 0 /\ 0 \in isrM

HandleIfSpurious(irq) ==
    \/ irq = 7 /\ SpuriousTest(128)
    \/ irq = 15 /\ SpuriousTest(32768)

Top == stack[Len(stack)]
ToStep(f) == stack' = [stack EXCEPT ![Len(stack)] = f]

\* The cli of interrupt_handler.
Enter ==
    /\ stack # <<>> /\ Top.at = "entry"
    /\ ifFlag' = FALSE
    /\ ToStep([Top EXCEPT !.at = "dispatch"])
    /\ UNCHANGED <<irr, isrM, isrS>>

\* Mutation: the keyboard's case returns before the EOI.
IrqHandler_ReturnsEarly ==
    /\ stack # <<>> /\ Top.at = "dispatch"
    /\ ToStep([Top EXCEPT !.at = "sti", !.eoi = TRUE])
    /\ isrM' = IF IntToIrq(Top.vector) = 1 THEN isrM ELSE Ended(isrM)
    /\ UNCHANGED <<irr, isrS, ifFlag>>

\* irq_handler: the spurious test, the device's handler, the EOI.  (irq is
\* never Unknown: no other vector than the PICs' is modelled.)
IrqHandler ==
    LET irq == IntToIrq(Top.vector)
    IN  /\ stack # <<>> /\ Top.at = "dispatch"
        /\ IF HandleIfSpurious(irq)
           THEN /\ ToStep([Top EXCEPT !.at = "sti"])
                /\ isrM' = IF irq = 15 THEN Ended(isrM) ELSE isrM
                /\ UNCHANGED isrS
           ELSE /\ ToStep([Top EXCEPT !.at = "sti", !.eoi = TRUE])
                /\ isrM' = Ended(isrM)
                /\ isrS' = IF irq >= 8 THEN Ended(isrS) ELSE isrS
        /\ UNCHANGED <<irr, ifFlag>>

\* The sti at the end of interrupt_handler.
Leave ==
    /\ stack # <<>> /\ Top.at = "sti"
    /\ ifFlag' = TRUE
    /\ ToStep([Top EXCEPT !.at = "iret"])
    /\ UNCHANGED <<irr, isrM, isrS>>

\* iret goes back to code that was interrupted, with its interrupts on.
Return ==
    /\ stack # <<>> /\ Top.at = "iret"
    /\ stack' = SubSeq(stack, 1, Len(stack) - 1)
    /\ ifFlag' = TRUE
    /\ UNCHANGED <<irr, isrM, isrS>>

Next ==
    \/ \E l \in Line : Raise(l) \/ Accept(l)
    \/ AcceptSpurious \/ Enter \/ IrqHandler \/ Leave \/ Return

\* The CPU keeps executing; a request that can get through time and again,
\* between the interrupts that come before it, does get through.
Fairness ==
    /\ WF_vars(Enter) /\ WF_vars(IrqHandler) /\ WF_vars(Leave)
    /\ WF_vars(Return) /\ \A l \in Line : SF_vars(Accept(l))

Spec == Init /\ [][Next]_vars
FairSpec == Spec /\ Fairness

-----------------------------------------------------------------------------
(* Properties.                                                             *)

(* The handlers exclude one another: whatever is below the innermost       *)
(* interrupt has been handled and is on its way out, and nothing comes     *)
(* before a handler's EOI and its sti.                                     *)
HandlersExclude ==
    /\ \A i \in DOMAIN stack : i < Len(stack) => stack[i].at = "iret"
    /\ ifFlag <=> (stack = <<>> \/ Top.at = "iret")

(* The master PIC is told of the end of every interrupt, neither before    *)
(* its handler has run nor for another one: what it believes to be in      *)
(* service is what is being handled, a spurious interrupt of the slave     *)
(* included and one of its own not.                                        *)
MasterInService ==
    isrM = {Pin(stack[i].line) :
              i \in {j \in DOMAIN stack : stack[j].line # Spurious
                                             /\ stack[j].at \in {"entry", "dispatch"}}}

(* Every tick and every byte of the keyboard gets to its handler, whatever *)
(* the slave's lines do and however interrupts nest.  (Less urgent lines   *)
(* may starve if these two keep the CPU busy.)                             *)
TickAndKeyServed ==
    \A l \in Line \cap {0, 1} :
        l \in irr ~> stack # <<>> /\ Top.line = l /\ Top.at = "dispatch"
=============================================================================
