-------------------------- MODULE Interrupts_proofs --------------------------
(***************************************************************************)
(* Type correctness of Interrupts, that handlers exclude one another and   *)
(* that the master PIC has in service what is being handled: for every set *)
(* of lines and every bound on the nesting.  Only the innermost interrupt  *)
(* can be in service (ServedIsTop), which makes the invariant inductive.   *)
(***************************************************************************)
EXTENDS Interrupts, SequenceTheorems, TLAPS

\* An interrupt of a device that has not got its EOI.
Unserved(f) == f.line # Spurious /\ f.at \in {"entry", "dispatch"}

ServedIsTop ==
    isrM = IF stack # <<>> /\ Unserved(Top) THEN {Pin(Top.line)} ELSE {}

InterruptsInv == TypeOK /\ HandlersExclude /\ ServedIsTop

-----------------------------------------------------------------------------
(* The frames.                                                             *)

LEMMA TopOfStack ==
    ASSUME TypeOK, stack # <<>>
    PROVE  Len(stack) \in Nat \ {0} /\ Len(stack) \in DOMAIN stack /\ Top \in Frame
  BY LenProperties, EmptySeq DEF TypeOK, Top

\* A step of the innermost handler.
LEMMA Stepped ==
    ASSUME TypeOK, stack # <<>>, NEW f \in Frame, ToStep(f)
    PROVE  /\ stack' \in Seq(Frame) /\ stack' # <<>>
           /\ Len(stack') = Len(stack) /\ DOMAIN stack' = DOMAIN stack
           /\ Top' = f
           /\ \A i \in DOMAIN stack : i < Len(stack) => stack'[i] = stack[i]
<1>1. Len(stack) \in Nat \ {0} /\ Len(stack) \in DOMAIN stack
      /\ stack \in Seq(Frame)
  BY TopOfStack DEF TypeOK
<1>2. stack' = [stack EXCEPT ![Len(stack)] = f]
  BY DEF ToStep
<1>3. /\ stack' \in Seq(Frame) /\ Len(stack') = Len(stack)
      /\ DOMAIN stack' = DOMAIN stack
      /\ \A i \in DOMAIN stack :
            stack'[i] = IF i = Len(stack) THEN f ELSE stack[i]
  BY <1>1, <1>2, ExceptSeq
<1>4. stack' # <<>>
  BY <1>1, <1>3, EmptySeq, LenProperties
<1> QED
  BY <1>1, <1>3, <1>4 DEF Top

\* A new frame on the stack.
LEMMA Pushed ==
    ASSUME TypeOK, HandlersExclude, NEW l \in Line \cup NoLine,
           NEW v \in 32..47, Push(l, v)
    PROVE  /\ stack' \in Seq(Frame) /\ stack' # <<>>
           /\ Top'.line = l /\ Top'.at = "entry"
           /\ (stack = <<>> \/ Top.at = "iret")
           /\ HandlersExclude'
<1> DEFINE f == [line |-> l, vector |-> v, at |-> "entry", eoi |-> FALSE]
<1>1. f \in Frame /\ f.line = l /\ f.at = "entry"
  BY DEF Frame
<1>2. stack' = Append(stack, f) /\ ifFlag /\ ifFlag' = FALSE
  BY DEF Push
<1> HIDE DEF f
<1>3. stack \in Seq(Frame) /\ Len(stack) \in Nat /\ DOMAIN stack = 1..Len(stack)
  BY LenProperties DEF TypeOK
<1>4. /\ stack' \in Seq(Frame) /\ Len(stack') = Len(stack) + 1
      /\ DOMAIN stack' = 1..Len(stack) + 1
      /\ stack'[Len(stack) + 1] = f
      /\ \A i \in 1..Len(stack) : stack'[i] = stack[i]
  BY <1>1, <1>2, <1>3, AppendProperties, LenProperties
<1>5. stack' # <<>> /\ Top' = f
  BY <1>3, <1>4, EmptySeq DEF Top
<1>6. stack = <<>> \/ Top.at = "iret"
  BY <1>2 DEF HandlersExclude
<1>7. \A i \in DOMAIN stack : stack[i].at = "iret"
  <2>1. CASE stack = <<>>
    BY <2>1
  <2>2. CASE Top.at = "iret"
    BY <2>2, <1>3 DEF HandlersExclude, Top
  <2> QED
    BY <1>6, <2>1, <2>2
<1>8. HandlersExclude'
  <2>1. ASSUME NEW i \in DOMAIN stack', i < Len(stack')
        PROVE  stack'[i].at = "iret"
    BY <2>1, <1>3, <1>4, <1>7
  <2>2. ~ifFlag' /\ ~(stack' = <<>> \/ Top'.at = "iret")
    BY <1>1, <1>2, <1>5
  <2> QED
    BY <2>1, <2>2 DEF HandlersExclude
<1> QED
  BY <1>1, <1>4, <1>5, <1>6, <1>8

-----------------------------------------------------------------------------
(* The PICs.                                                               *)

LEMMA PinType ==
    ASSUME NEW l \in Line \cup {SlaveSpurious}
    PROVE  Pin(l) \in 0..7
  BY LineAssumption DEF Pin, SlaveSpurious

LEMMA VectorType == ASSUME NEW l \in Line PROVE Vector(l) \in 32..47
  BY LineAssumption DEF Vector, IRQ0, IRQ8

\* An end of interrupt leaves nothing of a single interrupt in service.
LEMMA EndedSingle ==
    ASSUME NEW p \in Int
    PROVE  Ended({p}) = {} /\ Ended({}) = {}
<1>1. Min({p}) = p
  BY DEF Min
<1> QED
  BY <1>1 DEF Ended

LEMMA EndedType ==
    ASSUME NEW isr, isr \subseteq 0..7
    PROVE  Ended(isr) \subseteq 0..7
  BY DEF Ended

\* irqs.c:26 and its like never find an interrupt spurious.
LEMMA NeverSpurious == ASSUME NEW irq PROVE ~HandleIfSpurious(irq)
  BY DEF HandleIfSpurious, SpuriousTest

\* Every interrupt of the PICs is numbered below 8.
LEMMA NumberedBelow8 ==
    ASSUME NEW v \in 32..47
    PROVE  IntToIrq(v) \in 0..7
  BY DEF IntToIrq, IRQ0, IRQ8

-----------------------------------------------------------------------------
(* The steps.                                                              *)

LEMMA RaiseStep ==
    ASSUME InterruptsInv, NEW l \in Line, Raise(l)
    PROVE  InterruptsInv'
  BY DEF InterruptsInv, TypeOK, HandlersExclude, ServedIsTop, Top, Raise

LEMMA AcceptStep ==
    ASSUME InterruptsInv, NEW l \in Line, Accept(l)
    PROVE  InterruptsInv'
<1>1. Push(l, Vector(l)) /\ Vector(l) \in 32..47 /\ l \in Line \cup NoLine
  BY VectorType DEF Accept
<1>2. /\ stack' \in Seq(Frame) /\ stack' # <<>>
      /\ Top'.line = l /\ Top'.at = "entry"
      /\ stack = <<>> \/ Top.at = "iret"
      /\ HandlersExclude'
  BY <1>1, Pushed DEF InterruptsInv
<1>3. isrM = {} /\ isrM' = {Pin(l)}
  BY <1>2 DEF InterruptsInv, ServedIsTop, Unserved, Accept
<1>4. TypeOK'
  <2>1. irr' \subseteq Line /\ isrM' \subseteq 0..7
    BY <1>3, PinType DEF InterruptsInv, TypeOK, Accept
  <2>2. isrS' \subseteq 0..7
    BY LineAssumption DEF InterruptsInv, TypeOK, Accept
  <2>3. ifFlag' \in BOOLEAN
    BY <1>1 DEF Push
  <2> QED
    BY <1>2, <2>1, <2>2, <2>3 DEF TypeOK
<1>5. ServedIsTop'
  <2>1. l # Spurious
    BY LineAssumption DEF Spurious
  <2> QED
    BY <2>1, <1>2, <1>3 DEF ServedIsTop, Unserved
<1> QED
  BY <1>2, <1>4, <1>5 DEF InterruptsInv

LEMMA AcceptSpuriousStep == InterruptsInv /\ AcceptSpurious => InterruptsInv'
<1> SUFFICES ASSUME InterruptsInv, AcceptSpurious
             PROVE  InterruptsInv'
  OBVIOUS
<1>1. PICK l \in NoLine, v \in 32..47 :
         /\ Push(l, v)
         /\ isrM' = IF l = Spurious THEN {} ELSE {2}
  <2>1. IRQ0 + 7 \in 32..47 /\ IRQ8 + 7 \in 32..47 /\ Spurious # SlaveSpurious
    BY DEF IRQ0, IRQ8, Spurious, SlaveSpurious
  <2>2. CASE Push(Spurious, IRQ0 + 7) /\ isrM = {} /\ isrM' = isrM
    BY <2>1, <2>2 DEF NoLine
  <2>3. CASE Push(SlaveSpurious, IRQ8 + 7) /\ isrM' = isrM \cup {2}
    <3>1. stack = <<>> \/ Top.at = "iret"
      BY <2>3 DEF Push, InterruptsInv, HandlersExclude
    <3>2. isrM = {}
      BY <3>1 DEF InterruptsInv, ServedIsTop, Unserved
    <3> QED
      BY <2>1, <2>3, <3>2 DEF NoLine
  <2> QED
    BY <2>2, <2>3 DEF AcceptSpurious
<1>2. /\ stack' \in Seq(Frame) /\ stack' # <<>>
      /\ Top'.line = l /\ Top'.at = "entry"
      /\ HandlersExclude'
  BY <1>1, Pushed DEF InterruptsInv
<1>3. TypeOK'
  <2>1. isrM' \subseteq 0..7
    BY <1>1
  <2>2. ifFlag' \in BOOLEAN
    BY <1>1 DEF Push
  <2>3. irr' = irr /\ isrS' = isrS
    BY DEF AcceptSpurious
  <2> QED
    BY <1>2, <2>1, <2>2, <2>3 DEF InterruptsInv, TypeOK
<1>4. ServedIsTop'
  <2>1. Pin(SlaveSpurious) = 2
    BY DEF Pin, SlaveSpurious
  <2> QED
    BY <1>1, <1>2, <2>1 DEF ServedIsTop, Unserved, NoLine
<1> QED
  BY <1>2, <1>3, <1>4 DEF InterruptsInv

\* The three steps of a handler: where it goes, the flag, what is in service.
LEMMA HandlerStep ==
    ASSUME InterruptsInv, stack # <<>>, NEW f \in Frame, ToStep(f),
           f.line = Top.line, irr' = irr, isrS' = isrS, ifFlag' \in BOOLEAN,
           ifFlag' <=> f.at = "iret",
           isrM' = IF Unserved(f) THEN isrM ELSE {},
           Unserved(f) => Unserved(Top)
    PROVE  InterruptsInv'
<1>1. /\ stack' \in Seq(Frame) /\ stack' # <<>>
      /\ Len(stack') = Len(stack) /\ DOMAIN stack' = DOMAIN stack
      /\ Top' = f
      /\ \A i \in DOMAIN stack : i < Len(stack) => stack'[i] = stack[i]
  BY Stepped DEF InterruptsInv
<1>2. TypeOK'
  BY <1>1 DEF InterruptsInv, TypeOK
<1>3. HandlersExclude'
  BY <1>1 DEF InterruptsInv, HandlersExclude
<1>4. ServedIsTop'
  <2>1. isrM = IF Unserved(Top) THEN {Pin(Top.line)} ELSE {}
    BY DEF InterruptsInv, ServedIsTop
  <2>2. ServedIsTop' <=> isrM' = IF Unserved(f) THEN {Pin(f.line)} ELSE {}
    BY <1>1 DEF ServedIsTop, Unserved
  <2> QED
    BY <2>1, <2>2
<1> QED
  BY <1>2, <1>3, <1>4 DEF InterruptsInv

\* Where a frame goes, nothing else of it changes.
LEMMA FrameAt ==
    ASSUME NEW f \in Frame, NEW a \in {"entry", "dispatch", "sti", "iret"}
    PROVE  /\ [f EXCEPT !.at = a] \in Frame
           /\ [f EXCEPT !.at = a].at = a
           /\ [f EXCEPT !.at = a].line = f.line
           /\ [f EXCEPT !.at = a, !.eoi = TRUE] \in Frame
           /\ [f EXCEPT !.at = a, !.eoi = TRUE].at = a
           /\ [f EXCEPT !.at = a, !.eoi = TRUE].line = f.line
  BY DEF Frame

LEMMA EnterStep == InterruptsInv /\ Enter => InterruptsInv'
<1> SUFFICES ASSUME InterruptsInv, Enter
             PROVE  InterruptsInv'
  OBVIOUS
<1> DEFINE f == [Top EXCEPT !.at = "dispatch"]
<1>1. stack # <<>> /\ Top \in Frame /\ Top.at = "entry" /\ ToStep(f)
  BY TopOfStack DEF InterruptsInv, Enter
<1>2. f \in Frame /\ f.line = Top.line /\ f.at = "dispatch"
  BY <1>1, FrameAt
<1> HIDE DEF f
<1>3. Unserved(f) <=> Unserved(Top)
  BY <1>1, <1>2 DEF Unserved
<1>4. isrM' = IF Unserved(f) THEN isrM ELSE {}
  BY <1>1, <1>3 DEF InterruptsInv, ServedIsTop, Enter
<1>5. ifFlag' = FALSE /\ irr' = irr /\ isrS' = isrS
  BY DEF Enter
<1> QED
  BY <1>1, <1>2, <1>3, <1>4, <1>5, HandlerStep

\* The EOI ends what is in service at the master.
LEMMA IrqHandlerResult ==
    ASSUME InterruptsInv, IrqHandler
    PROVE  /\ stack # <<>> /\ Top \in Frame /\ Top.at = "dispatch"
           /\ ToStep([Top EXCEPT !.at = "sti", !.eoi = TRUE])
           /\ isrM' = {} /\ isrS' = isrS /\ irr' = irr /\ ifFlag' = ifFlag
<1> DEFINE irq == IntToIrq(Top.vector)
<1>1. stack # <<>> /\ Top \in Frame /\ Top.at = "dispatch"
  BY TopOfStack DEF InterruptsInv, IrqHandler
<1>2. irq \in 0..7
  BY <1>1, NumberedBelow8 DEF Frame
<1>3. ~HandleIfSpurious(irq)
  BY NeverSpurious
<1>4. /\ ToStep([Top EXCEPT !.at = "sti", !.eoi = TRUE])
      /\ isrM' = Ended(isrM)
      /\ isrS' = IF irq >= 8 THEN Ended(isrS) ELSE isrS
      /\ irr' = irr /\ ifFlag' = ifFlag
  BY <1>3, Zenon DEF IrqHandler
<1> HIDE DEF irq
<1>5. \/ isrM = {}
      \/ isrM = {Pin(Top.line)} /\ Top.line \in Line \cup {SlaveSpurious}
  BY <1>1 DEF InterruptsInv, ServedIsTop, Unserved, Frame, NoLine
<1>6. Ended(isrM) = {}
  <2>1. CASE isrM = {}
    BY <2>1 DEF Ended
  <2>2. CASE isrM = {Pin(Top.line)} /\ Top.line \in Line \cup {SlaveSpurious}
    BY <2>2, PinType, EndedSingle
  <2> QED
    BY <1>5, <2>1, <2>2
<1> QED
  BY <1>1, <1>2, <1>4, <1>6

LEMMA IrqHandlerStep == InterruptsInv /\ IrqHandler => InterruptsInv'
<1> SUFFICES ASSUME InterruptsInv, IrqHandler
             PROVE  InterruptsInv'
  OBVIOUS
<1> DEFINE f == [Top EXCEPT !.at = "sti", !.eoi = TRUE]
<1>1. /\ stack # <<>> /\ Top \in Frame /\ Top.at = "dispatch" /\ ToStep(f)
      /\ isrM' = {} /\ isrS' = isrS /\ irr' = irr /\ ifFlag' = ifFlag
  BY IrqHandlerResult
<1>2. f \in Frame /\ f.line = Top.line /\ f.at = "sti"
  BY <1>1, FrameAt
<1> HIDE DEF f
<1>3. ~Unserved(f)
  BY <1>2 DEF Unserved
<1>4. ~ifFlag' /\ ifFlag' \in BOOLEAN
  BY <1>1 DEF InterruptsInv, HandlersExclude, TypeOK
<1> QED
  BY <1>1, <1>2, <1>3, <1>4, HandlerStep

LEMMA LeaveStep == InterruptsInv /\ Leave => InterruptsInv'
<1> SUFFICES ASSUME InterruptsInv, Leave
             PROVE  InterruptsInv'
  OBVIOUS
<1> DEFINE f == [Top EXCEPT !.at = "iret"]
<1>1. stack # <<>> /\ Top \in Frame /\ Top.at = "sti" /\ ToStep(f)
  BY TopOfStack DEF InterruptsInv, Leave
<1>2. f \in Frame /\ f.line = Top.line /\ f.at = "iret"
  BY <1>1, FrameAt
<1> HIDE DEF f
<1>3. ~Unserved(f) /\ ~Unserved(Top)
  BY <1>1, <1>2 DEF Unserved
<1>4. isrM' = {} /\ ifFlag' = TRUE /\ irr' = irr /\ isrS' = isrS
  BY <1>3 DEF InterruptsInv, ServedIsTop, Leave
<1> QED
  BY <1>1, <1>2, <1>3, <1>4, HandlerStep

LEMMA ReturnStep == InterruptsInv /\ Return => InterruptsInv'
<1> SUFFICES ASSUME InterruptsInv, Return
             PROVE  InterruptsInv'
  OBVIOUS
<1> DEFINE n == Len(stack) - 1
<1>1. /\ stack \in Seq(Frame) /\ stack # <<>> /\ Top.at = "iret"
      /\ stack' = SubSeq(stack, 1, n) /\ ifFlag' = TRUE
  BY DEF InterruptsInv, TypeOK, Return
<1>2. Len(stack) \in Nat \ {0} /\ n \in Nat /\ DOMAIN stack = 1..Len(stack)
  BY <1>1, TopOfStack, LenProperties DEF InterruptsInv
<1>3. /\ stack' \in Seq(Frame) /\ Len(stack') = n /\ DOMAIN stack' = 1..n
      /\ \A i \in 1..n : stack'[i] = stack[i]
  BY <1>1, <1>2, SubSeqProperties, LenProperties, SMT
<1>4. \A i \in 1..n : stack'[i].at = "iret"
  BY <1>2, <1>3 DEF InterruptsInv, HandlersExclude
<1>5. stack' = <<>> \/ Top'.at = "iret"
  <2>1. CASE n = 0
    BY <2>1, <1>3, EmptySeq
  <2>2. CASE n # 0
    BY <2>2, <1>2, <1>3, <1>4 DEF Top
  <2> QED
    BY <2>1, <2>2
<1>6. HandlersExclude'
  BY <1>1, <1>3, <1>4, <1>5 DEF HandlersExclude
<1>7. ServedIsTop'
  BY <1>1, <1>5 DEF InterruptsInv, ServedIsTop, Unserved, Return
<1>8. TypeOK'
  BY <1>1, <1>3 DEF InterruptsInv, TypeOK, Return
<1> QED
  BY <1>6, <1>7, <1>8 DEF InterruptsInv

-----------------------------------------------------------------------------
(* The theorems.                                                           *)

LEMMA InterruptsInit == Init => InterruptsInv
  BY DEF Init, InterruptsInv, TypeOK, HandlersExclude, ServedIsTop, Unserved

LEMMA InterruptsStep == InterruptsInv /\ [Next]_vars => InterruptsInv'
<1> SUFFICES ASSUME InterruptsInv, [Next]_vars
             PROVE  InterruptsInv'
  OBVIOUS
<1>1. ASSUME NEW l \in Line, Raise(l)
      PROVE  InterruptsInv'
  BY <1>1, RaiseStep
<1>2. ASSUME NEW l \in Line, Accept(l)
      PROVE  InterruptsInv'
  BY <1>2, AcceptStep
<1>3. CASE AcceptSpurious
  BY <1>3, AcceptSpuriousStep
<1>4. CASE Enter
  BY <1>4, EnterStep
<1>5. CASE IrqHandler
  BY <1>5, IrqHandlerStep
<1>6. CASE Leave
  BY <1>6, LeaveStep
<1>7. CASE Return
  BY <1>7, ReturnStep
<1>8. CASE UNCHANGED vars
  BY <1>8
  DEF vars, InterruptsInv, TypeOK, HandlersExclude, ServedIsTop, Unserved, Top
<1> QED
  BY <1>1, <1>2, <1>3, <1>4, <1>5, <1>6, <1>7, <1>8 DEF Next

\* The PICs' registers, the flag and the frames keep their types.
THEOREM InterruptsTypes == Spec => []TypeOK
<1>1. InterruptsInv => TypeOK
  BY DEF InterruptsInv
<1> QED
  BY <1>1, InterruptsInit, InterruptsStep, PTL DEF Spec

\* No handler is interrupted before its EOI and its sti (isrs.c:59), however
\* deep the returns nest.
THEOREM Exclusion == Spec => []HandlersExclude
<1>1. InterruptsInv => HandlersExclude
  BY DEF InterruptsInv
<1> QED
  BY <1>1, InterruptsInit, InterruptsStep, PTL DEF Spec

\* The in-service register of the master PIC is what is being handled: every
\* interrupt is ended once, and no spurious one, of either PIC, ends another.
THEOREM EndedOnce == Spec => []MasterInService
<1>1. InterruptsInv => MasterInService
  <2> SUFFICES ASSUME InterruptsInv
               PROVE  MasterInService
    OBVIOUS
  <2> DEFINE J == {j \in DOMAIN stack : stack[j].line # Spurious
                                          /\ stack[j].at \in {"entry", "dispatch"}}
  <2>1. CASE stack = <<>>
    BY <2>1 DEF InterruptsInv, ServedIsTop, MasterInService
  <2>2. CASE stack # <<>>
    <3>1. /\ Len(stack) \in Nat \ {0} /\ Len(stack) \in DOMAIN stack
          /\ DOMAIN stack = 1..Len(stack)
      BY <2>2, TopOfStack, LenProperties DEF InterruptsInv, TypeOK
    <3>2. \A j \in J : j = Len(stack)
      BY <3>1 DEF InterruptsInv, HandlersExclude
    <3>3. CASE Unserved(Top)
      <4>1. J = {Len(stack)}
        BY <3>1, <3>2, <3>3 DEF Unserved, Top
      <4> QED
        BY <4>1, <2>2, <3>3
        DEF InterruptsInv, ServedIsTop, MasterInService, Top
    <3>4. CASE ~Unserved(Top)
      <4>1. J = {}
        BY <3>1, <3>2, <3>4 DEF Unserved, Top
      <4> QED
        BY <4>1, <3>4 DEF InterruptsInv, ServedIsTop, MasterInService
    <3> QED
      BY <3>3, <3>4
  <2> QED
    BY <2>1, <2>2
<1> QED
  BY <1>1, InterruptsInit, InterruptsStep, PTL DEF Spec
=============================================================================
