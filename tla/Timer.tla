------------------------------- MODULE Timer -------------------------------
(***************************************************************************)
(* timer.c: the tick counter and the table of intervaled callbacks.  Main  *)
(* installs callbacks and changes their intervals; irq0_handler interrupts *)
(* it between any two of its stores, and runs to its end.                  *)
(***************************************************************************)
EXTENDS Ticks

CONSTANTS
    MaxCallbacks, \* MAX_INTERVALED_CALLBACKS
    Intervals,    \* the intervals the callers ask for
    Offsets,      \* the offsets they ask for
    MaxUpdates    \* bound: calls of intervaled_callback_update_interval

ASSUME TimerAssumption ==
    /\ MaxCallbacks \in Nat /\ MaxUpdates \in Nat
    /\ Intervals \subseteq Nat \ {0} /\ Offsets \subseteq Nat

Slot == 1..MaxCallbacks
NotYet == -1
Field == {"func", "interval", "offset"}

VARIABLES
    length,  \* intervaled_callbacks_length
    table,   \* intervaled_callbacks: interval and offset of each slot
    written, \* history: the fields of each slot that have been stored
    pc,      \* where install_intervaled_callback is
    arg,     \* its arguments
    uids,    \* history: what it has returned, errors apart
    called,  \* the slots that the latest tick called
    since,   \* history: ticks since the slot was called, or NotYet
    updates  \* the number of updates

vars == <<ticks, length, table, written, pc, arg, uids, called, since, updates>>
tickVars == <<ticks, called, since>>

Entry == [interval : Intervals \cup {0}, offset : Offsets \cup {0}]

TypeOK ==
    /\ ticks \in 0..TickRange - 1 /\ length \in 0..MaxCallbacks
    /\ table \in [Slot -> Entry]
    /\ written \in [Slot -> SUBSET Field]
    /\ pc \in {"idle", "store", "publish", "return"} /\ arg \in Entry
    /\ uids \subseteq Slot /\ called \subseteq Slot
    /\ since \in [Slot -> {NotYet} \cup 0..TickRange]
    /\ updates \in 0..MaxUpdates

Init ==
    /\ ticks = 0 /\ length = 0 /\ called = {} /\ updates = 0
    /\ table = [i \in Slot |-> [interval |-> 0, offset |-> 0]]
    /\ written = [i \in Slot |-> {}]
    /\ pc = "idle" /\ arg = [interval |-> 0, offset |-> 0]
    /\ uids = {}
    /\ since = [i \in Slot |-> NotYet]

-----------------------------------------------------------------------------
(* install_intervaled_callback.                                            *)

\* The call, and the test for a full table (which returns 0).
Install(interval, offset) ==
    /\ pc = "idle" /\ length < MaxCallbacks
    /\ arg' = [interval |-> interval, offset |-> offset]
    /\ pc' = "store"
    /\ UNCHANGED <<tickVars, length, table, written, uids, updates>>

\* Mutation: the length goes up before the entry is complete.
Store_LengthFirst ==
    /\ pc = "store"
    /\ LET i == length + 1 IN
       /\ table' = [table EXCEPT ![i].interval = arg.interval]
       /\ written' = [written EXCEPT ![i] = {"interval"}]
    /\ pc' = "publish"
    /\ UNCHANGED <<tickVars, length, arg, uids, updates>>

\* One store of the assignment to the entry, in the order the build chooses.
Store ==
    /\ pc = "store"
    /\ LET i == length + 1 IN
       \E f \in Field \ written[i] :
          /\ table' = IF f = "func" THEN table ELSE [table EXCEPT ![i][f] = arg[f]]
          /\ written' = [written EXCEPT ![i] = @ \cup {f}]
          /\ pc' = IF written'[i] = Field THEN "publish" ELSE "store"
    /\ UNCHANGED <<tickVars, length, arg, uids, updates>>

Publish ==
    /\ pc = "publish" /\ pc' = "return"
    /\ length' = length + 1
    /\ UNCHANGED <<tickVars, table, written, arg, uids, updates>>

Return ==
    /\ pc = "return" /\ pc' = "idle"
    /\ uids' = uids \cup {length}
    /\ UNCHANGED <<tickVars, length, table, written, arg, updates>>

\* intervaled_callback_update_interval, given what an installation returned.
Update(uid, interval) ==
    /\ pc = "idle" /\ uid \in uids /\ updates < MaxUpdates
    /\ table' = [table EXCEPT ![uid].interval = interval]
    /\ since' = [since EXCEPT ![uid] = NotYet]
    /\ updates' = updates + 1
    /\ UNCHANGED <<ticks, called, length, written, pc, arg, uids>>

-----------------------------------------------------------------------------
(* irq0_handler.                                                           *)

\* Mutation: an offset from the time of the tick, and not of the interval.
Due_NoModulo(i, t) == t % TickRange = table[i].interval + table[i].offset

\* With the divisor 0, a fault: Complete says that it is never met.
Due(i, t) == t % table[i].interval = table[i].offset

Older(n) == IF n = NotYet \/ n = TickRange THEN n ELSE n + 1

\* Mutation: the loop starts at the uid 1, which is the position of the second.
Irq0_SkipsFirst ==
    /\ CountTick
    /\ called' = {i \in 2..length : table[i].interval # 0 /\ Due(i, ticks')}
    /\ since' = [i \in Slot |-> IF i \in called' THEN 0 ELSE Older(since[i])]
    /\ UNCHANGED <<length, table, written, pc, arg, uids, updates>>

Irq0 ==
    /\ CountTick
    /\ called' = {i \in 1..length : table[i].interval # 0 /\ Due(i, ticks')}
    /\ since' = [i \in Slot |-> IF i \in called' THEN 0 ELSE Older(since[i])]
    /\ UNCHANGED <<length, table, written, pc, arg, uids, updates>>

Main ==
    \/ \E interval \in Intervals, offset \in Offsets : Install(interval, offset)
    \/ Store \/ Publish \/ Return
    \/ \E uid \in Slot, interval \in Intervals : Update(uid, interval)

Next == Main \/ Irq0

\* The timer does not stop.
Spec == Init /\ [][Next]_vars /\ WF_vars(Irq0)

-----------------------------------------------------------------------------
(* Properties.                                                             *)

(* At every tick, each entry that irq0_handler goes through is complete:   *)
(* it calls no NULL pointer and divides by no 0, wherever in the           *)
(* installation it comes.                                                  *)
Complete == \A i \in 1..length : written[i] = Field /\ table[i].interval # 0

(* timer.h:14: the "interval (in ticks) between calls" is kept, whenever   *)
(* the installation or the update came; only across a wrap of the counter, *)
(* whose range the interval need not divide, are two calls closer, or      *)
(* further apart by up to the offset.                                      *)
EvenlySpaced ==
    [][\A i \in Slot :
          since[i] # NotYet /\ i \in called' /\ ticks' # ticks =>
             \/ since[i] + 1 = table[i].interval
             \/ /\ since[i] >= ticks'
                /\ since[i] + 1 <= table[i].interval + table[i].offset]_vars

(* A callback that was installed, with an offset below its interval, is    *)
(* called again and again.                                                 *)
CalledAgain ==
    \A i \in Slot :
        <>[](i \in uids /\ table[i].offset < table[i].interval)
            => []<>(i \in called)
=============================================================================
