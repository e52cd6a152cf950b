---------------------------- MODULE CommandPipe ----------------------------
(***************************************************************************)
(* What the keyboard driver's command queue promises its callers: commands *)
(* handed in are executed by the keyboard one at a time, each once, in the *)
(* order they came, and the next one is not executed before the driver has *)
(* seen the answer to the one before it.                                   *)
(***************************************************************************)
EXTENDS Sequences

CONSTANTS
    Device,
    Batch    \* the sequences of commands callers hand in at once

VARIABLES
    backlog,   \* commands handed in and not executed yet, oldest first
    executed   \* the command executed and not retired yet, if any

vars == <<backlog, executed>>

Init ==
    /\ backlog = [d \in Device |-> <<>>]
    /\ executed = [d \in Device |-> <<>>]

Submit(d, cs) ==
    /\ backlog' = [backlog EXCEPT ![d] = @ \o cs]
    /\ UNCHANGED executed

Execute(d) ==
    /\ backlog[d] # <<>> /\ executed[d] = <<>>
    /\ executed' = [executed EXCEPT ![d] = <<Head(backlog[d])>>]
    /\ backlog' = [backlog EXCEPT ![d] = Tail(@)]

Retire(d) ==
    /\ executed[d] # <<>>
    /\ executed' = [executed EXCEPT ![d] = <<>>]
    /\ UNCHANGED backlog

Next ==
    \E d \in Device :
        \/ \E cs \in Batch : Submit(d, cs)
        \/ Execute(d)
        \/ Retire(d)

Spec == Init /\ [][Next]_vars

\* Whatever is handed in is executed and retired in the end.
Fairness == \A d \in Device : WF_vars(Execute(d)) /\ WF_vars(Retire(d))
=============================================================================
