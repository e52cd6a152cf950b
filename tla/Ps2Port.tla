------------------------------ MODULE Ps2Port ------------------------------
(***************************************************************************)
(* ps2_send_byte and ps2_receive_byte of ps2.c with the loops they wait    *)
(* in, against a controller that takes its time or hangs.                  *)
(*                                                                         *)
(* There is one caller at a time: main while ps2_init runs (Ps2Init shows  *)
(* that no handler then takes a byte main waits for), interrupt handlers   *)
(* afterwards.  A caller in a handler runs with interrupts disabled, so    *)
(* that the timer stands still for the length of the call.                 *)
(***************************************************************************)
EXTENDS Ticks

CONSTANTS
    ReadTimeout, \* ps2_read_timeout
    WriteTimeout \* ps2_write_timeout

ASSUME PortAssumption ==
    /\ ReadTimeout \in Nat /\ WriteTimeout \in Nat
    /\ ReadTimeout < TickRange /\ WriteTimeout < TickRange

Device == {0, 1}
Empty == -1
Cmd == 2    \* in the input buffer: 0xd4, the next byte is for device 1

VARIABLES
    place,    \* where the call is
    ctx,      \* who made it
    dev,      \* its argument: the device
    start,    \* start_tsb
    elapsed,  \* history: ticks since start
    result,   \* what the latest call returned
    ibf,      \* input buffer: Empty, Cmd, or the device a byte is meant for
    obf,      \* the output buffer is full
    prefixed, \* the controller has taken 0xd4 and not the byte after it
    hung,     \* the controller does nothing any more
    cut       \* history: a call has timed out between 0xd4 and the byte after it,
              \* and no byte has followed

portVars == <<ticks, place, ctx, dev, start, elapsed, result, ibf, obf,
              prefixed, hung, cut>>
callVars == <<ctx, dev>>
controllerVars == <<ibf, obf, prefixed, hung>>

PortTypeOK ==
    /\ ticks \in 0..TickRange - 1 /\ start \in 0..TickRange - 1
    /\ elapsed \in 0..TickRange
    /\ place \in {"idle", "command", "writewait", "write", "readwait", "read"}
    /\ ctx \in {"main", "handler"}
    /\ dev \in Device
    /\ result \in {0, 1}
    /\ ibf \in Device \cup {Empty, Cmd}
    /\ obf \in BOOLEAN /\ prefixed \in BOOLEAN
    /\ hung \in BOOLEAN /\ cut \in BOOLEAN

PortInit ==
    /\ ticks \in 0..TickRange - 1 /\ start = 0 /\ elapsed = 0
    /\ place = "idle" /\ ctx = "main" /\ dev = 0 /\ result = 0
    /\ ibf = Empty /\ obf \in BOOLEAN /\ prefixed = FALSE
    /\ hung = FALSE /\ cut = FALSE

-----------------------------------------------------------------------------
(* The calls.                                                              *)

StartWait(label) == place' = label /\ start' = ticks /\ elapsed' = 0
Finish(r) == place' = "idle" /\ result' = r

\* Mutation: the deadline is computed once, and compared.
TimeLeft_Deadline(timeout) == ticks < (start + timeout) % TickRange

\* The loops' condition, in unsigned arithmetic.
TimeLeft(timeout) == (ticks - start) % TickRange < timeout

\* Mutation: the byte for device 1 is not announced.
SendByte_NoCommand(c, d) ==
    /\ place = "idle" /\ ctx' = c /\ dev' = d
    /\ StartWait("writewait")
    /\ UNCHANGED <<ticks, result, controllerVars, cut>>

SendByte(c, d) ==
    /\ place = "idle" /\ ctx' = c /\ dev' = d
    /\ IF d = 1 THEN place' = "command" /\ UNCHANGED <<start, elapsed>>
                ELSE StartWait("writewait")
    /\ UNCHANGED <<ticks, result, controllerVars, cut>>

\* ps2_send_cmd(0xd4), which waits without a limit.
SendCommand ==
    /\ place = "command" /\ ibf = Empty
    /\ ibf' = Cmd /\ cut' = FALSE
    /\ StartWait("writewait")
    /\ UNCHANGED <<ticks, callVars, result, obf, prefixed, hung>>

\* Mutation: the wait of ps2_wait_for_write, which has no limit.
WaitForWrite_Unlimited ==
    /\ place = "writewait" /\ ibf = Empty /\ place' = "write"
    /\ UNCHANGED <<ticks, callVars, start, elapsed, result, controllerVars, cut>>

\* A round of ps2_wait_for_write_with_timeout that ends it.
WaitForWrite ==
    /\ place = "writewait"
    /\ IF TimeLeft(WriteTimeout)
       THEN ibf = Empty /\ place' = "write" /\ UNCHANGED <<result, cut>>
       ELSE Finish(1) /\ cut' = (cut \/ dev = 1)
    /\ UNCHANGED <<ticks, callVars, start, elapsed, controllerVars>>

Write ==
    /\ place = "write" /\ Finish(0)
    /\ ibf' = dev
    /\ UNCHANGED <<ticks, callVars, start, elapsed, obf, prefixed, hung, cut>>

ReceiveByte(c) ==
    /\ place = "idle" /\ ctx' = c /\ StartWait("readwait")
    /\ UNCHANGED <<ticks, dev, result, controllerVars, cut>>

\* A round of ps2_wait_for_read_with_timeout that ends it: it looks at the
\* input buffer's bit.
WaitForRead ==
    /\ place = "readwait"
    /\ IF TimeLeft(ReadTimeout)
       THEN ibf # Empty /\ place' = "read" /\ UNCHANGED result
       ELSE Finish(1)
    /\ UNCHANGED <<ticks, callVars, start, elapsed, controllerVars, cut>>

Read ==
    /\ place = "read" /\ Finish(0)
    /\ obf' = FALSE
    /\ UNCHANGED <<ticks, callVars, start, elapsed, ibf, prefixed, hung, cut>>

Caller == SendCommand \/ WaitForWrite \/ Write \/ WaitForRead \/ Read

-----------------------------------------------------------------------------
(* The timer interrupt and the controller (external).                      *)

\* irq0_handler, unless the caller is a handler itself.
Tick ==
    /\ place = "idle" \/ ctx = "main"
    /\ CountTick
    /\ elapsed' = IF elapsed < TickRange THEN elapsed + 1 ELSE elapsed
    /\ UNCHANGED <<place, callVars, start, result, controllerVars, cut>>

Accept ==
    /\ ~hung /\ ibf # Empty /\ ibf' = Empty
    /\ prefixed' = (ibf = Cmd)
    /\ cut' = (cut /\ ibf = Cmd)
    /\ UNCHANGED <<ticks, place, callVars, start, elapsed, result, obf, hung>>

DeviceSends ==
    /\ ~hung /\ ~obf /\ obf' = TRUE
    /\ UNCHANGED <<ticks, place, callVars, start, elapsed, result, ibf, prefixed,
                   hung, cut>>

Hang ==
    /\ ~hung /\ hung' = TRUE
    /\ UNCHANGED <<ticks, place, callVars, start, elapsed, result, ibf, obf,
                   prefixed, cut>>

PortNext ==
    \/ \E c \in {"main", "handler"} :
          ReceiveByte(c) \/ \E d \in Device : SendByte(c, d)
    \/ Caller \/ Tick \/ Accept \/ DeviceSends \/ Hang

\* The CPU goes on; a wait makes thousands of rounds per tick, so that it meets
\* what holds again and again (strong fairness); the timer ticks when it can,
\* and a controller that does not hang takes what it is sent.
PortSpec ==
    /\ PortInit /\ [][PortNext]_portVars
    /\ WF_portVars(Caller) /\ SF_portVars(WaitForWrite) /\ SF_portVars(WaitForRead)
    /\ WF_portVars(Tick) /\ WF_portVars(Accept)

-----------------------------------------------------------------------------
(* Properties.                                                             *)

(* A call that reports a time-out has waited that long, also when the      *)
(* tick counter has wrapped around meanwhile.                              *)
TimeoutsAreReal ==
    [][/\ place = "writewait" /\ place' = "idle" => elapsed >= WriteTimeout
       /\ place = "readwait" /\ place' = "idle" => elapsed >= ReadTimeout]_portVars

(* Called from main, a wait with a time-out ends, whatever the controller  *)
(* does.                                                                   *)
MainReturns ==
    ctx = "main" /\ place \in {"writewait", "readwait"} ~> place = "idle"

(* A byte reaches the device it is sent to, whichever context sends and    *)
(* however slow the controller is.  A call that times out between the 0xd4 *)
(* that says "for device 1" and its byte (ps2.c:646) leads one byte astray, *)
(* the next one, and only if that is for device 0.                         *)
RightDevice ==
    ibf \in Device => (prefixed <=> ibf = 1) \/ (cut /\ ibf = 0)
=============================================================================
