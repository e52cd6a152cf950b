---------------------------- MODULE Ps2Keyboard ----------------------------
(***************************************************************************)
(* The command queue of the PS/2 keyboard driver (ps2k.c) and the keyboard *)
(* at the other end of the wire.                                           *)
(*                                                                         *)
(* Every entry point of the driver runs inside an interrupt handler with   *)
(* interrupts disabled (isrs.c:29), so one entry point is one action; the  *)
(* keyboard runs in parallel.  ps2_send_byte is the append to "port": the  *)
(* wait for the controller's input buffer in front of it is not modelled   *)
(* here.  A byte on the wire carries, next to the value the driver reads,  *)
(* where it came from, so that properties can tell a reply from a key.     *)
(*                                                                         *)
(* The query for the scancode set is two bytes (ps2k.c:449-450), written   *)
(* without reading what the keyboard answers to the first.  A prompt       *)
(* keyboard may answer that byte too; the others answer only the last of   *)
(* the bytes they are sent, which is what ps2k.c:453-473 is written for.   *)
(***************************************************************************)
EXTENDS Integers, Sequences

CONSTANTS
    Device,      \* ports that have a keyboard, a subset of {0, 1}
    KeyByte,     \* scancode bytes the keyboard may send when keys are used
    Prompt,      \* may a byte be answered that the next one follows at once?
    Lossy,       \* may a command or a reply get lost?
    QueueSize,   \* PS2K_COMMAND_QUEUE_MAX_SIZE
    ResendBound, \* bound: no byte that the keyboard could obey is asked for
                 \* again with more bytes than this under way
    WireBound    \* bound: no key is struck with this many bytes on the wire

ACK == 250      \* 0xfa
RESEND == 254   \* 0xfe
ECHOED == 238   \* 0xee
ScancodeSet == 1..3

ECHO == "ECHO"
ENABLE == "ENABLE_SCANNING"
DISABLE == "DISABLE_SCANNING"
GETSET == "GET_SCANCODE_SET"
Command == {ECHO, ENABLE, DISABLE, GETSET}

ARGUMENT == "ARGUMENT" \* the 0x00 that follows GETSET
Byte == Command \cup {ARGUMENT}

\* ps2k_scancodes.h:6-8: no scancode byte of set 2 is a reply code.
ASSUME KeyByteAssumption ==
    KeyByte \subseteq 0..255 \ {ACK, RESEND, ECHOED}

ASSUME BoundAssumption ==
    /\ Prompt \in BOOLEAN /\ Lossy \in BOOLEAN
    /\ QueueSize \in Nat /\ QueueSize >= 3
    /\ ResendBound \in Nat /\ WireBound \in Nat

Reply(b) == [val |-> b, from |-> "reply"]
Key(b)   == [val |-> b, from |-> "key"]
WireByte == [val : 0..255, from : {"reply", "key"}]

VARIABLES
    kbd,             \* ps2k_devices: the driver's record of each keyboard
    connected,       \* on_connect has run: ps2.c has selected this driver
    echo_succeeded,  \* ps2_devices[d].echo_succeeded
    toHost,          \* bytes sent by the keyboard and not read yet
    scanning,        \* keyboard: reports keys
    expects,         \* keyboard: the next byte is the argument of GETSET
    owesSet,         \* keyboard: has yet to send the scancode set asked for
    devSet           \* keyboard: the scancode set it uses

driverVars == <<kbd, connected, echo_succeeded>>
deviceVars == <<scanning, expects, owesSet, devSet>>
vars == <<kbd, connected, echo_succeeded, toHost, scanning, expects, owesSet,
          devSet>>

\* struct ps2k_device; in "port" the bytes written to the keyboard which it has
\* not taken yet; whether a command has been written behind the queue's array.
KbdRecord ==
    [queue : Seq(Command), overrun : BOOLEAN, waiting : BOOLEAN,
     respLen : 0..1, scancodeSet : 0..255, waitingSet : BOOLEAN,
     port : Seq(Byte)]

TypeOK ==
    /\ kbd \in [Device -> KbdRecord]
    /\ connected \in [Device -> BOOLEAN]
    /\ echo_succeeded \in [Device -> BOOLEAN]
    /\ toHost \in [Device -> Seq(WireByte)]
    /\ scanning \in [Device -> BOOLEAN]
    /\ expects \in [Device -> BOOLEAN]
    /\ owesSet \in [Device -> BOOLEAN]
    /\ devSet \in [Device -> ScancodeSet]

\* The statically allocated driver state is zero; ps2_get_device_id has left
\* the keyboards with scanning enabled.
Init ==
    /\ kbd = [d \in Device |->
                [queue |-> <<>>, overrun |-> FALSE, waiting |-> FALSE,
                 respLen |-> 0, scancodeSet |-> 0, waitingSet |-> FALSE,
                 port |-> <<>>]]
    /\ connected = [d \in Device |-> FALSE]
    /\ echo_succeeded = [d \in Device |-> FALSE]
    /\ toHost = [d \in Device |-> <<>>]
    /\ scanning = [d \in Device |-> TRUE]
    /\ expects = [d \in Device |-> FALSE]
    /\ owesSet = [d \in Device |-> FALSE]
    /\ devSet \in [Device -> ScancodeSet]

-----------------------------------------------------------------------------
(* The command queue.  Each operator maps the record before a call to the  *)
(* record after it.                                                        *)

Bytes(c) == IF c = GETSET THEN <<GETSET, ARGUMENT>> ELSE <<c>>

\* The send handlers: wait for a response to the head command and write it.
Send(k) == [k EXCEPT !.waiting = TRUE, !.port = @ \o Bytes(Head(k.queue))]

SendCommand(k) ==
    IF k.waiting \/ k.queue = <<>> THEN k
    ELSE Send([k EXCEPT !.respLen = 0])

\* Mutation: writes the command without asking ps2k_send_command.
QueueCommand_SendsAtOnce(k, c) == Send([k EXCEPT !.queue = Append(@, c)])

\* The array is not checked: a command too many is written over the fields
\* behind it and the next keyboard's record, and nothing is modelled from there.
QueueCommand(k, c) ==
    LET q == [k EXCEPT !.queue = Append(@, c)]
    IN  IF Len(k.queue) >= QueueSize THEN [k EXCEPT !.overrun = TRUE]
        ELSE IF Len(q.queue) = 1 THEN SendCommand(q) ELSE q

Pop(k) ==
    IF k.queue = <<>> THEN k
    ELSE SendCommand([k EXCEPT !.queue = Tail(@), !.waiting = FALSE,
                               !.respLen = 0])

\* Mutations: the query is not preceded by DISABLE, not followed by ENABLE.
QueueGetScancodeSet_Scanning(k) ==
    QueueCommand(QueueCommand(k, GETSET), ENABLE)
QueueGetScancodeSet_LeavesOff(k) ==
    QueueCommand(QueueCommand(k, DISABLE), GETSET)

\* ps2k_add_get_scancode_set_cmd_to_queue: the query is bracketed, so that
\* no key is taken for its answer.
QueueGetScancodeSet(k) ==
    QueueCommand(QueueCommand(QueueCommand(k, DISABLE), GETSET), ENABLE)

OnConnect(k) ==
    QueueGetScancodeSet([k EXCEPT !.queue = <<>>, !.waiting = FALSE,
                                  !.waitingSet = TRUE])

\* The record an entry point works on: ps2_device_find_driver has called
\* on_connect if the device had no driver yet.
Selected(d) == IF connected[d] THEN kbd[d] ELSE OnConnect(kbd[d])

\* Each send handler's command is answered by one of these in the end.
FinalReply(c) == IF c = ECHO THEN ECHOED ELSE ACK

AwaitsSet(k) == Head(k.queue) = GETSET /\ k.respLen = 1

\* Mutations: any byte is claimed; the echo's 0xee is not.
Claims_AnyByte(k, b) == k.queue # <<>> /\ k.waiting
Claims_NoEcho(k, b) ==
    k.queue # <<>> /\ k.waiting /\ (AwaitsSet(k) \/ b \in {RESEND, ACK})

\* The head command's handle_receive returns 1 for byte b.
Claims(k, b) ==
    /\ k.queue # <<>> /\ k.waiting
    /\ AwaitsSet(k) \/ b \in {RESEND, FinalReply(Head(k.queue))}

\* Mutations: a request to resend drops the command, or queues it again; the
\* scancode set is stored as sent.
HandleReceive_DropsResend(k, b) ==
    IF AwaitsSet(k)
    THEN Pop([k EXCEPT !.scancodeSet = (b - 1) % 256, !.waitingSet = FALSE])
    ELSE IF b = ACK /\ Head(k.queue) = GETSET
         THEN [k EXCEPT !.respLen = @ + 1] ELSE Pop(k)
HandleReceive_QueuesResend(k, b) ==
    CASE AwaitsSet(k) ->
           Pop([k EXCEPT !.scancodeSet = (b - 1) % 256, !.waitingSet = FALSE])
      [] ~AwaitsSet(k) /\ b = RESEND -> QueueCommand(k, Head(k.queue))
      [] ~AwaitsSet(k) /\ b = ACK /\ Head(k.queue) = GETSET ->
           [k EXCEPT !.respLen = @ + 1]
      [] OTHER -> Pop(k)
HandleReceive_RawSet(k, b) ==
    CASE AwaitsSet(k) -> Pop([k EXCEPT !.scancodeSet = b, !.waitingSet = FALSE])
      [] ~AwaitsSet(k) /\ b = RESEND -> Send(k)
      [] ~AwaitsSet(k) /\ b = ACK /\ Head(k.queue) = GETSET ->
           [k EXCEPT !.respLen = @ + 1]
      [] OTHER -> Pop(k)

HandleReceive(k, b) ==
    CASE AwaitsSet(k) ->
           Pop([k EXCEPT !.scancodeSet = (b - 1) % 256, !.waitingSet = FALSE])
      [] ~AwaitsSet(k) /\ b = RESEND -> Send(k)
      [] ~AwaitsSet(k) /\ b = ACK /\ Head(k.queue) = GETSET ->
           [k EXCEPT !.respLen = @ + 1]
      [] OTHER -> Pop(k)

-----------------------------------------------------------------------------
(* The driver's entry points.                                              *)

\* The echo callback finds the device silent and calls send_echo, which
\* queues an echo command.
SendEcho(d) ==
    /\ kbd' = [kbd EXCEPT ![d] = QueueCommand(Selected(d), ECHO)]
    /\ connected' = [connected EXCEPT ![d] = TRUE]
    /\ echo_succeeded' = [echo_succeeded EXCEPT ![d] = FALSE]
    /\ UNCHANGED <<toHost, deviceVars>>

\* The echo callback finds that the device has communicated: it needs no echo.
SkipEcho(d) ==
    /\ kbd' = [kbd EXCEPT ![d] = Selected(d)]
    /\ connected' = [connected EXCEPT ![d] = TRUE]
    /\ echo_succeeded' = [echo_succeeded EXCEPT ![d] = TRUE]
    /\ UNCHANGED <<toHost, deviceVars>>

\* ps2.c has no driver for the device yet and only prints the byte.
Unheard(d) ==
    /\ ~connected[d] /\ toHost[d] # <<>>
    /\ toHost' = [toHost EXCEPT ![d] = Tail(@)]
    /\ UNCHANGED <<driverVars, deviceVars>>

\* The device's interrupt: the byte goes to the head command if that claims
\* it, otherwise to the scancode parser (which this module leaves out).
Irq(d) ==
    /\ toHost[d] # <<>>
    /\ toHost' = [toHost EXCEPT ![d] = Tail(@)]
    /\ connected' = [connected EXCEPT ![d] = TRUE]
    /\ LET k == Selected(d)
           b == Head(toHost[d]).val
       IN  /\ kbd' = [kbd EXCEPT ![d] =
                         IF Claims(k, b) THEN HandleReceive(k, b) ELSE k]
           /\ echo_succeeded' = [echo_succeeded EXCEPT ![d] =
                 @ \/ (/\ Claims(k, b)
                       /\ Head(k.queue) = ECHO /\ b = ECHOED)]
    /\ UNCHANGED deviceVars

-----------------------------------------------------------------------------
(* The keyboard (external).                                                *)

\* The keyboard takes a byte off the wire.
Take(d) ==
    /\ kbd[d].port # <<>>
    /\ kbd' = [kbd EXCEPT ![d].port = Tail(@)]
    /\ UNCHANGED <<connected, echo_succeeded, devSet>>

\* It answers that byte, if the next one does not keep it from answering.
Answer(d, b) ==
    LET alone == Len(kbd[d].port) = 1
    IN  /\ Take(d)
        /\ \/ (alone \/ Prompt) /\ toHost' = [toHost EXCEPT ![d] = Append(@, Reply(b))]
           \/ ~alone /\ UNCHANGED toHost

\* The keyboard obeys byte c; a new byte makes it forget an earlier query.
Execute(d, c) ==
    /\ Answer(d, FinalReply(c)) /\ Head(kbd[d].port) = c
    /\ c = ARGUMENT => expects[d]
    /\ scanning' = [scanning EXCEPT ![d] = c = ENABLE \/ (@ /\ c # DISABLE)]
    /\ expects' = [expects EXCEPT ![d] = c = GETSET]
    /\ owesSet' = [owesSet EXCEPT ![d] = c = ARGUMENT]

\* The scancode set follows the answer to the query's last byte; keys may come
\* before it if the keyboard is scanning.
TellSet(d) ==
    /\ owesSet[d]
    /\ toHost' = [toHost EXCEPT ![d] = Append(@, Reply(devSet[d]))]
    /\ owesSet' = [owesSet EXCEPT ![d] = FALSE]
    /\ UNCHANGED <<driverVars, scanning, expects, devSet>>

\* The keyboard did not understand the byte.
AskResend(d) ==
    /\ Len(kbd[d].port) + Len(toHost[d]) <= ResendBound
    /\ Answer(d, RESEND) /\ UNCHANGED <<scanning, expects, owesSet>>

\* An argument without a command.
Reject(d) ==
    /\ kbd[d].port # <<>> /\ Head(kbd[d].port) = ARGUMENT /\ ~expects[d]
    /\ Answer(d, RESEND) /\ UNCHANGED <<scanning, expects, owesSet>>

Strike(d) ==
    /\ scanning[d] /\ Len(toHost[d]) < WireBound
    /\ \E b \in KeyByte : toHost' = [toHost EXCEPT ![d] = Append(@, Key(b))]
    /\ UNCHANGED <<driverVars, deviceVars>>

\* A byte is never taken: it was not sent (the TODO of ps2k.c:10) or the
\* keyboard is dead.
LoseCommand(d) ==
    Lossy /\ Take(d) /\ UNCHANGED <<toHost, scanning, expects, owesSet>>

LoseReply(d) ==
    /\ Lossy /\ toHost[d] # <<>> /\ Head(toHost[d]).from = "reply"
    /\ toHost' = [toHost EXCEPT ![d] = Tail(@)]
    /\ UNCHANGED <<driverVars, deviceVars>>

Intact == \A d \in Device : ~kbd[d].overrun

Next ==
    /\ Intact
    /\ \E d \in Device :
          \/ SendEcho(d) \/ SkipEcho(d) \/ Irq(d) \/ Unheard(d)
          \/ (\E c \in Byte : Execute(d, c)) \/ TellSet(d)
          \/ AskResend(d) \/ Reject(d) \/ Strike(d)
          \/ LoseCommand(d) \/ LoseReply(d)

Spec == Init /\ [][Next]_vars

-----------------------------------------------------------------------------
(* Properties.                                                             *)

RepliesOn(wire) == {i \in DOMAIN wire : wire[i].from = "reply"}

Replies(d) == RepliesOn(toHost[d])

(* Stop and wait: what the keyboard has yet to take is of the head of the   *)
(* queue, and a reply on its way to the driver finds the command it answers *)
(* still waiting.  (Not of a prompt keyboard.)                              *)
StopAndWait ==
    \A d \in Device :
        /\ kbd[d].port # <<>> =>
              /\ kbd[d].queue # <<>> /\ kbd[d].waiting
              /\ kbd[d].port \in {Bytes(Head(kbd[d].queue)),
                                  Tail(Bytes(Head(kbd[d].queue)))}
              /\ Replies(d) = {} /\ ~owesSet[d]
        /\ Replies(d) # {} \/ owesSet[d] => kbd[d].queue # <<>> /\ kbd[d].waiting

(* A key that is struck while commands are under way is never taken for a  *)
(* reply (ps2k_driver_irq_handler asks the head command first), not even   *)
(* while the get-scancode-set handler takes whatever byte comes next.      *)
KeysReachParser ==
    \A d \in Device :
        toHost[d] # <<>> /\ Head(toHost[d]).from = "key" =>
            ~Claims(Selected(d), Head(toHost[d]).val)

(* Without losses every reply is claimed by the command it answers: none   *)
(* is parsed as a scancode.  (Not of a prompt keyboard.)                    *)
RepliesReachCommand ==
    \A d \in Device :
        toHost[d] # <<>> /\ Head(toHost[d]).from = "reply" =>
            Claims(Selected(d), Head(toHost[d]).val)

(* Once the driver no longer waits for the scancode set (ps2k.c:455), the  *)
(* set it parses with is the keyboard's.  (Not of a prompt keyboard.)       *)
ScancodeSetLearned ==
    \A d \in Device :
        connected[d] /\ ~kbd[d].waitingSet =>
            kbd[d].scancodeSet = devSet[d] - 1

(* Whatever bytes ps2k.c:454 takes for the scancode set, keys are parsed    *)
(* (as set 2, ps2k.c:249) only if that is the keyboard's.                   *)
ParsedInItsSet ==
    \A d \in Device : kbd[d].scancodeSet = 1 => devSet[d] = 2

(* "should be called when the current command has resolved all responses"  *)
(* (ps2k.c:94): a command leaves the queue when the keyboard has nothing    *)
(* more to answer to it.                                                    *)
PoppedWhenResolved ==
    [][\A d \in Device :
          Len(kbd'[d].queue) < Len(kbd[d].queue) =>
              RepliesOn(toHost'[d]) = {} /\ ~owesSet'[d]]_vars

(* The driver waits exactly while a command is queued, and a query comes    *)
(* right behind its DISABLE, which nothing precedes.                        *)
QueueShape(k, conn) ==
    /\ k.waiting <=> k.queue # <<>>
    /\ ~conn => k.queue = <<>>
    /\ \A i \in DOMAIN k.queue :
          /\ k.queue[i] = DISABLE => i = 1
          /\ k.queue[i] = GETSET => i = 1 \/ (i = 2 /\ k.queue[1] = DISABLE)
    /\ k.respLen = 1 => k.queue # <<>> /\ k.queue[1] = GETSET

KeysAreKeys(wire) ==
    \A i \in DOMAIN wire : wire[i].from = "key" => wire[i].val \in KeyByte

(* The inductive invariant behind KeysReachParser and ParsedInItsSet, of    *)
(* every keyboard: DISABLE is written when nothing else is under way, its   *)
(* ACK comes behind the last key, and while a query is at the head of the   *)
(* queue the keyboard does not scan and nothing but answers to the query's  *)
(* bytes is on the wire; so what is taken for the set is such an answer.    *)
Idle(k, owes, wire) == k.port = <<>> /\ ~owes /\ RepliesOn(wire) = {}

Disabling(k, scan, owes, wire) ==
    /\ ~owes /\ k.port \in {<<>>, <<DISABLE>>}
    /\ k.port # <<>> => RepliesOn(wire) = {}
    /\ \A i, j \in RepliesOn(wire) : i = j
    /\ \A i \in DOMAIN wire :
          wire[i] = Reply(ACK) => ~scan /\ i = Len(wire)

Asking(k, scan, set, wire) ==
    /\ ~scan
    /\ \A i \in DOMAIN k.port : k.port[i] \in {GETSET, ARGUMENT}
    /\ \A i \in DOMAIN wire :
          wire[i].from = "reply" /\ wire[i].val \in {ACK, RESEND, set}

Quiet(k, conn, scan, owes, set, wire) ==
    /\ QueueShape(k, conn)
    /\ ~conn => Idle(k, owes, wire)
    /\ k.queue # <<>> /\ k.queue[1] = DISABLE => Disabling(k, scan, owes, wire)
    /\ k.queue # <<>> /\ k.queue[1] = GETSET => Asking(k, scan, set, wire)
    /\ KeysAreKeys(wire)
    /\ k.scancodeSet \in {0, set - 1, ACK - 1, RESEND - 1}

QuietInv ==
    /\ TypeOK
    /\ \A d \in Device : Quiet(kbd[d], connected[d], scanning[d], owesSet[d],
                               devSet[d], toHost[d])

(* The inductive invariant behind StopAndWait, of a keyboard that is not    *)
(* prompt: of the command at the head at most one byte, or for a query the  *)
(* ACK and the set in this order, is under way.                             *)
Silent(k, scan, wire) ==
    /\ k.queue # <<>> /\ k.queue[1] = GETSET =>
          ~scan /\ RepliesOn(wire) = DOMAIN wire
    /\ k.queue # <<>> /\ k.queue[1] = DISABLE =>
          \A i \in DOMAIN wire :
             wire[i] = Reply(ACK) => ~scan /\ i = Len(wire)

Outstanding(k, owes, wire) ==
    /\ k.port # <<>> =>
          /\ k.queue # <<>>
          /\ k.port \in {Bytes(k.queue[1]), Tail(Bytes(k.queue[1]))}
          /\ k.respLen = 0 /\ ~owes /\ RepliesOn(wire) = {}
    /\ owes =>
          /\ k.queue # <<>> /\ k.queue[1] = GETSET
          /\ \A i \in RepliesOn(wire) : wire[i].val = ACK /\ k.respLen = 0
    /\ \A i \in RepliesOn(wire) :
          /\ k.queue # <<>>
          /\ \/ /\ wire[i].val \in {RESEND, FinalReply(k.queue[1])}
                /\ k.respLen = 0
             \/ k.queue[1] = GETSET /\ wire[i].val \in ScancodeSet
    /\ \A i, j \in RepliesOn(wire) : i < j =>
          /\ k.queue[1] = GETSET
          /\ wire[i].val = ACK /\ wire[j].val \in ScancodeSet

Orderly(k, conn, scan, owes, wire) ==
    /\ QueueShape(k, conn)
    /\ Silent(k, scan, wire)
    /\ Outstanding(k, owes, wire)
    /\ KeysAreKeys(wire)

IInv ==
    /\ TypeOK
    /\ \A d \in Device :
          Orderly(kbd[d], connected[d], scanning[d], owesSet[d], toHost[d])

Stalled(d) ==
    kbd[d].waiting /\ kbd[d].port = <<>> /\ Replies(d) = {} /\ ~owesSet[d]

(* With losses the driver has no way back: once the answer to the head     *)
(* command is lost, no key, no echo request and no interrupt ever removes  *)
(* that command or writes another one (the TODO at ps2k.c:10), until the   *)
(* echo requests overrun the queue.                                        *)
StallsForEver ==
    [][\A d \in Device :
          Stalled(d) => \/ kbd'[d].overrun
                        \/ /\ Stalled(d)'
                           /\ Head(kbd'[d].queue) = Head(kbd[d].queue)]_vars

(* Without losses the driver and a keyboard that is not prompt implement   *)
(* CommandPipe.  The head command has been executed once an answer other   *)
(* than a request to resend is on its way or has in part been read.        *)
HeadExecuted(d) ==
    \/ kbd[d].respLen = 1
    \/ \E i \in Replies(d) : toHost[d][i].val # RESEND

Query == <<DISABLE, GETSET, ENABLE>>

Pipe == INSTANCE CommandPipe WITH
    Batch <- {<<ECHO>>, Query, Append(Query, ECHO)},
    backlog <- [d \in Device |-> IF HeadExecuted(d) THEN Tail(kbd[d].queue)
                                                    ELSE kbd[d].queue],
    executed <- [d \in Device |-> IF HeadExecuted(d)
                                  THEN <<Head(kbd[d].queue)>> ELSE <<>>]

PipeSpec == Pipe!Spec /\ ([]Intact => Pipe!Fairness)
=============================================================================
