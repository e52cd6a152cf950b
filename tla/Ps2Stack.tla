------------------------------ MODULE Ps2Stack ------------------------------
(***************************************************************************)
(* Ps2Devices with ps2k.c as its driver, from the end of ps2_init on: a    *)
(* keyboard in the first port, and in the second nothing that any driver   *)
(* takes.  The callbacks and interrupts of ps2.c call the operators of     *)
(* Ps2Keyboard, and the keyboard answers as there, without losses.         *)
(*                                                                         *)
(* main installs the driver at any time, as a rule before the first search *)
(* (kernel.c:15-21), with interrupts between any two accesses; an interrupt *)
(* that calls a driver through the empty entry ends the model, and so does *)
(* a command queue that is overrun.                                        *)
(*                                                                         *)
(* The echo callbacks come with the clock, whether the keyboard has        *)
(* answered or not; "behind" counts those that have come since the command *)
(* queue was last empty, up to Late.                                       *)
(***************************************************************************)
EXTENDS Naturals, Sequences

CONSTANTS
    KeyByte,     \* scancode bytes
    Prompt,      \* may a byte be answered that the next one follows at once?
    Late,        \* bound: callbacks that the keyboard lets pass
    ResendBound, \* bound: bytes under way when one is asked for again
    WireBound    \* bound: bytes on the wire when a key is struck

ASSUME StackAssumption ==
    /\ KeyByte \subseteq 0..255 \ {250, 254, 238} /\ Prompt \in BOOLEAN
    /\ Late \in Nat /\ ResendBound \in Nat /\ WireBound \in Nat

VARIABLES
    dev, ident, table, amount, todo, pc, reg, flags, next, silent,
    wild,                                   \* as in Ps2Devices
    kbd, toHost, scanning, expects, owesSet, devSet, \* as in Ps2Keyboard
    behind,   \* history: callbacks since the command queue was empty
    declared, \* history: the echo flag as send_echo and the driver set it,
              \* whatever an installation writes back over it (ps2.c:573)
    served    \* history: at the last request to echo the keyboard had its
              \* driver and no installation was under way

Keyboards == {[long |-> FALSE, id |-> <<171, 0>>], [long |-> TRUE, id |-> <<171, 131>>]}
Mouse == [long |-> FALSE, id |-> <<0, 0>>]

\* ps2_devices and its drivers: ps2k_device_driver, which never fails.
Devs == INSTANCE Ps2Devices WITH
    Ident <- Keyboards \cup {Mouse},
    Installs <- <<[long |-> FALSE, id |-> <<171, 0>>]>>,
    MaxDrivers <- 256, Interrupting <- {0}, Fallible <- FALSE

Kbd == INSTANCE Ps2Keyboard WITH
    Device <- {0}, Lossy <- FALSE, QueueSize <- 16,
    connected <- [d \in {0} |-> dev[d].connected # Devs!None],
    echo_succeeded <- [d \in {0} |-> declared]

devsVars == <<dev, ident, table, amount, todo, pc, reg, flags, next, silent, wild>>
keyboardVars == <<scanning, expects, owesSet, devSet>>
kbdVars == <<kbd, toHost, keyboardVars>>
historyVars == <<behind, declared, served>>
vars == <<devsVars, kbdVars, historyVars>>

Init ==
    /\ Devs!Init
    /\ dev[0].working /\ ident[0] \in Keyboards /\ ident[1] = Mouse
    /\ declared = FALSE /\ Kbd!Init
    /\ behind = 0 /\ served = FALSE

Answered(k) == k[0].queue = <<>>
Counted(n) == behind' = IF Answered(kbd') THEN 0 ELSE behind + n

-----------------------------------------------------------------------------
(* The callbacks and the interrupt.                                        *)

InTime == behind < Late \/ Answered(kbd)

\* ps2.c calls the keyboard's driver if it finds record r: not if no driver
\* takes it, nor if the call goes to an entry without one.
Called(r) == ~r.notFound /\ ~Devs!NoEntry(r)

\* Mutation: the driver is asked for an echo whatever has arrived.
SendEchoCallback_Always ==
    /\ InTime /\ Devs!SendEchoCallback
    /\ kbd' = IF Called(dev'[0])
              THEN [kbd EXCEPT ![0] = Kbd!QueueCommand(Kbd!Selected(0), Kbd!ECHO)]
              ELSE kbd
    /\ Counted(1)
    /\ declared' = IF Called(dev'[0]) THEN dev[0].arrived ELSE declared
    /\ served' = (Called(dev'[0]) /\ pc = Devs!Start)
    /\ UNCHANGED <<toHost, keyboardVars>>

\* ps2_send_echo_intervaled_callback, and the driver's send_echo.
SendEchoCallback ==
    /\ InTime /\ Devs!SendEchoCallback
    /\ kbd' = IF Called(dev'[0])
              THEN [kbd EXCEPT ![0] =
                       IF dev[0].arrived THEN Kbd!Selected(0)
                       ELSE Kbd!QueueCommand(Kbd!Selected(0), Kbd!ECHO)]
              ELSE kbd
    /\ Counted(1)
    /\ declared' = IF Called(dev'[0]) THEN dev[0].arrived ELSE declared
    /\ served' = (Called(dev'[0]) /\ pc = Devs!Start)
    /\ UNCHANGED <<toHost, keyboardVars>>

CheckEchoCallback ==
    /\ InTime /\ Devs!CheckEchoCallback
    /\ UNCHANGED <<kbdVars, declared, served>>
    /\ Counted(1)

\* ps2_handle_device_irq, the driver's irq_handler, and what that declares.
DeviceIrq ==
    LET r == [Devs!FindDriver(0, TRUE) EXCEPT !.arrived = TRUE]
        k == Kbd!Selected(0)
        b == Head(toHost[0]).val
        claimed == Called(r) /\ Kbd!Claims(k, b)
        echo == claimed /\ Head(k.queue) = Kbd!ECHO /\ b = Kbd!ECHOED
    IN  /\ toHost[0] # <<>>
        /\ toHost' = [toHost EXCEPT ![0] = Tail(@)]
        /\ kbd' = IF Called(r)
                  THEN [kbd EXCEPT ![0] = IF claimed THEN Kbd!HandleReceive(k, b)
                                                     ELSE k]
                  ELSE kbd
        /\ dev' = [dev EXCEPT ![0] = [r EXCEPT !.echoed = @ \/ echo]]
        /\ wild' = (~r.notFound /\ Devs!NoEntry(r))
        /\ Counted(0)
        /\ declared' = (declared \/ echo)
        /\ UNCHANGED <<ident, table, amount, todo, pc, reg, flags, next,
                       silent, keyboardVars, served>>

-----------------------------------------------------------------------------
(* main, the keyboard and the user.                                        *)

Main == Devs!Main /\ UNCHANGED <<kbdVars, historyVars>>

Elsewhere == UNCHANGED <<devsVars, historyVars>>
Execute(c) == Elsewhere /\ Kbd!Execute(0, c)
TellSet == Elsewhere /\ Kbd!TellSet(0)
AskResend == Elsewhere /\ Kbd!AskResend(0)
Reject == Elsewhere /\ Kbd!Reject(0)
Strike == Elsewhere /\ Kbd!Strike(0)

Running == ~wild /\ Kbd!Intact

Next ==
    /\ Running
    /\ \/ SendEchoCallback \/ CheckEchoCallback \/ DeviceIrq \/ Main
       \/ (\E c \in Kbd!Byte : Execute(c)) \/ TellSet
       \/ AskResend \/ Reject \/ Strike

\* The fairness of Ps2Devices and of Ps2Keyboard.
Fairness ==
    /\ WF_vars(Running /\ Main)
    /\ WF_vars(Running /\ SendEchoCallback)
    /\ WF_vars(Running /\ CheckEchoCallback)
    /\ WF_vars(Running /\ DeviceIrq)
    /\ WF_vars(Running /\ TellSet) /\ WF_vars(Running /\ Reject)
    /\ \A c \in Kbd!Byte : SF_vars(Running /\ Execute(c))

Spec == Init /\ [][Next]_vars /\ Fairness

-----------------------------------------------------------------------------
(* Properties.                                                             *)

(* What ps2.c does to the driver, whatever access of the installation it   *)
(* interrupts, is what Ps2Keyboard expects: on_connect once and before      *)
(* everything else, an echo request or none, the bytes as they come; and    *)
(* what send_echo and the driver declare goes as Ps2Keyboard says.          *)
KbdSpec == Kbd!Spec

(* The queue holds what on_connect and the first echo put there, and one   *)
(* command more for every two callbacks that pass before the keyboard has  *)
(* answered: nobody else fills it.  So the 16 entries of ps2k.c:14 are      *)
(* enough for a keyboard that keeps no more than 26 callbacks waiting.      *)
QueueBounded ==
    /\ Len(kbd[0].queue) <= 4 + (behind \div 2)
    /\ kbd[0].overrun => behind > 26

(* A keyboard that has answered everything is not complained of, if the    *)
(* last request to echo found its driver installed: either the echo has    *)
(* been declared a success, or bytes that came before made it unnecessary. *)
NoFalseAlarm ==
    next = "check" /\ served /\ Answered(kbd) => ~Devs!Complains(0)

(* Stop and wait, under the calls that ps2.c makes: a byte that goes to the *)
(* keyboard finds the one before it answered, and the answer the command   *)
(* that asked for it, a query's two bytes apart.  (Not of a prompt keyboard: *)
(* nor are the next two.)                                                   *)
StopAndWait == Kbd!StopAndWait

(* No answer is parsed as a scancode, nor taken for another command's.     *)
RepliesReachCommand == Kbd!RepliesReachCommand

(* ps2.c, ps2k.c and the keyboard together promise what CommandPipe says:   *)
(* commands are executed once each, in the order of the requests.           *)
PipeSpec == Kbd!PipeSpec

(* Every echo request is answered to ps2.c, through the commands before it, *)
(* keys and requests to resend.                                             *)
EchoAnswered ==
    Kbd!ECHO \in {kbd[0].queue[i] : i \in DOMAIN kbd[0].queue}
        ~> declared \/ ~Running

(* Also if no key is ever struck, the keyboard gets its driver, the driver *)
(* learns the set that the keyboard uses, and the scanning that this       *)
(* switches off is switched on for good; unless a call through the empty   *)
(* entry ends everything.  (Not of a prompt keyboard.)                      *)
TypingStarts ==
    <>[](wild \/ /\ dev[0].connected # Devs!None /\ ~kbd[0].waitingSet
                 /\ kbd[0].scancodeSet = devSet[0] - 1 /\ scanning[0])
=============================================================================
