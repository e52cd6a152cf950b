----------------------------- MODULE Ps2Devices -----------------------------
(***************************************************************************)
(* The device manager of ps2.c: the table of device drivers that main      *)
(* fills, and the interrupts that look drivers up in it and call them.     *)
(*                                                                         *)
(* Interrupt handlers run with interrupts disabled and are atomic.  main   *)
(* runs with interrupts enabled and is not: ps2_install_device_driver is   *)
(* modelled one memory access at a time, as the unoptimised build (the     *)
(* makefile gives no -O) executes it, so that interrupts come between any  *)
(* two of them.  What a driver does with a call is left open, see          *)
(* Ps2Keyboard for the one driver there is.                                *)
(***************************************************************************)
EXTENDS Integers, Sequences, FiniteSetsExt

CONSTANTS
    Ident,        \* identities [long, id] that ps2_init may have read
    Installs,     \* the drivers that main installs, in this order
    MaxDrivers,   \* PS2_MAX_DEVICE_DRIVERS
    Interrupting, \* devices whose interrupt is dispatched to ps2.c
    Fallible      \* may a driver say that its device does not work?

Device == {0, 1}
Byte == 0..255
Identity == [long : BOOLEAN, id : Byte \X Byte]

ASSUME ParameterAssumption ==
    /\ Ident \subseteq Identity /\ Installs \in Seq(Identity)
    /\ MaxDrivers \in Nat \ {0}
    /\ Interrupting \subseteq Device
    /\ Fallible \in BOOLEAN

None == -1

VARIABLES
    dev,      \* ps2_devices, with a history field
    ident,    \* ps2_devices[d].long_device_id and .device_id
    table,    \* ps2_device_drivers: the entries written so far
    amount,   \* ps2_device_drivers_amount
    todo,     \* drivers that main has yet to install
    pc,       \* main: the next access of ps2_install_device_driver
    reg,      \* main: the device_driver it has loaded
    flags,    \* main: the byte of flags it has loaded
    next,     \* the echo callback whose tick comes first
    silent,   \* devices from which no interrupt comes any more
    wild      \* a driver has been called through an entry never written:
              \* what the processor does after it is not modelled

vars == <<dev, ident, table, amount, todo, pc, reg, flags, next, silent,
          wild>>
mainVars == <<table, amount, todo, pc, reg, flags>>

Flags == [working : BOOLEAN, notFound : BOOLEAN, arrived : BOOLEAN,
          echoed : BOOLEAN]

\* "connected": the driver whose on_connect was called last.
DeviceRecord ==
    [working : BOOLEAN, notFound : BOOLEAN, arrived : BOOLEAN,
     echoed : BOOLEAN, driver : 0..Len(Installs),
     connected : None..Len(Installs)]

Start == <<"start", 0>>
Label == {Start, <<"count", 0>>} \cup
         {"compare", "load", "store", "fetch", "clear"} \X Device

TypeOK ==
    /\ dev \in [Device -> DeviceRecord]
    /\ ident \in [Device -> Ident]
    /\ table \in Seq(Identity)
    /\ amount \in 0..Len(Installs)
    /\ todo \in Seq(Identity)
    /\ pc \in Label
    /\ reg \in 0..Len(Installs)
    /\ flags \in Flags
    /\ next \in {"send", "check"}
    /\ silent \subseteq Device
    /\ wild \in BOOLEAN

\* What ps2_init leaves behind when at least one port works.
Init ==
    /\ dev \in [Device ->
          {[working |-> w, notFound |-> FALSE, arrived |-> FALSE,
            echoed |-> FALSE, driver |-> 0, connected |-> None] : w \in BOOLEAN}]
    /\ ident \in [Device -> Ident]
    /\ table = <<>> /\ amount = 0
    /\ todo = Installs /\ pc = Start
    /\ reg = 0
    /\ flags = [working |-> FALSE, notFound |-> FALSE, arrived |-> FALSE,
                echoed |-> FALSE]
    /\ next \in {"send", "check"}
    /\ silent = Device \ Interrupting
    /\ wild = FALSE

-----------------------------------------------------------------------------
(* Looking a driver up.                                                    *)

\* A driver with a long id that is the device's, else the first driver whose
\* id begins like the device's; amount if there is none.
FindIndex(id) ==
    LET exact == {i \in 0..amount - 1 :
                     id.long /\ table[i + 1].long /\ table[i + 1].id = id.id}
        partial == {i \in 0..amount - 1 : table[i + 1].id[1] = id.id[1]}
    IN  IF exact # {} THEN Min(exact)
        ELSE IF partial # {} THEN Min(partial) ELSE amount

\* ps2_device_find_driver: the device after the call; ok is on_connect's
\* answer.
FindDriver(d, ok) ==
    LET r == dev[d]
        i == FindIndex(ident[d])
    IN  CASE r.notFound \/ r.driver # amount -> r
          [] ~r.notFound /\ r.driver = amount /\ i = amount ->
               [r EXCEPT !.notFound = TRUE]
          [] OTHER ->
               [r EXCEPT !.driver = i, !.connected = i, !.working = ok]

\* ps2_device_drivers[r.driver] has never been written.
NoEntry(r) == r.driver >= Len(table)

Answers == IF Fallible THEN BOOLEAN ELSE {TRUE}

-----------------------------------------------------------------------------
(* The interrupts.                                                         *)

\* Mutation: devices that do not work are asked too.
SendEcho_AnyDevice(d, ok) ==
    LET r == FindDriver(d, ok)
    IN  IF r.notFound THEN r
        ELSE IF r.arrived THEN [r EXCEPT !.echoed = TRUE]
        ELSE [r EXCEPT !.echoed = FALSE]

\* One device's half of ps2_send_echo_intervaled_callback.
SendEcho(d, ok) ==
    LET r == FindDriver(d, ok)
    IN  IF ~dev[d].working THEN dev[d]
        ELSE IF r.notFound THEN r
        ELSE IF r.arrived THEN [r EXCEPT !.echoed = TRUE]
        ELSE [r EXCEPT !.echoed = FALSE]

SendEchoCallback ==
    /\ ~wild /\ next = "send" /\ next' = "check"
    /\ \E ok \in [Device -> Answers] :
          /\ dev' = [d \in Device |-> SendEcho(d, ok[d])]
          /\ wild' = \E d \in Device :
                LET r == FindDriver(d, ok[d])
                IN  dev[d].working /\ ~r.notFound /\ ~r.arrived /\ NoEntry(r)
    /\ UNCHANGED <<mainVars, ident, silent>>

\* The callback prints "device d did not echo back".
Complains(d) == ~dev[d].echoed /\ ~dev[d].notFound

\* Mutation: the devices heard of are not forgotten.
CheckEchoCallback_KeepsArrived ==
    /\ ~wild /\ next = "check" /\ next' = "send"
    /\ UNCHANGED <<mainVars, dev, ident, silent, wild>>

CheckEchoCallback ==
    /\ ~wild /\ next = "check" /\ next' = "send"
    /\ dev' = [d \in Device |-> [dev[d] EXCEPT !.arrived = FALSE]]
    /\ UNCHANGED <<mainVars, ident, silent, wild>>

\* ps2_handle_device_irq of a working device (of another it only prints the
\* byte).  The driver may find that the byte answers an echo request and
\* call ps2_declare_echo_success; its own answer is "alive".
DeviceIrq(d) ==
    /\ ~wild /\ d \notin silent /\ dev[d].working
    /\ \E ok, alive \in Answers, echo \in BOOLEAN :
          LET r == [FindDriver(d, ok) EXCEPT !.arrived = TRUE]
          IN  IF r.notFound
              THEN dev' = [dev EXCEPT ![d] = r] /\ UNCHANGED wild
              ELSE /\ wild' = NoEntry(r)
                   /\ dev' = [dev EXCEPT ![d] =
                         [r EXCEPT !.echoed = @ \/ echo,
                                   !.working = @ /\ alive]]
    /\ UNCHANGED <<mainVars, ident, next, silent>>

\* The device hangs or is unplugged (external).
FallSilent(d) ==
    /\ ~wild /\ d \notin silent
    /\ silent' = silent \cup {d}
    /\ UNCHANGED <<dev, ident, mainVars, next, wild>>

-----------------------------------------------------------------------------
(* main: ps2_install_device_driver.                                        *)

interruptVars == <<ident, next, silent, wild>>

Write ==
    /\ ~wild /\ pc = Start /\ todo # <<>>
    /\ todo' = Tail(todo)
    /\ IF amount >= MaxDrivers
       THEN UNCHANGED <<table, pc>>
       ELSE table' = Append(table, Head(todo)) /\ pc' = <<"compare", 0>>
    /\ UNCHANGED <<dev, amount, reg, flags, interruptVars>>

Compared(d) == IF d = 0 THEN <<"compare", 1>> ELSE <<"count", 0>>

\* Mutation: devices without a driver do not keep up with the amount.
Compare_Skips(d) ==
    /\ ~wild /\ pc = <<"compare", d>> /\ pc' = Compared(d)
    /\ UNCHANGED <<dev, table, amount, todo, reg, flags, interruptVars>>

\* The if statements in lines 567 and 568; the increment is a load and a
\* store.
Compare(d) ==
    /\ ~wild /\ pc = <<"compare", d>>
    /\ pc' = IF dev[d].driver = amount THEN <<"load", d>> ELSE Compared(d)
    /\ UNCHANGED <<dev, table, amount, todo, reg, flags, interruptVars>>

Load(d) ==
    /\ ~wild /\ pc = <<"load", d>> /\ pc' = <<"store", d>>
    /\ reg' = dev[d].driver
    /\ UNCHANGED <<dev, table, amount, todo, flags, interruptVars>>

\* Mutation: one too many.
Store_Twice(d) ==
    /\ ~wild /\ pc = <<"store", d>> /\ pc' = Compared(d)
    /\ dev' = [dev EXCEPT ![d].driver = reg + 2]
    /\ UNCHANGED <<table, amount, todo, reg, flags, interruptVars>>

Store(d) ==
    /\ ~wild /\ pc = <<"store", d>> /\ pc' = Compared(d)
    /\ dev' = [dev EXCEPT ![d].driver = reg + 1]
    /\ UNCHANGED <<table, amount, todo, reg, flags, interruptVars>>

Count ==
    /\ ~wild /\ pc = <<"count", 0>> /\ pc' = <<"fetch", 0>>
    /\ amount' = amount + 1
    /\ UNCHANGED <<dev, table, todo, reg, flags, interruptVars>>

\* device_driver_not_found is a bit: clearing it reads the byte of flags and
\* writes all of it back.
Fetch(d) ==
    /\ ~wild /\ pc = <<"fetch", d>> /\ pc' = <<"clear", d>>
    /\ flags' = [f \in DOMAIN flags |-> dev[d][f]]
    /\ UNCHANGED <<dev, table, amount, todo, reg, interruptVars>>

\* Mutation: the second line is a copy of the first.
Clear_FirstTwice(d) ==
    /\ ~wild /\ pc = <<"clear", d>>
    /\ pc' = IF d = 0 THEN <<"fetch", 1>> ELSE Start
    /\ dev' = [dev EXCEPT ![0].notFound = FALSE]
    /\ UNCHANGED <<table, amount, todo, reg, flags, interruptVars>>

Clear(d) ==
    /\ ~wild /\ pc = <<"clear", d>>
    /\ pc' = IF d = 0 THEN <<"fetch", 1>> ELSE Start
    /\ dev' = [dev EXCEPT ![d] =
          [@ EXCEPT !.working = flags.working, !.notFound = FALSE,
                    !.arrived = flags.arrived, !.echoed = flags.echoed]]
    /\ UNCHANGED <<table, amount, todo, reg, flags, interruptVars>>

Main ==
    \/ Write \/ Count
    \/ \E d \in Device :
          Compare(d) \/ Load(d) \/ Store(d) \/ Fetch(d) \/ Clear(d)

Next ==
    \/ Main \/ SendEchoCallback \/ CheckEchoCallback
    \/ \E d \in Device : DeviceIrq(d) \/ FallSilent(d)

\* main keeps running and the timer keeps ticking.
Fairness ==
    WF_vars(Main) /\ WF_vars(SendEchoCallback) /\ WF_vars(CheckEchoCallback)

Spec == Init /\ [][Next]_vars /\ Fairness

-----------------------------------------------------------------------------
(* Properties.                                                             *)

\* main has made the driver of d the entry it is about to count (lines 567 and
\* 568), and has not counted it yet (line 570).
Bumped(d) ==
    pc \in IF d = 0
           THEN {<<"compare", 1>>, <<"load", 1>>, <<"store", 1>>, <<"count", 0>>}
           ELSE {<<"count", 0>>}
Moved(d) == Bumped(d) /\ dev[d].driver = amount + 1

(* "ps2_device_drivers_amount if not set yet" (line 88): except between the *)
(* increment of its driver and that of the amount, the next interrupt of a  *)
(* device either looks for a driver or calls the one whose on_connect was   *)
(* called for it, whatever access of an install it comes at.                *)
CallsConnected ==
    \A d \in Device :
        dev[d].working /\ ~dev[d].notFound /\ dev[d].driver # amount =>
            dev[d].connected = dev[d].driver \/ Moved(d)

(* No driver is called through an empty entry of the table.                *)
NoWildCall == ~wild

(* ... and if one is, it is in that window, by a device that has not been   *)
(* searched a driver for in vain since the last install.                    *)
WildOnlyMoved ==
    [][wild' => wild \/ \E d \in Device : Moved(d) /\ ~dev[d].notFound]_vars

(* A device is left unserved only if no installed driver takes it: an      *)
(* install that races with a search leaves no stale not-found flag behind  *)
(* (line 572).                                                             *)
NotFoundJustified ==
    \A d \in Device :
        pc = Start /\ dev[d].notFound => FindIndex(ident[d]) = amount

(* "should return 1 if the device is not working" (ps2.h:18): a device that *)
(* its driver has declared broken stays broken, whatever searches, echoes  *)
(* and bytes come; only an install that had read its flags before brings    *)
(* it back to life (line 573).                                             *)
RevivedOnlyByWriteBack ==
    [][\A d \in Device :
          ~dev[d].working /\ ~(pc = <<"clear", d>> /\ flags.working) =>
              ~dev'[d].working]_vars

(* Every working device that one of the drivers takes gets a driver in the *)
(* end and keeps it, unless a wild call ends everything.                   *)
Served ==
    \A d \in Device :
        dev[d].working /\ (\E i \in DOMAIN Installs :
                              Installs[i].id[1] = ident[d].id[1])
            ~> [](wild \/ dev[d].driver < amount)

(* A device that hangs is reported: from some time on every check complains *)
(* about it, whatever it had sent before.                                  *)
SilenceReported ==
    \A d \in Device :
        d \in silent ~>
            [](next = "check" =>
                 wild \/ Complains(d) \/ dev[d].notFound \/ ~dev[d].working)
=============================================================================
