------------------------------ MODULE Ps2Init ------------------------------
(***************************************************************************)
(* ps2_init of ps2.c, which main runs with interrupts enabled: it sets the *)
(* controller up, tests it and its ports, and resets and identifies the    *)
(* device in each port.  A byte is written once the input buffer is empty  *)
(* and read once the output buffer is full, so a wait and the access after *)
(* it are one step.  The controller, the two devices, a user who types and *)
(* the keyboard interrupt run in parallel.  Bytes are hexadecimal strings; *)
(* the answer to 0x20 is "CC", whatever the configuration.                 *)
(***************************************************************************)
EXTENDS Naturals, Sequences

CONSTANTS
    FirstDevices, SecondDevices, \* what may be in the two ports
    Slow,      \* whether the controller may need more ticks than a time-out
    MaxStrikes \* bound: keys struck in the meantime

Device == {0, 1}

\* What a device answers to a reset, and its identity.
Behaviour ==
    [keyboard |-> [reset |-> <<"FA", "AA">>, id |-> <<"AB", "83">>],
     hasty    |-> [reset |-> <<"AA", "FA">>, id |-> <<"AB", "83">>],
     mouse    |-> [reset |-> <<"FA", "AA", "00">>, id |-> <<"00">>],
     broken   |-> [reset |-> <<"FA", "FC">>, id |-> <<"AB", "83">>],
     dead     |-> [reset |-> <<"FC">>, id |-> <<"AB", "83">>],
     silent   |-> [reset |-> <<>>, id |-> <<>>]]

ASSUME InitAssumption ==
    /\ FirstDevices \cup SecondDevices \subseteq DOMAIN Behaviour
    /\ Slow \in BOOLEAN /\ MaxStrikes \in Nat

Ack == "FA"
Key == "1C"
Empty == <<>> \* else <<who it is from or for, the byte>>
Chip == 2     \* the controller itself, beside devices 0 and 1

VARIABLES
    pc,      \* main's place in ps2_init, and the device it is busy with, the
             \* stage of a configuration, or what it has returned
    byte,    \* what ps2_send_byte is sending
    cc,      \* the local variable: interrupts, clocks, translation
    dual,    \* ps2_controller_is_dual
    dev,     \* ps2_devices
    ibf,     \* input buffer: a command or a data byte, until taken
    obf,     \* output buffer: who put a byte there, and the byte
    prefix,  \* the command whose data byte the controller expects
    config,  \* the controller's configuration
    queue,   \* bytes each device has to send
    hw,      \* the hardware found: ports, devices, outcomes of the tests
    strikes, \* the number of keys struck
    cut      \* history: the device and byte of every ps2_send_byte that has
             \* timed out

mainVars == <<pc, byte, cc, dual, dev>>
vars == <<mainVars, ibf, obf, prefix, config, queue, hw, strikes, cut>>

Byte == {"FA", "AA", "FC", "00", "01", "55", "AB", "83", Key, "CC", "none"}
Config == [int : [Device -> BOOLEAN], clock : [Device -> BOOLEAN],
           translation : BOOLEAN]
Hardware ==
    [first : FirstDevices, second : SecondDevices, dual : BOOLEAN,
     test : BOOLEAN, port : [Device -> BOOLEAN]]
Kind(d) == Behaviour[IF d = 0 THEN hw.first ELSE hw.second]

Init ==
    /\ pc = <<"disable", 1>> /\ byte = "none"
    /\ hw \in {h \in Hardware : h.dual \/ ~h.port[1]}
    /\ config \in {c \in Config : c.clock = [d \in Device |-> d = 0 \/ hw.dual]}
    /\ cc = config /\ dual = FALSE
    /\ dev = [d \in Device |->
                 [port_working |-> FALSE, device_working |-> FALSE,
                  timed_out |-> FALSE, long_device_id |-> FALSE,
                  device_id |-> [i \in Device |-> "00"],
                  reset_response |-> "00"]]
    /\ ibf = Empty /\ prefix = "none"
    /\ obf \in {Empty, <<0, Key>>}
    /\ queue = [d \in Device |-> <<>>]
    /\ strikes = 0 /\ cut = {}

-----------------------------------------------------------------------------
(* The accesses, and where main goes from one device to the next.          *)

Command(c) == ibf = Empty /\ ibf' = <<"command", c>>
Data(b) == ibf = Empty /\ ibf' = <<"data", b>>
Read == obf # Empty /\ obf' = Empty

\* A place in ps2_init, and the start of a ps2_send_byte.
At(label, d) == [pc |-> <<label, d>>, byte |-> "none"]
Send(b, d) == [pc |-> <<IF d = 1 THEN "announce" ELSE "send", d>>, byte |-> b]
Go(place) == pc' = place.pc /\ byte' = place.byte

Reenable(dv) == At("reenable", IF dv[0].port_working THEN 0 ELSE 1)
Reset(dv) == Send("FF", IF dv[0].port_working THEN 0 ELSE 1)
AfterIdentify(d, dv) ==
    IF d = 0 /\ dv[1].device_working THEN Send("F5", 1) ELSE At("ask", "irqs")
Identify(dv) ==
    IF dv[0].device_working THEN Send("F5", 0) ELSE AfterIdentify(0, dv)
AfterReset(d, dv) ==
    IF d = 0 /\ dv[1].port_working THEN Send("FF", 1) ELSE Identify(dv)

-----------------------------------------------------------------------------
(* Setting up and testing the controller.                                  *)

\* ps2_send_cmd at a place in ps2_init.
SendCmd(label, c, next) == pc[1] = label /\ Command(c) /\ Go(next)

\* The commands that ps2_init gives; ps2_disable_port and the like choose
\* theirs by the port.
ControllerCommand ==
    LET d == pc[2]
    IN  /\ \/ SendCmd("disable", IF d = 1 THEN "A7" ELSE "AD",
                      IF d = 1 THEN At("disable", 0) ELSE At("flush", 0))
           \/ SendCmd("ask", "20", At("get", d))
           \/ SendCmd("write", "60", At("argument", d))
           \/ SendCmd("self_test", "AA", At("test_result", 0))
           \/ SendCmd("second_port", "A8", At("ask", "channels"))
           \/ SendCmd("redisable", "A7", At("write", "channels"))
           \/ SendCmd("test_port", IF d = 0 THEN "AB" ELSE "A9",
                      At("port_result", d))
           \/ SendCmd("reenable", IF d = 0 THEN "AE" ELSE "A8",
                      IF d = 0 /\ dev[1].port_working THEN At("reenable", 1)
                                                      ELSE Reset(dev))
           \/ SendCmd("announce", "D4", [pc |-> <<"send", 1>>, byte |-> byte])
        /\ UNCHANGED <<cc, dual, dev, obf>>

\* Mutation: the output buffer is not flushed.
Flush_Not ==
    /\ pc[1] = "flush"
    /\ Go(At("ask", "setup"))
    /\ UNCHANGED <<cc, dual, dev, ibf, obf>>

\* The byte is read without a wait, whether there is one or not.
Flush ==
    /\ pc[1] = "flush"
    /\ obf' = Empty
    /\ Go(At("ask", "setup"))
    /\ UNCHANGED <<cc, dual, dev, ibf>>

SetBits ==
    [b \in Byte |->
        CASE b = "FA" -> {1, 3, 4, 5, 6, 7} [] b = "AA" -> {1, 3, 5, 7}
          [] b = "FC" -> 2..7 [] b = "55" -> {0, 2, 4, 6} [] b = "01" -> {0}
          [] b = "AB" -> {0, 1, 3, 5, 7} [] b = "83" -> {0, 1, 7}
          [] b = Key -> {2, 3, 4} [] OTHER -> {}]

\* The byte taken for struct ps2_controller_config.
AsConfig(b) ==
    IF b = "CC" THEN config
    ELSE [int |-> [d \in Device |-> d \in SetBits[b]],
          clock |-> [d \in Device |-> d + 4 \notin SetBits[b]],
          translation |-> 6 \in SetBits[b]]

\* How ps2_init changes the configuration it has read, in three stages.
\* Mutation: the first port's interrupt stays on.
Setup_KeepsInterrupt(c) ==
    [c EXCEPT !.translation = FALSE, !.clock[0] = TRUE]

Setup(c) ==
    [c EXCEPT !.int[0] = FALSE, !.translation = FALSE, !.clock[0] = TRUE]

Channels(c) == IF c.clock[1] THEN [c EXCEPT !.int[1] = FALSE] ELSE c

\* Mutation: interrupts are enabled for the devices that answered.
Irqs_WorkingDevices(c) ==
    [c EXCEPT !.int = [d \in Device |-> @[d] \/ dev[d].device_working]]

Irqs(c) == [c EXCEPT !.int = [d \in Device |-> @[d] \/ dev[d].port_working]]

GetConfig ==
    /\ pc[1] = "get" /\ Read
    /\ LET c == AsConfig(obf[2])
       IN  cc' = CASE pc[2] = "setup" -> Setup(c)
                   [] pc[2] = "channels" -> Channels(c)
                   [] pc[2] = "irqs" -> Irqs(c)
    /\ dual' = IF pc[2] = "channels" THEN cc'.clock[1] ELSE dual
    /\ Go(IF pc[2] # "channels" THEN At("write", pc[2])
          ELSE IF dual' THEN At("redisable", 1) ELSE At("test_port", 0))
    /\ UNCHANGED <<dev, ibf>>

WriteArgument ==
    /\ pc[1] = "argument"
    /\ Data("CC")
    /\ Go(CASE pc[2] = "setup" -> At("self_test", 0)
            [] pc[2] = "channels" -> At("test_port", 0)
            [] pc[2] = "irqs" -> At("done", 0))
    /\ UNCHANGED <<cc, dual, dev, obf>>

TestResult ==
    /\ pc[1] = "test_result" /\ Read
    /\ IF obf[2] = "55" THEN Go(At("second_port", 1))
                          ELSE Go(At("done", 1))
    /\ UNCHANGED <<cc, dual, dev, ibf>>

PortResult ==
    /\ pc[1] = "port_result" /\ Read
    /\ dev' = [dev EXCEPT ![pc[2]].port_working = obf[2] = "00",
                          ![pc[2]].device_working = obf[2] = "00"]
    /\ IF pc[2] = 0 /\ dual THEN Go(At("test_port", 1))
       ELSE IF \E d \in Device : dev'[d].port_working
            THEN Go(Reenable(dev'))
            ELSE Go(At("done", 2))
    /\ UNCHANGED <<cc, dual, ibf>>

-----------------------------------------------------------------------------
(* Resetting and identifying the devices.                                  *)

SendByte ==
    /\ pc[1] = "send"
    /\ Data(byte)
    /\ Go([pc |-> <<IF byte = "FF" THEN "response" ELSE "ack", pc[2]>>,
           byte |-> byte])
    /\ UNCHANGED <<cc, dual, dev, obf>>

Marked(d) ==
    [dev EXCEPT ![d].device_working = FALSE, ![d].timed_out = TRUE]

\* Mutation: always the first device, as for the identity.
ResetTimedOut_First(d) == Marked(0)

\* The mark of ps2_reset_device.
ResetTimedOut(d) == Marked(d)

\* The mark of ps2_get_device_id: the first device's, whichever is asked.
IdentityTimedOut == Marked(0)

\* The input buffer has been full for as long as ps2_send_byte waits.
SendByteTimesOut ==
    /\ pc[1] = "send" /\ Slow /\ ibf # Empty
    /\ dev' = IF byte = "FF" THEN ResetTimedOut(pc[2]) ELSE IdentityTimedOut
    /\ cut' = cut \cup {<<pc[2], byte>>}
    /\ Go(IF byte = "FF" THEN AfterReset(pc[2], dev')
                         ELSE AfterIdentify(pc[2], dev'))
    /\ UNCHANGED <<cc, dual, ibf, obf>>

\* ps2_reset_device's first and second response.
Response ==
    /\ pc[1] = "response" /\ Read
    /\ IF obf[2] \in {"FA", "AA"}
       THEN /\ dev' = [dev EXCEPT ![pc[2]].reset_response = obf[2]]
            /\ Go(At("second_response", pc[2]))
       ELSE /\ dev' = [dev EXCEPT ![pc[2]].reset_response = obf[2],
                                  ![pc[2]].device_working = FALSE]
            /\ Go(AfterReset(pc[2], dev'))
    /\ UNCHANGED <<cc, dual, ibf>>

SecondResponse ==
    /\ pc[1] = "second_response" /\ Read
    /\ IF obf[2] \in {"FA", "AA"} \ {dev[pc[2]].reset_response}
       THEN Go(At("flush_id", pc[2])) /\ UNCHANGED dev
       ELSE /\ dev' = [dev EXCEPT ![pc[2]].device_working = FALSE]
            /\ Go(AfterReset(pc[2], dev'))
    /\ UNCHANGED <<cc, dual, ibf>>

\* The two ticks of a time-out are enough for a device to send what it has.
Settled == obf # Empty \/ \A d \in Device : config.clock[d] => queue[d] = <<>>

\* A wait that looks at the input buffer's bit, as in ps2_get_device_id.
FlushId ==
    /\ pc[1] = "flush_id"
    /\ IF ibf = Empty THEN Settled /\ Go(AfterReset(pc[2], dev)) /\ UNCHANGED obf
                      ELSE obf' = Empty /\ UNCHANGED <<pc, byte>>
    /\ UNCHANGED <<cc, dual, dev, ibf>>

\* One round of ps2_wait_for_ack.
WaitForAck ==
    /\ pc[1] = "ack" /\ Read
    /\ Go(IF obf[2] # Ack THEN [pc |-> pc, byte |-> byte]
          ELSE CASE byte = "F5" -> Send("F2", pc[2])
                 [] byte = "F2" -> At("id", pc[2])
                 [] byte = "F4" -> AfterIdentify(pc[2], dev))
    /\ UNCHANGED <<cc, dual, dev, ibf>>

FirstIdByte ==
    /\ pc[1] = "id" /\ Read
    /\ dev' = [dev EXCEPT ![pc[2]].device_id[0] = obf[2]]
    /\ Go(At("second_id_byte", pc[2]))
    /\ UNCHANGED <<cc, dual, ibf>>

\* Mutation: the second byte of the id is waited for without a limit.
SecondIdByte_NoLimit ==
    /\ pc[1] = "second_id_byte" /\ Read
    /\ dev' = [dev EXCEPT ![pc[2]].long_device_id = TRUE,
                          ![pc[2]].device_id[1] = obf[2]]
    /\ Go(Send("F4", pc[2]))
    /\ UNCHANGED <<cc, dual, ibf>>

SecondIdByte ==
    /\ pc[1] = "second_id_byte"
    /\ IF ibf = Empty THEN Settled /\ UNCHANGED <<dev, obf>>
       ELSE \E b \in IF obf = Empty THEN Byte \ {"none"} ELSE {obf[2]} :
            /\ dev' = [dev EXCEPT ![pc[2]].long_device_id = TRUE,
                                  ![pc[2]].device_id[1] = b]
            /\ obf' = Empty
    /\ Go(Send("F4", pc[2]))
    /\ UNCHANGED <<cc, dual, ibf>>

-----------------------------------------------------------------------------
(* The controller, the devices, the user and the interrupt.                *)

\* Commands that the controller answers wait for an empty output buffer.
Answer(c) ==
    CASE c = "20" -> "CC"
      [] c = "AA" -> IF hw.test THEN "55" ELSE "FC"
      [] c = "AB" -> IF hw.port[0] THEN "00" ELSE "01"
      [] c = "A9" -> IF hw.port[1] THEN "00" ELSE "01"

Clocked(d, on) == [config EXCEPT !.clock[d] = on]

TakeCommand ==
    /\ ibf # Empty /\ ibf[1] = "command" /\ ibf' = Empty
    /\ IF ibf[2] \in {"20", "AA", "AB", "A9"}
       THEN obf = Empty /\ obf' = <<Chip, Answer(ibf[2])>>
       ELSE UNCHANGED obf
    /\ prefix' = IF ibf[2] \in {"60", "D4"} THEN ibf[2] ELSE "none"
    /\ config' = CASE ibf[2] = "AD" -> Clocked(0, FALSE)
                   [] ibf[2] = "AE" -> Clocked(0, TRUE)
                   [] ibf[2] = "A7" -> Clocked(1, FALSE)
                   [] ibf[2] = "A8" -> Clocked(1, hw.dual)
                   [] OTHER -> config
    /\ UNCHANGED queue

\* A device drops what it had to send when it is reset.
Replied(d, b) ==
    IF Kind(d).reset = <<>> THEN queue[d]
    ELSE CASE b = "FF" -> Kind(d).reset
           [] b = "F2" -> queue[d] \o <<Ack>> \o Kind(d).id
           [] OTHER -> Append(queue[d], Ack)

TakeData ==
    /\ ibf # Empty /\ ibf[1] = "data" /\ ibf' = Empty /\ prefix' = "none"
    /\ IF prefix = "60"
       THEN config' = [cc EXCEPT !.clock[1] = @ /\ hw.dual] /\ UNCHANGED queue
       ELSE LET d == IF prefix = "D4" THEN 1 ELSE 0
            IN  queue' = [queue EXCEPT ![d] = Replied(d, ibf[2])]
                /\ UNCHANGED config
    /\ UNCHANGED obf

Controller == (TakeCommand \/ TakeData) /\ UNCHANGED <<mainVars, hw, strikes, cut>>

\* A port with a clock passes a byte on.
DeviceSends(d) ==
    /\ obf = Empty /\ config.clock[d] /\ queue[d] # <<>>
    /\ obf' = <<d, Head(queue[d])>>
    /\ queue' = [queue EXCEPT ![d] = Tail(@)]
    /\ UNCHANGED <<mainVars, ibf, prefix, config, hw, strikes, cut>>

\* A key is struck on the first device.
Strike ==
    /\ strikes < MaxStrikes /\ pc[1] # "done" /\ Kind(0).reset # <<>>
    /\ strikes' = strikes + 1
    /\ queue' = [queue EXCEPT ![0] = Append(@, Key)]
    /\ UNCHANGED <<mainVars, ibf, obf, prefix, config, hw, cut>>

\* irq1_handler takes the byte; no driver is installed yet.
Irq1 ==
    /\ obf # Empty /\ obf[1] # 1 /\ config.int[0] /\ config.clock[0]
    /\ obf' = Empty
    /\ UNCHANGED <<mainVars, ibf, prefix, config, queue, hw, strikes, cut>>

Main ==
    /\ \/ ControllerCommand \/ Flush \/ GetConfig \/ WriteArgument
       \/ TestResult \/ PortResult \/ SendByte \/ Response \/ SecondResponse
       \/ FlushId \/ WaitForAck \/ FirstIdByte \/ SecondIdByte
    /\ UNCHANGED <<prefix, config, queue, hw, strikes, cut>>
TimeOut == SendByteTimesOut /\ UNCHANGED <<prefix, config, queue, hw, strikes>>

Next == Main \/ TimeOut \/ Controller \/ (\E d \in Device : DeviceSends(d))
            \/ Strike \/ Irq1

\* Main polls, the controller takes what it is given, the devices send.
Fairness ==
    /\ WF_vars(Main) /\ WF_vars(Controller)
    /\ \A d \in Device : WF_vars(DeviceSends(d))

Spec == Init /\ [][Next]_vars
FairSpec == Spec /\ Fairness

-----------------------------------------------------------------------------
(* Properties.                                                             *)

\* Nobody typed and nothing timed out.
Undisturbed == strikes = 0 /\ cut = {}

Returned(r) == pc[1] = "done" /\ pc[2] = r
Working(d) == hw.port[d] /\ Kind(d).reset # <<>> /\ ~\E i \in 1..2 :
                  i <= Len(Kind(d).reset) /\ Kind(d).reset[i] = "FC"

\* ps2_init fails exactly when the controller or both ports fail their test.
\* Otherwise device_working says of each device whether it passed its tests,
\* and the first byte of a working device's id is its own, although bytes of
\* earlier answers, its own and the other device's, come in between.
Identified ==
    pc[1] = "done" /\ Undisturbed =>
        /\ Returned(1) <=> ~hw.test
        /\ Returned(2) <=> hw.test /\ ~\E d \in Device : hw.port[d]
        /\ Returned(0) => \A d \in Device :
              /\ dev[d].device_working <=> Working(d)
              /\ Working(d) => dev[d].device_id[0] = Kind(d).id[1]

\* When the last configuration has been taken, a port interrupts exactly
\* when it works, has its clock, and nothing is translated any more.
Configured ==
    Returned(0) /\ ibf = Empty /\ Undisturbed =>
        \A d \in Device :
            /\ (d = 0 \/ dual) => config.int[d] = hw.port[d]
            /\ hw.port[d] => config.clock[d]
            /\ ~config.translation

Waiting ==
    pc[1] \in {"get", "test_result", "port_result", "response",
               "second_response", "ack", "id"}

\* The interrupt handler never takes a byte that main waits for.
AnswersKept == [][Irq1 /\ Undisturbed => ~Waiting]_vars

\* A device that is too slow to be reset, and the first one if it is too slow
\* for anything, is marked itself, however the other one fares.
TimeoutsNoted ==
    pc[1] = "done" =>
        \A e \in cut : e[2] = "FF" \/ e[1] = 0 => dev[e[1]].timed_out

\* ps2_init returns when the devices in the ports that work answer.
InitEnds ==
    (\A d \in Device : hw.port[d] => Kind(d).reset # <<>>)
        ~> (pc[1] = "done" \/ ~Undisturbed)

\* "disable devices' ports so that they won't send data during
\* initialization" (ps2.c:425).
PortsSilent ==
    pc[1] \in {"self_test", "test_result", "test_port", "port_result"} =>
        ~(obf # Empty /\ obf[1] \in Device)
=============================================================================
