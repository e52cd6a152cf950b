--------------------------- MODULE Ps2Init_proofs ---------------------------
(***************************************************************************)
(* ps2_init, for all devices in the two ports.  Three inductive            *)
(* invariants: Order follows main through the set-up, for the theorem that *)
(* the interrupt handler takes no byte that main waits for; the first      *)
(* port's clock is off until its interrupt is, and that stays off until    *)
(* the last configuration is written.  Noted, for the time-outs, needs to  *)
(* know what main sends and to whom, but not when.  Course is about what   *)
(* main finds out: what is under way at each place, and what the variables *)
(* say of the hardware by then.                                            *)
(***************************************************************************)
EXTENDS Ps2Init, Integers, SequenceTheorems, TLAPS

-----------------------------------------------------------------------------
(* Where main is.                                                          *)

ResetLabel ==
    {"reenable", "announce", "send", "response", "second_response",
     "flush_id", "ack", "id", "second_id_byte"}

\* A place from the enabling of the ports to the last configuration, and the
\* byte that ps2_send_byte has to send there.
ResetPlace(p, b) ==
    \/ /\ p[1] \in ResetLabel /\ p[2] \in Device
       /\ p[1] \in {"announce", "send"} => b \in {"FF", "F5", "F2", "F4"}
       /\ p[1] = "ack" => b \in {"F5", "F2", "F4"}
    \/ p = <<"ask", "irqs">> \/ p = <<"get", "irqs">>

Fits(place) == ResetPlace(place.pc, place.byte)

FinalPlace(p) ==
    p = <<"write", "irqs">> \/ p = <<"argument", "irqs">> \/ p[1] = "done"

LEMMA SendPlace ==
    ASSUME NEW d \in Device, NEW b \in {"FF", "F5", "F2", "F4"}
    PROVE  Fits(Send(b, d))
  BY DEF Fits, ResetPlace, ResetLabel, Send, Device

LEMMA AskPlace == Fits(At("ask", "irqs"))
  BY DEF Fits, ResetPlace, At

LEMMA AfterIdentifyPlace ==
    ASSUME NEW d, NEW dv
    PROVE  Fits(AfterIdentify(d, dv))
<1>1. AfterIdentify(d, dv) \in {Send("F5", 1), At("ask", "irqs")}
  BY Zenon DEF AfterIdentify
<1>2. 1 \in Device
  BY DEF Device
<1>3. Fits(Send("F5", 1))
  BY <1>2, SendPlace
<1> QED
  BY <1>1, <1>3, AskPlace

LEMMA AfterResetPlace ==
    ASSUME NEW d, NEW dv
    PROVE  Fits(AfterReset(d, dv))
<1>1. 0 \in Device /\ 1 \in Device
  BY DEF Device
<1>2. Fits(Send("FF", 1)) /\ Fits(Send("F5", 0))
  BY <1>1, SendPlace
<1>3. Identify(dv) \in {Send("F5", 0), AfterIdentify(0, dv)}
  BY Zenon DEF Identify
<1>4. Fits(Identify(dv))
  BY <1>2, <1>3, AfterIdentifyPlace
<1>5. AfterReset(d, dv) \in {Send("FF", 1), Identify(dv)}
  BY Zenon DEF AfterReset
<1> QED
  BY <1>2, <1>4, <1>5

LEMMA ResetStarts ==
    ASSUME NEW dv
    PROVE  Fits(Reset(dv)) /\ \A b : ResetPlace(Reenable(dv).pc, b)
<1>1. 0 \in Device /\ 1 \in Device
  BY DEF Device
<1>2. Reset(dv) \in {Send("FF", 0), Send("FF", 1)}
  BY Zenon DEF Reset
<1>3. Fits(Send("FF", 0)) /\ Fits(Send("FF", 1))
  BY <1>1, SendPlace
<1>4. Reenable(dv).pc \in {<<"reenable", 0>>, <<"reenable", 1>>}
  BY DEF Reenable, At
<1>5. \A b : ResetPlace(<<"reenable", 0>>, b) /\ ResetPlace(<<"reenable", 1>>, b)
  BY <1>1 DEF ResetPlace, ResetLabel
<1> QED
  BY <1>2, <1>3, <1>4, <1>5

-----------------------------------------------------------------------------
(* The inductive invariants.                                               *)

\* The controller has yet to take command c, or to disable the first port.
Taking(c) == ibf = <<"command", c>>
Silenced == Taking("AD") \/ (ibf = Empty /\ config.clock[0] = FALSE)

\* The answer to c is to come, or waits to be read.
Answering(c) ==
    \/ Taking(c) /\ obf = Empty
    \/ /\ ibf = Empty /\ prefix = "none"
       /\ obf # Empty /\ obf[1] = Chip /\ obf[2] = Answer(c)

\* The controller knows that the next byte is a configuration, or will.
Announced == Taking("60") \/ (ibf = Empty /\ prefix = "60")

\* It has a configuration without the first port's interrupt, or will.
Given ==
    \/ ibf = <<"data", "CC">> /\ prefix = "60" /\ cc.int[0] = FALSE
    \/ ibf = Empty /\ config.int[0] = FALSE

Disabling ==
    \/ pc = <<"disable", 1>> /\ ibf = Empty
    \/ pc = <<"disable", 0>> /\ (ibf = Empty \/ Taking("A7"))
    \/ pc = <<"flush", 0>> /\ Silenced
    \/ pc = <<"ask", "setup">> /\ Silenced /\ obf = Empty
    \/ pc = <<"get", "setup">> /\ config.clock[0] = FALSE /\ Answering("20")
    \/ /\ config.clock[0] = FALSE /\ cc.int[0] = FALSE /\ obf = Empty
       /\ \/ pc = <<"write", "setup">> /\ ibf = Empty
          \/ pc = <<"argument", "setup">> /\ Announced

Testing ==
    \/ pc = <<"self_test", 0>> /\ Given /\ obf = Empty
    \/ pc = <<"test_port", 0>> /\ Given /\ obf = Empty
    \/ /\ config.int[0] = FALSE
       /\ \/ pc = <<"test_result", 0>> /\ Answering("AA")
          \/ pc = <<"second_port", 1>> /\ ibf = Empty /\ obf = Empty
          \/ /\ pc = <<"ask", "channels">> /\ obf = Empty
             /\ ibf = Empty \/ Taking("A8")
          \/ pc = <<"get", "channels">> /\ Answering("20")
          \/ pc = <<"port_result", 0>> /\ Answering("AB")
          \/ pc = <<"port_result", 1>> /\ Answering("A9")
          \/ pc = <<"test_port", 1>> /\ ibf = Empty /\ obf = Empty
          \/ /\ cc.int[0] = FALSE /\ obf = Empty
             /\ \/ pc = <<"redisable", 1>> /\ ibf = Empty
                \/ /\ pc = <<"write", "channels">>
                   /\ ibf = Empty \/ Taking("A7")
                \/ pc = <<"argument", "channels">> /\ Announced

\* A configuration has been announced.
Reconfigures == ibf # Empty /\ ibf[1] = "command" /\ ibf[2] = "60"

Resetting ==
    /\ ResetPlace(pc, byte)
    /\ config.int[0] = FALSE /\ prefix # "60" /\ ~Reconfigures

\* Before the ports are enabled no device has anything to send.
SettingUp ==
    /\ Disabling \/ Testing
    /\ config \in Config /\ cc \in Config
    /\ \A d \in Device : queue[d] = <<>>

Order ==
    /\ hw \in Hardware /\ strikes \in Nat
    /\ strikes = 0 =>
          SettingUp \/ (Resetting /\ config \in Config) \/ FinalPlace(pc)

LEMMA InitOrder == Init => Order
<1> SUFFICES ASSUME Init PROVE Order
  OBVIOUS
<1>1. /\ pc = <<"disable", 1>> /\ ibf = Empty /\ cc = config
      /\ \A d \in Device : queue[d] = <<>>
      /\ hw \in Hardware /\ config \in Config /\ strikes = 0
  BY DEF Init
<1> QED
  BY <1>1 DEF Order, SettingUp, Disabling

-----------------------------------------------------------------------------
(* The steps of main.                                                      *)

\* What main leaves to the controller, the devices and the user.
Beyond == <<prefix, config, queue, hw, strikes, cut>>

LEMMA PairsAreFull == \A x, y : <<x, y>> # Empty
  BY DEF Empty

LEMMA FreshOrder ==
    ASSUME Order, UNCHANGED <<hw, strikes>>,
           strikes = 0 =>
              \/ SettingUp'
              \/ (Resetting /\ config \in Config)'
              \/ FinalPlace(pc)'
    PROVE  Order'
  BY DEF Order

\* The places, one by one.
LEMMA SetUpPlaces ==
    ASSUME Disabling \/ Testing
    PROVE  pc \in {<<"disable", 1>>, <<"disable", 0>>, <<"flush", 0>>,
                   <<"ask", "setup">>, <<"get", "setup">>, <<"write", "setup">>,
                   <<"argument", "setup">>, <<"self_test", 0>>,
                   <<"test_result", 0>>, <<"second_port", 1>>,
                   <<"ask", "channels">>, <<"get", "channels">>,
                   <<"redisable", 1>>, <<"write", "channels">>,
                   <<"argument", "channels">>, <<"test_port", 0>>,
                   <<"port_result", 0>>, <<"test_port", 1>>,
                   <<"port_result", 1>>}
  BY DEF Disabling, Testing

LEMMA CommandDoes ==
    ASSUME ControllerCommand
    PROVE  /\ ibf = Empty /\ UNCHANGED <<cc, obf, dev>>
           /\ \/ /\ pc[1] = "disable"
                 /\ ibf' = <<"command", IF pc[2] = 1 THEN "A7" ELSE "AD">>
                 /\ pc' = IF pc[2] = 1 THEN <<"disable", 0>> ELSE <<"flush", 0>>
              \/ /\ pc[1] = "ask" /\ ibf' = <<"command", "20">>
                 /\ pc' = <<"get", pc[2]>>
              \/ /\ pc[1] = "write" /\ ibf' = <<"command", "60">>
                 /\ pc' = <<"argument", pc[2]>>
              \/ /\ pc[1] = "self_test" /\ ibf' = <<"command", "AA">>
                 /\ pc' = <<"test_result", 0>>
              \/ /\ pc[1] = "second_port" /\ ibf' = <<"command", "A8">>
                 /\ pc' = <<"ask", "channels">>
              \/ /\ pc[1] = "redisable" /\ ibf' = <<"command", "A7">>
                 /\ pc' = <<"write", "channels">>
              \/ /\ pc[1] = "test_port"
                 /\ ibf' = <<"command", IF pc[2] = 0 THEN "AB" ELSE "A9">>
                 /\ pc' = <<"port_result", pc[2]>>
              \/ /\ pc[1] = "reenable"
                 /\ ibf' = <<"command", IF pc[2] = 0 THEN "AE" ELSE "A8">>
                 /\ \/ pc' = <<"reenable", 1>>
                    \/ pc' = Reset(dev).pc /\ byte' = Reset(dev).byte
              \/ /\ pc[1] = "announce" /\ ibf' = <<"command", "D4">>
                 /\ pc' = <<"send", 1>> /\ byte' = byte
  BY DEF ControllerCommand, SendCmd, Command, Go, At

LEMMA CommandStep ==
    ASSUME Order, ControllerCommand, UNCHANGED Beyond
    PROVE  Order'
<1>1. UNCHANGED <<prefix, config, queue, hw, strikes>>
  BY DEF Beyond
<1> SUFFICES ASSUME strikes = 0
             PROVE  \/ SettingUp'
                    \/ (Resetting /\ config \in Config)'
                    \/ FinalPlace(pc)'
  BY <1>1, FreshOrder
<1>2. ibf = Empty /\ UNCHANGED <<cc, obf>>
  BY CommandDoes
<1>3. CASE SettingUp
  <2>1. Disabling \/ Testing
    BY <1>3 DEF SettingUp
  <2>2. SettingUp' <=> Disabling' \/ Testing'
    BY <1>1, <1>2, <1>3 DEF SettingUp
  <2>3. CASE pc[1] = "disable"
    BY <1>1, <1>2, <2>1, <2>2, <2>3, CommandDoes, SetUpPlaces
       DEF Disabling, Taking, Silenced
  <2>4. CASE pc[1] = "ask"
    BY <1>1, <1>2, <2>1, <2>2, <2>4, CommandDoes, SetUpPlaces,
       PairsAreFull DEF Disabling, Testing, Taking, Silenced, Answering
  <2>5. CASE pc[1] = "write"
    BY <1>1, <1>2, <2>1, <2>2, <2>5, CommandDoes, SetUpPlaces
       DEF Disabling, Testing, Taking, Announced
  <2>6. CASE pc[1] = "self_test"
    BY <1>1, <1>2, <2>1, <2>2, <2>6, CommandDoes, SetUpPlaces,
       PairsAreFull DEF Disabling, Testing, Taking, Given, Answering
  <2>7. CASE pc[1] = "second_port"
    BY <1>1, <1>2, <2>1, <2>2, <2>7, CommandDoes, SetUpPlaces
       DEF Disabling, Testing, Taking
  <2>8. CASE pc[1] = "redisable"
    BY <1>1, <1>2, <2>1, <2>2, <2>8, CommandDoes, SetUpPlaces
       DEF Disabling, Testing, Taking
  <2>9. CASE pc[1] = "test_port"
    BY <1>1, <1>2, <2>1, <2>2, <2>9, CommandDoes, SetUpPlaces,
       PairsAreFull DEF Disabling, Testing, Taking, Given, Answering
  <2>10. pc[1] # "reenable" /\ pc[1] # "announce"
    BY <2>1, SetUpPlaces
  <2> QED
    BY <2>3, <2>4, <2>5, <2>6, <2>7, <2>8, <2>9, <2>10, CommandDoes
<1>4. CASE Resetting /\ config \in Config
  <2>1. ResetPlace(pc, byte) /\ UNCHANGED config
    BY <1>1, <1>4 DEF Resetting
  <2>2. ResetPlace(Reset(dev).pc, Reset(dev).byte)
    BY ResetStarts DEF Fits
  <2>3. ~Reconfigures'
    BY <2>1, CommandDoes DEF ResetPlace, ResetLabel, Reconfigures
  <2>4. ResetPlace(pc, byte)'
    BY <2>1, <2>2, CommandDoes DEF ResetPlace, ResetLabel, Device
  <2> QED
    BY <1>1, <1>4, <2>3, <2>4 DEF Resetting
<1>5. CASE FinalPlace(pc)
  <2>1. pc' = <<"argument", "irqs">>
    BY <1>5, CommandDoes DEF FinalPlace
  <2> QED
    BY <2>1 DEF FinalPlace
<1> QED
  BY <1>3, <1>4, <1>5 DEF Order

LEMMA FlushStep ==
    ASSUME Order, Flush, UNCHANGED Beyond
    PROVE  Order'
<1>1. UNCHANGED <<prefix, config, queue, hw, strikes>>
  BY DEF Beyond
<1> SUFFICES ASSUME strikes = 0
             PROVE  SettingUp'
  BY <1>1, FreshOrder
<1>2. /\ pc[1] = "flush" /\ pc' = <<"ask", "setup">> /\ obf' = Empty
      /\ UNCHANGED <<cc, ibf>>
  BY DEF Flush, Go, At
<1>3. SettingUp
  BY <1>2 DEF Order, Resetting, ResetPlace, ResetLabel, FinalPlace
<1>4. pc = <<"flush", 0>> /\ Silenced
  BY <1>2, <1>3, SetUpPlaces DEF SettingUp, Disabling, Testing
<1>5. Silenced' /\ Disabling'
  BY <1>1, <1>2, <1>4 DEF Silenced, Taking, Disabling
<1> QED
  BY <1>1, <1>2, <1>3, <1>5 DEF SettingUp

LEMMA Setups ==
    ASSUME NEW c \in Config
    PROVE  /\ Setup(c) \in Config /\ Setup(c).int[0] = FALSE
           /\ Channels(c) \in Config
           /\ c.int[0] = FALSE => Channels(c).int[0] = FALSE
<1>1. /\ c.int \in [Device -> BOOLEAN] /\ c.clock \in [Device -> BOOLEAN]
      /\ c.translation \in BOOLEAN
  BY DEF Config
<1>2. /\ 0 \in Device /\ 1 \in Device /\ FALSE \in BOOLEAN /\ TRUE \in BOOLEAN
      /\ 0 # 1
  BY DEF Device
<1>3. Setup(c) \in Config /\ Setup(c).int[0] = FALSE
  <2> DEFINE i == [c.int EXCEPT ![0] = FALSE]
             k == [c.clock EXCEPT ![0] = TRUE]
  <2>1. i \in [Device -> BOOLEAN] /\ i[0] = FALSE
        /\ k \in [Device -> BOOLEAN]
    BY <1>1, <1>2
  <2>2. Setup(c) = [int |-> i, clock |-> k, translation |-> FALSE]
    <3>1. c = [int |-> c.int, clock |-> c.clock, translation |-> c.translation]
      BY DEF Config
    <3>2. Setup(c) = [c EXCEPT !.int = i, !.translation = FALSE, !.clock = k]
      BY DEF Setup
    <3> HIDE DEF i, k
    <3> QED
      BY <3>1, <3>2
  <2> HIDE DEF i, k
  <2> QED
    BY <1>2, <2>1, <2>2 DEF Config
<1>4. Channels(c) \in Config /\ (c.int[0] = FALSE => Channels(c).int[0] = FALSE)
  <2> DEFINE i == [c.int EXCEPT ![1] = FALSE]
             e == [int |-> i, clock |-> c.clock, translation |-> c.translation]
  <2>1. i \in [Device -> BOOLEAN] /\ i[0] = c.int[0]
    BY <1>1, <1>2
  <2>2. Channels(c) = IF c.clock[1] THEN e ELSE c
    <3>1. c = [int |-> c.int, clock |-> c.clock, translation |-> c.translation]
      BY DEF Config
    <3>2. Channels(c) = IF c.clock[1] THEN [c EXCEPT !.int = i] ELSE c
      BY DEF Channels
    <3> HIDE DEF i
    <3>3. [c EXCEPT !.int = i] = e
      BY <3>1
    <3> QED
      BY <3>2, <3>3
  <2> HIDE DEF i
  <2>3. e \in Config /\ e.int[0] = c.int[0]
    BY <1>1, <2>1 DEF Config
  <2> HIDE DEF e
  <2> QED
    BY <2>2, <2>3
<1> QED
  BY <1>3, <1>4

LEMMA GetConfigStep ==
    ASSUME Order, GetConfig, UNCHANGED Beyond
    PROVE  Order'
<1>1. UNCHANGED <<prefix, config, queue, hw, strikes>>
  BY DEF Beyond
<1> SUFFICES ASSUME strikes = 0
             PROVE  SettingUp' \/ FinalPlace(pc)'
  BY <1>1, FreshOrder
<1>2. pc[1] = "get" /\ obf # Empty /\ obf' = Empty /\ UNCHANGED ibf
  BY DEF GetConfig, Read
<1>3. pc' = IF pc[2] # "channels" THEN <<"write", pc[2]>>
            ELSE IF dual' THEN <<"redisable", 1>> ELSE <<"test_port", 0>>
  BY DEF GetConfig, Go, At
<1>4. CASE SettingUp
  <2>1. /\ config \in Config
        /\ \/ pc = <<"get", "setup">> /\ config.clock[0] = FALSE
           \/ pc = <<"get", "channels">> /\ config.int[0] = FALSE
        /\ ibf = Empty /\ obf[2] = Answer("20")
    BY <1>2, <1>4, SetUpPlaces
       DEF SettingUp, Disabling, Testing, Answering
  <2>2. AsConfig(obf[2]) = config
    BY <2>1 DEF AsConfig, Answer
  <2>3. CASE pc = <<"get", "setup">> /\ config.clock[0] = FALSE
    <3>1. cc' = Setup(config)
      BY <2>2, <2>3 DEF GetConfig
    <3>2. cc' \in Config /\ cc'.int[0] = FALSE
      BY <2>1, <3>1, Setups
    <3>3. pc' = <<"write", "setup">>
      BY <1>3, <2>3
    <3>4. Disabling'
      BY <1>1, <1>2, <2>1, <2>3, <3>2, <3>3 DEF Disabling
    <3> QED
      BY <1>1, <1>4, <3>2, <3>4 DEF SettingUp
  <2>4. CASE pc = <<"get", "channels">> /\ config.int[0] = FALSE
    <3>1. cc' = Channels(config)
      BY <2>2, <2>4 DEF GetConfig
    <3>2. cc' \in Config /\ cc'.int[0] = FALSE
      BY <2>1, <2>4, <3>1, Setups
    <3>3. pc' = <<"redisable", 1>> \/ pc' = <<"test_port", 0>>
      BY <1>3, <2>4
    <3>4. Testing'
      BY <1>1, <1>2, <2>1, <2>4, <3>2, <3>3 DEF Testing, Given
    <3> QED
      BY <1>1, <1>4, <3>2, <3>4 DEF SettingUp
  <2> QED
    BY <2>1, <2>3, <2>4
<1>5. CASE Resetting
  BY <1>2, <1>3, <1>5 DEF Resetting, ResetPlace, ResetLabel, FinalPlace
<1>6. ~FinalPlace(pc)
  BY <1>2 DEF FinalPlace
<1> QED
  BY <1>4, <1>5, <1>6 DEF Order

LEMMA WriteArgumentStep ==
    ASSUME Order, WriteArgument, UNCHANGED Beyond
    PROVE  Order'
<1>1. UNCHANGED <<prefix, config, queue, hw, strikes>>
  BY DEF Beyond
<1> SUFFICES ASSUME strikes = 0
             PROVE  SettingUp' \/ FinalPlace(pc)'
  BY <1>1, FreshOrder
<1>2. /\ pc[1] = "argument" /\ ibf = Empty /\ ibf' = <<"data", "CC">>
      /\ UNCHANGED <<cc, obf>>
  BY DEF WriteArgument, Data
<1>3. /\ pc[2] = "setup" => pc' = <<"self_test", 0>>
      /\ pc[2] = "channels" => pc' = <<"test_port", 0>>
      /\ pc[2] = "irqs" => pc' = <<"done", 0>>
  BY DEF WriteArgument, Go, At
<1>4. CASE SettingUp
  <2>1. /\ pc = <<"argument", "setup">> \/ pc = <<"argument", "channels">>
        /\ prefix = "60" /\ cc.int[0] = FALSE /\ obf = Empty
    BY <1>2, <1>4, SetUpPlaces, PairsAreFull
       DEF SettingUp, Disabling, Testing, Announced, Taking
  <2>2. pc' = <<"self_test", 0>> \/ pc' = <<"test_port", 0>>
    BY <1>3, <2>1
  <2>3. Testing'
    BY <1>1, <1>2, <2>1, <2>2 DEF Testing, Given
  <2> QED
    BY <1>1, <1>2, <1>4, <2>3 DEF SettingUp
<1>5. CASE FinalPlace(pc)
  BY <1>2, <1>3, <1>5 DEF FinalPlace
<1>6. ~Resetting
  BY <1>2 DEF Resetting, ResetPlace, ResetLabel
<1> QED
  BY <1>4, <1>5, <1>6 DEF Order

LEMMA TestResultStep ==
    ASSUME Order, TestResult, UNCHANGED Beyond
    PROVE  Order'
<1>1. UNCHANGED <<prefix, config, queue, hw, strikes>>
  BY DEF Beyond
<1> SUFFICES ASSUME strikes = 0
             PROVE  SettingUp' \/ FinalPlace(pc)'
  BY <1>1, FreshOrder
<1>2. /\ pc[1] = "test_result" /\ obf # Empty /\ obf' = Empty
      /\ pc' = <<"second_port", 1>> \/ pc' = <<"done", 1>>
      /\ UNCHANGED <<cc, ibf>>
  BY DEF TestResult, Read, Go, At
<1>3. SettingUp
  BY <1>2 DEF Order, Resetting, ResetPlace, ResetLabel, FinalPlace
<1>4. config.int[0] = FALSE /\ ibf = Empty
  BY <1>2, <1>3, SetUpPlaces DEF SettingUp, Disabling, Testing, Answering
<1>5. CASE pc' = <<"second_port", 1>>
  <2>1. Testing'
    BY <1>1, <1>2, <1>4, <1>5 DEF Testing
  <2> QED
    BY <1>1, <1>2, <1>3, <2>1 DEF SettingUp
<1>6. CASE pc' = <<"done", 1>>
  BY <1>6 DEF FinalPlace
<1> QED
  BY <1>2, <1>5, <1>6

LEMMA PortResultStep ==
    ASSUME Order, PortResult, UNCHANGED Beyond
    PROVE  Order'
<1>1. UNCHANGED <<prefix, config, queue, hw, strikes>>
  BY DEF Beyond
<1> SUFFICES ASSUME strikes = 0
             PROVE  \/ SettingUp'
                    \/ (Resetting /\ config \in Config)'
                    \/ FinalPlace(pc)'
  BY <1>1, FreshOrder
<1>2. /\ pc[1] = "port_result" /\ obf # Empty /\ obf' = Empty
      /\ \/ pc' = <<"test_port", 1>> \/ pc' = Reenable(dev').pc
         \/ pc' = <<"done", 2>>
      /\ UNCHANGED <<cc, ibf>>
  BY DEF PortResult, Read, Go, At
<1>3. SettingUp
  BY <1>2 DEF Order, Resetting, ResetPlace, ResetLabel, FinalPlace
<1>4. config.int[0] = FALSE /\ ibf = Empty /\ prefix = "none"
  BY <1>2, <1>3, SetUpPlaces DEF SettingUp, Disabling, Testing, Answering
<1>5. CASE pc' = <<"test_port", 1>>
  <2>1. Testing'
    BY <1>1, <1>2, <1>4, <1>5 DEF Testing
  <2> QED
    BY <1>1, <1>2, <1>3, <2>1 DEF SettingUp
<1>6. CASE pc' = Reenable(dev').pc
  <2>1. ResetPlace(pc, byte)'
    BY <1>6, ResetStarts
  <2>2. ~Reconfigures'
    BY <1>2, <1>4 DEF Reconfigures
  <2> QED
    BY <1>1, <1>3, <1>4, <2>1, <2>2 DEF Resetting, SettingUp
<1>7. CASE pc' = <<"done", 2>>
  BY <1>7 DEF FinalPlace
<1> QED
  BY <1>2, <1>5, <1>6, <1>7

\* The resets and identifications.
LEMMA ResetMove ==
    ASSUME Order, UNCHANGED <<prefix, config, queue, hw, strikes>>,
           pc[1] \in ResetLabel,
           ResetPlace(pc, byte) => ResetPlace(pc', byte'),
           UNCHANGED ibf \/ \E b : ibf' = <<"data", b>>
    PROVE  Order'
<1> SUFFICES ASSUME strikes = 0
             PROVE  (Resetting /\ config \in Config)'
  BY FreshOrder
<1>1. ~SettingUp /\ ~FinalPlace(pc)
  BY SetUpPlaces DEF SettingUp, FinalPlace, ResetLabel
<1>2. Resetting /\ config \in Config
  BY <1>1 DEF Order
<1> QED
  BY <1>2 DEF Resetting, Reconfigures

LEMMA GoFits ==
    ASSUME NEW place, Fits(place), Go(place)
    PROVE  ResetPlace(pc', byte')
  BY DEF Fits, Go

LEMMA WaitForAckPlace ==
    ASSUME WaitForAck, ResetPlace(pc, byte)
    PROVE  ResetPlace(pc', byte')
<1>1. pc[1] = "ack" /\ pc[2] \in Device /\ byte \in {"F5", "F2", "F4"}
  BY DEF WaitForAck, ResetPlace, ResetLabel
<1>2. CASE obf[2] # Ack
  <2>1. pc' = pc /\ byte' = byte
    BY <1>2 DEF WaitForAck, Go
  <2> QED
    BY <2>1
<1>3. CASE obf[2] = Ack /\ byte = "F5"
  <2>1. Go(Send("F2", pc[2]))
    BY <1>3 DEF WaitForAck
  <2> QED
    BY <1>1, <2>1, SendPlace, GoFits
<1>4. CASE obf[2] = Ack /\ byte = "F2"
  <2>1. Go(At("id", pc[2]))
    BY <1>4 DEF WaitForAck
  <2> QED
    BY <1>1, <2>1 DEF Go, At, ResetPlace, ResetLabel
<1>5. CASE obf[2] = Ack /\ byte = "F4"
  <2>1. Go(AfterIdentify(pc[2], dev))
    BY <1>5 DEF WaitForAck
  <2> QED
    BY <2>1, AfterIdentifyPlace, GoFits
<1> QED
  BY <1>1, <1>2, <1>3, <1>4, <1>5

\* A step of the resets and identifications leads to such a place again.
LEMMA ResetPlaces ==
    ASSUME ResetPlace(pc, byte),
           SendByte \/ Response \/ SecondResponse \/ FlushId \/ WaitForAck
              \/ FirstIdByte \/ SecondIdByte
    PROVE  ResetPlace(pc', byte')
<1>1. CASE SendByte
  <2>1. /\ pc[1] = "send" /\ byte' = byte
        /\ pc' = <<IF byte = "FF" THEN "response" ELSE "ack", pc[2]>>
    BY <1>1 DEF SendByte, Go
  <2> QED
    BY <2>1 DEF ResetLabel, ResetPlace
<1>2. CASE Response
  <2>1. /\ pc[1] = "response"
        /\ pc' = <<"second_response", pc[2]>> \/ Go(AfterReset(pc[2], dev'))
    BY <1>2 DEF Response, Go, At
  <2> QED
    BY <2>1, AfterResetPlace, GoFits DEF ResetLabel, ResetPlace
<1>3. CASE SecondResponse
  <2>1. /\ pc[1] = "second_response"
        /\ pc' = <<"flush_id", pc[2]>> \/ Go(AfterReset(pc[2], dev'))
    BY <1>3 DEF SecondResponse, Go, At
  <2> QED
    BY <2>1, AfterResetPlace, GoFits DEF ResetLabel, ResetPlace
<1>4. CASE FlushId
  <2>1. Go(AfterReset(pc[2], dev)) \/ UNCHANGED <<pc, byte>>
    BY <1>4 DEF FlushId
  <2> QED
    BY <2>1, AfterResetPlace, GoFits
<1>5. CASE WaitForAck
  BY <1>5, WaitForAckPlace
<1>6. CASE FirstIdByte
  <2>1. pc[1] = "id" /\ pc' = <<"second_id_byte", pc[2]>>
    BY <1>6 DEF FirstIdByte, Go, At
  <2> QED
    BY <2>1 DEF ResetLabel, ResetPlace
<1>7. CASE SecondIdByte
  <2>1. pc[1] = "second_id_byte" /\ Go(Send("F4", pc[2]))
    BY <1>7 DEF SecondIdByte
  <2> QED
    BY <2>1, SendPlace, GoFits DEF ResetLabel, ResetPlace
<1> QED
  BY <1>1, <1>2, <1>3, <1>4, <1>5, <1>6, <1>7

LEMMA ResetStep ==
    ASSUME Order, UNCHANGED Beyond,
           SendByte \/ Response \/ SecondResponse \/ FlushId \/ WaitForAck
              \/ FirstIdByte \/ SecondIdByte
    PROVE  Order'
<1>1. UNCHANGED <<prefix, config, queue, hw, strikes>>
  BY DEF Beyond
<1>2. pc[1] \in ResetLabel
  BY DEF SendByte, Response, SecondResponse, FlushId, WaitForAck,
         FirstIdByte, SecondIdByte, ResetLabel
<1>3. UNCHANGED ibf \/ \E b : ibf' = <<"data", b>>
  BY DEF SendByte, Data, Response, SecondResponse, FlushId, WaitForAck,
         FirstIdByte, SecondIdByte
<1> QED
  BY <1>1, <1>2, <1>3, ResetPlaces, ResetMove

-----------------------------------------------------------------------------
(* The controller, the devices, the user and the interrupt.                *)

LEMMA ClockedConfig ==
    ASSUME config \in Config, NEW d \in Device, NEW on \in BOOLEAN
    PROVE  /\ Clocked(d, on) \in Config
           /\ Clocked(d, on).int = config.int
           /\ Clocked(d, on).clock[d] = on
  BY DEF Clocked, Config

LEMMA TakeCommandDoes ==
    ASSUME TakeCommand, config \in Config, hw \in Hardware
    PROVE  /\ ibf # Empty /\ ibf[1] = "command" /\ ibf' = Empty
           /\ UNCHANGED queue
           /\ prefix' = IF ibf[2] \in {"60", "D4"} THEN ibf[2] ELSE "none"
           /\ config' \in Config /\ config'.int = config.int
           /\ ibf[2] = "AD" => config'.clock[0] = FALSE
           /\ ibf[2] \in {"20", "AA", "AB", "A9", "60"} => config' = config
           /\ ibf[2] \in {"20", "AA", "AB", "A9"} =>
                 obf' = <<Chip, Answer(ibf[2])>>
           /\ ibf[2] \notin {"20", "AA", "AB", "A9"} => UNCHANGED obf
<1>1. hw.dual \in BOOLEAN /\ 0 \in Device /\ 1 \in Device
      /\ TRUE \in BOOLEAN /\ FALSE \in BOOLEAN
  BY DEF Hardware, Device
<1>2. config' \in {config, Clocked(0, FALSE), Clocked(0, TRUE),
                   Clocked(1, FALSE), Clocked(1, hw.dual)}
      /\ (ibf[2] = "AD" => config' = Clocked(0, FALSE))
      /\ (ibf[2] \in {"20", "AA", "AB", "A9", "60"} => config' = config)
  BY DEF TakeCommand
<1>3. config' \in Config /\ config'.int = config.int
      /\ (ibf[2] = "AD" => config'.clock[0] = FALSE)
  BY <1>1, <1>2, ClockedConfig
<1> QED
  BY <1>2, <1>3 DEF TakeCommand

LEMMA TakeCommandStep ==
    ASSUME Order, TakeCommand, UNCHANGED <<mainVars, hw, strikes>>
    PROVE  Order'
<1>1. UNCHANGED <<pc, byte, cc, hw, strikes>>
  BY DEF mainVars
<1> SUFFICES ASSUME strikes = 0
             PROVE  \/ SettingUp'
                    \/ (Resetting /\ config \in Config)'
                    \/ FinalPlace(pc)'
  BY <1>1, FreshOrder
<1>2. hw \in Hardware
  BY DEF Order
<1>3. CASE SettingUp
  <2>1. /\ config \in Config /\ cc \in Config
        /\ \A d \in Device : queue[d] = <<>>
        /\ Disabling \/ Testing
    BY <1>3 DEF SettingUp
  <2>2. /\ ibf # Empty /\ ibf[1] = "command" /\ ibf' = Empty
        /\ UNCHANGED queue
        /\ prefix' = IF ibf[2] \in {"60", "D4"} THEN ibf[2] ELSE "none"
        /\ config' \in Config /\ config'.int = config.int
        /\ ibf[2] = "AD" => config'.clock[0] = FALSE
        /\ ibf[2] \in {"20", "AA", "AB", "A9", "60"} => config' = config
        /\ ibf[2] \in {"20", "AA", "AB", "A9"} =>
              obf' = <<Chip, Answer(ibf[2])>>
        /\ ibf[2] \notin {"20", "AA", "AB", "A9"} => UNCHANGED obf
    BY <1>2, <2>1, TakeCommandDoes
  <2>3. \A c \in {"20", "AA", "AB", "A9"} :
           Answering(c) => Answering(c)' /\ ibf[2] = c
    <3> SUFFICES ASSUME NEW c \in {"20", "AA", "AB", "A9"}, Answering(c)
                 PROVE  Answering(c)' /\ ibf[2] = c
      OBVIOUS
    <3>1. ibf = <<"command", c>>
      BY <2>2 DEF Answering, Taking
    <3>2. obf' = <<Chip, Answer(c)>> /\ prefix' = "none"
      BY <2>2, <3>1
    <3>3. Answer(c)' = Answer(c)
      BY <1>1 DEF Answer
    <3> QED
      BY <2>2, <3>1, <3>2, <3>3, PairsAreFull DEF Answering
  <2>4. Announced => Announced' /\ ibf[2] = "60"
    BY <2>2 DEF Announced, Taking
  <2>5. Silenced => Silenced' /\ ibf[2] = "AD"
    BY <2>2 DEF Silenced, Taking
  <2>6. ~Given
    BY <2>2 DEF Given
  <2>7. CASE Disabling
    <3>1. Disabling'
      BY <1>1, <2>2, <2>3, <2>4, <2>5, <2>7 DEF Disabling, Taking
    <3> QED
      BY <1>1, <2>1, <2>2, <3>1 DEF SettingUp
  <2>8. CASE Testing
    <3>1. Testing'
      BY <1>1, <2>2, <2>3, <2>4, <2>6, <2>8 DEF Testing, Taking
    <3> QED
      BY <1>1, <2>1, <2>2, <3>1 DEF SettingUp
  <2> QED
    BY <2>1, <2>7, <2>8
<1>4. CASE Resetting /\ config \in Config
  <2>1. /\ ibf # Empty /\ ibf[1] = "command" /\ ibf' = Empty
        /\ prefix' = IF ibf[2] \in {"60", "D4"} THEN ibf[2] ELSE "none"
        /\ config' \in Config /\ config'.int = config.int
    BY <1>2, <1>4, TakeCommandDoes
  <2>2. ibf[2] # "60"
    BY <1>4, <2>1 DEF Resetting, Reconfigures
  <2>3. ~Reconfigures'
    BY <2>1 DEF Reconfigures
  <2> QED
    BY <1>1, <1>4, <2>1, <2>2, <2>3 DEF Resetting
<1>5. CASE FinalPlace(pc)
  BY <1>1, <1>5
<1> QED
  BY <1>3, <1>4, <1>5 DEF Order

LEMMA TakeDataStep ==
    ASSUME Order, TakeData, UNCHANGED <<mainVars, hw, strikes>>
    PROVE  Order'
<1>1. UNCHANGED <<pc, byte, cc, hw, strikes>>
  BY DEF mainVars
<1> SUFFICES ASSUME strikes = 0
             PROVE  \/ SettingUp'
                    \/ (Resetting /\ config \in Config)'
                    \/ FinalPlace(pc)'
  BY <1>1, FreshOrder
<1>2. /\ ibf # Empty /\ ibf[1] = "data" /\ ibf' = Empty
      /\ UNCHANGED obf /\ prefix' = "none"
  BY DEF TakeData
<1>3. CASE SettingUp
  <2>1. /\ cc \in Config /\ \A d \in Device : queue[d] = <<>>
        /\ Disabling \/ Testing
    BY <1>3 DEF SettingUp
  <2>2. ~Taking("A7") /\ ~Taking("A8") /\ ~Silenced /\ ~Answering("20")
        /\ ~Answering("AA") /\ ~Answering("AB") /\ ~Answering("A9")
        /\ ~Announced
    BY <1>2 DEF Taking, Silenced, Answering, Announced
  <2>3. /\ pc = <<"self_test", 0>> \/ pc = <<"test_port", 0>>
        /\ Given /\ obf = Empty
    BY <1>2, <2>1, <2>2 DEF Disabling, Testing
  <2>4. prefix = "60" /\ cc.int[0] = FALSE
    BY <1>2, <2>3 DEF Given
  <2>5. config' = [cc EXCEPT !.clock[1] = @ /\ hw.dual] /\ UNCHANGED queue
    BY <2>4 DEF TakeData
  <2>6. config' \in Config /\ config'.int[0] = FALSE
    <3>1. (cc.clock[1] /\ hw.dual) \in BOOLEAN
      BY Zenon
    <3> DEFINE on == cc.clock[1] /\ hw.dual
    <3>2. config' = [cc EXCEPT !.clock[1] = on]
      BY <2>5
    <3> HIDE DEF on
    <3>3. on \in BOOLEAN
      BY <3>1 DEF on
    <3> QED
      BY <2>1, <2>4, <3>2, <3>3 DEF Config, Device
  <2>7. Testing'
    BY <1>1, <1>2, <2>3, <2>6 DEF Testing, Given
  <2> QED
    BY <1>1, <2>1, <2>5, <2>6, <2>7 DEF SettingUp
<1>4. CASE Resetting /\ config \in Config
  <2>1. prefix # "60"
    BY <1>4 DEF Resetting
  <2>2. UNCHANGED config
    BY <2>1 DEF TakeData
  <2> QED
    BY <1>1, <1>2, <1>4, <2>2 DEF Resetting, Reconfigures
<1>5. CASE FinalPlace(pc)
  BY <1>1, <1>5
<1> QED
  BY <1>3, <1>4, <1>5 DEF Order

LEMMA DeviceSendsStep ==
    ASSUME Order, NEW d \in Device, DeviceSends(d)
    PROVE  Order'
<1>1. UNCHANGED <<pc, byte, cc, ibf, prefix, config, hw, strikes>>
      /\ queue[d] # <<>>
  BY DEF DeviceSends, mainVars
<1> SUFFICES ASSUME strikes = 0
             PROVE  (Resetting /\ config \in Config)' \/ FinalPlace(pc)'
  BY <1>1, FreshOrder
<1>2. ~SettingUp
  BY <1>1 DEF SettingUp
<1> QED
  BY <1>1, <1>2 DEF Order, Resetting, Reconfigures

LEMMA StrikeStep ==
    ASSUME Order, Strike
    PROVE  Order'
  BY DEF Order, Strike

LEMMA Irq1Step ==
    ASSUME Order, Irq1
    PROVE  Order'
<1>1. /\ UNCHANGED <<pc, byte, cc, ibf, prefix, config, queue, hw, strikes>>
      /\ obf # Empty /\ obf' = Empty /\ config.int[0] /\ config.clock[0]
  BY DEF Irq1, mainVars
<1> SUFFICES ASSUME strikes = 0
             PROVE  \/ SettingUp'
                    \/ (Resetting /\ config \in Config)'
                    \/ FinalPlace(pc)'
  BY <1>1, FreshOrder
<1>2. CASE SettingUp
  <2>1. Disabling \/ Testing
    BY <1>2 DEF SettingUp
  <2>2. ~Testing
    BY <1>1 DEF Testing, Given
  <2>3. \/ pc = <<"disable", 1>> /\ ibf = Empty
        \/ pc = <<"disable", 0>> /\ (ibf = Empty \/ Taking("A7"))
        \/ pc = <<"flush", 0>> /\ Silenced
    BY <1>1, <2>1, <2>2 DEF Disabling
  <2>4. Disabling'
    BY <1>1, <2>3 DEF Disabling, Silenced, Taking
  <2> QED
    BY <1>1, <1>2, <2>4 DEF SettingUp
<1>3. CASE (Resetting /\ config \in Config) \/ FinalPlace(pc)
  BY <1>1, <1>3 DEF Resetting, Reconfigures
<1> QED
  BY <1>2, <1>3 DEF Order

LEMMA TimeOutStep ==
    ASSUME Order, TimeOut
    PROVE  Order'
<1>1. /\ UNCHANGED <<prefix, config, queue, hw, strikes>> /\ SendByteTimesOut
  BY DEF TimeOut
<1>2. /\ pc[1] = "send" /\ UNCHANGED ibf
      /\ \/ Go(AfterReset(pc[2], dev')) \/ Go(AfterIdentify(pc[2], dev'))
  BY <1>1 DEF SendByteTimesOut
<1>3. ResetPlace(pc', byte')
  BY <1>2, AfterResetPlace, AfterIdentifyPlace, GoFits
<1> QED
  BY <1>1, <1>2, <1>3, ResetMove DEF ResetLabel

LEMMA NextOrder == Order /\ [Next]_vars => Order'
<1> SUFFICES ASSUME Order, [Next]_vars PROVE Order'
  OBVIOUS
<1>1. CASE Main
  <2>1. UNCHANGED Beyond
    BY <1>1 DEF Main, Beyond
  <2> QED
    BY <1>1, <2>1, CommandStep, FlushStep, GetConfigStep, WriteArgumentStep,
       TestResultStep, PortResultStep, ResetStep DEF Main
<1>2. CASE TimeOut
  BY <1>2, TimeOutStep
<1>3. CASE Controller
  BY <1>3, TakeCommandStep, TakeDataStep DEF Controller
<1>4. CASE \E d \in Device : DeviceSends(d)
  BY <1>4, DeviceSendsStep
<1>5. CASE Strike
  BY <1>5, StrikeStep
<1>6. CASE Irq1
  BY <1>6, Irq1Step
<1>7. CASE UNCHANGED vars
  <2>1. UNCHANGED <<pc, byte, cc, ibf, obf, prefix, config, queue, hw, strikes>>
    BY <1>7 DEF vars, mainVars
  <2> QED
    BY <2>1 DEF Order, SettingUp, Disabling, Testing, Silenced, Given, Taking,
       Answering, Answer, Announced, Resetting, Reconfigures
<1> QED
  BY <1>1, <1>2, <1>3, <1>4, <1>5, <1>6, <1>7 DEF Next

(* Where main is says what the controller holds, for all devices, whatever *)
(* the tests find and whenever a port passes something on: as long as no   *)
(* key is struck, the first port's interrupt or its clock is off from the  *)
(* first answer that main waits for to the last (ps2.c:418-547).           *)
THEOREM SetUpInOrder == Spec => []Order
  BY InitOrder, NextOrder, PTL DEF Spec

LEMMA Irq1Kept ==
    ASSUME Order, Irq1, Undisturbed
    PROVE  ~Waiting
<1>1. /\ obf # Empty /\ config.int[0] /\ config.clock[0]
      /\ SettingUp \/ Resetting \/ FinalPlace(pc)
  BY DEF Order, Irq1, Undisturbed
<1>2. CASE Disabling
  BY <1>1, <1>2 DEF Disabling, Waiting
<1>3. CASE Testing
  BY <1>1, <1>3 DEF Testing, Given, Waiting
<1>4. CASE Resetting
  BY <1>1, <1>4 DEF Resetting
<1>5. CASE FinalPlace(pc)
  BY <1>5 DEF FinalPlace, Waiting
<1> QED
  BY <1>1, <1>2, <1>3, <1>4, <1>5 DEF SettingUp

(* irq1_handler takes no byte that main waits for (ps2.c:425-466), for all *)
(* devices in the ports, if nobody types and nothing times out.            *)
THEOREM AnswersAreKept == Spec => AnswersKept
<1>1. Order /\ [Next]_vars => [Irq1 /\ Undisturbed => ~Waiting]_vars
  BY Irq1Kept
<1> QED
  BY <1>1, SetUpInOrder, PTL DEF Spec, AnswersKept
-----------------------------------------------------------------------------
(* A time-out is noted, whether or not somebody types.                     *)

Field == {"port_working", "device_working", "timed_out", "long_device_id",
          "device_id", "reset_response"}
Entries(dv) == DOMAIN dv = Device /\ \A d \in Device : DOMAIN dv[d] = Field

\* dw is as complete as dv, and marks every device that dv marks.
StaysMarked(dv, dw) ==
    Entries(dw) /\ \A d \in Device :
        dv[d].timed_out = TRUE => dw[d].timed_out = TRUE

\* Main is at a stage of a configuration, or busy with a device.
Placed(p, b) ==
    /\ p[1] \in ResetLabel => ResetPlace(p, b)
    /\ p[1] \in {"ask", "get", "write", "argument"} =>
          p[2] \in {"setup", "channels", "irqs"}

\* Whoever has let the ps2_send_byte of a reset wait is marked, and the first
\* device if it has let any wait.
Noted ==
    /\ Placed(pc, byte)
    /\ Entries(dev)
    /\ \A e \in cut :
          /\ e[1] \in Device
          /\ e[2] = "FF" \/ e[1] = 0 => dev[e[1]].timed_out = TRUE

LEMMA InitNoted == Init => Noted
<1> SUFFICES ASSUME Init PROVE Noted
  OBVIOUS
<1>1. pc[1] = "disable" /\ cut = {}
  BY DEF Init
<1>2. Entries(dev)
  BY DEF Init, Entries, Field
<1> QED
  BY <1>1, <1>2 DEF Noted, Placed, ResetLabel

\* What ps2_init writes into an entry.
LEMMA MarksStay ==
    ASSUME NEW dv, Entries(dv), NEW p, NEW v, NEW w
    PROVE  /\ StaysMarked(dv, dv)
           /\ StaysMarked(dv, [dv EXCEPT ![p].port_working = v,
                                         ![p].device_working = w])
           /\ StaysMarked(dv, [dv EXCEPT ![p].reset_response = v])
           /\ StaysMarked(dv, [dv EXCEPT ![p].device_working = FALSE])
           /\ StaysMarked(dv, [dv EXCEPT ![p].reset_response = v,
                                         ![p].device_working = FALSE])
           /\ StaysMarked(dv, [dv EXCEPT ![p].device_id[0] = v])
           /\ StaysMarked(dv, [dv EXCEPT ![p].long_device_id = TRUE,
                                         ![p].device_id[1] = v])
<1>1. StaysMarked(dv, dv)
  BY DEF StaysMarked
<1>2. StaysMarked(dv, [dv EXCEPT ![p].port_working = v, ![p].device_working = w])
  BY DEF StaysMarked, Entries, Field
<1>3. StaysMarked(dv, [dv EXCEPT ![p].reset_response = v])
  BY DEF StaysMarked, Entries, Field
<1>4. StaysMarked(dv, [dv EXCEPT ![p].device_working = FALSE])
  BY DEF StaysMarked, Entries, Field
<1>5. StaysMarked(dv, [dv EXCEPT ![p].reset_response = v,
                                 ![p].device_working = FALSE])
  BY DEF StaysMarked, Entries, Field
<1>6. StaysMarked(dv, [dv EXCEPT ![p].device_id[0] = v])
  BY DEF StaysMarked, Entries, Field
<1>7. StaysMarked(dv, [dv EXCEPT ![p].long_device_id = TRUE,
                                 ![p].device_id[1] = v])
  BY DEF StaysMarked, Entries, Field
<1> QED
  BY <1>1, <1>2, <1>3, <1>4, <1>5, <1>6, <1>7

LEMMA TimedOutMarks ==
    ASSUME Entries(dev), NEW d \in Device
    PROVE  StaysMarked(dev, Marked(d)) /\ Marked(d)[d].timed_out = TRUE
  BY DEF StaysMarked, Entries, Field, Marked

\* A step that marks nobody new.
LEMMA NotedKept ==
    ASSUME Noted, UNCHANGED cut, StaysMarked(dev, dev'), Placed(pc', byte')
    PROVE  Noted'
  BY DEF Noted, StaysMarked

LEMMA SetUpNoted ==
    ASSUME Noted, UNCHANGED cut,
           ControllerCommand \/ Flush \/ GetConfig \/ WriteArgument
              \/ TestResult \/ PortResult
    PROVE  Noted'
<1>1. Entries(dev) /\ StaysMarked(dev, dev)
  BY MarksStay DEF Noted
<1>2. CASE ControllerCommand
  <2>1. UNCHANGED dev
    BY <1>2, CommandDoes
  <2>2. ResetPlace(Reset(dev).pc, Reset(dev).byte)
    BY ResetStarts DEF Fits
  <2>3. \A b : ResetPlace(<<"reenable", 1>>, b)
    BY DEF ResetPlace, ResetLabel, Device
  <2>4. pc[1] = "announce" => ResetPlace(<<"send", 1>>, byte)
    BY DEF Noted, Placed, ResetPlace, ResetLabel, Device
  <2>5. pc[1] \in {"ask", "write"} => pc[2] \in {"setup", "channels", "irqs"}
    BY DEF Noted, Placed
  <2>6. Placed(Reset(dev).pc, Reset(dev).byte)
    BY <2>2 DEF Placed, ResetPlace, ResetLabel
  <2>7. Placed(pc', byte')
    BY <1>2, <2>3, <2>4, <2>5, <2>6, CommandDoes DEF Placed, ResetLabel
  <2> QED
    BY <1>1, <2>1, <2>7, NotedKept
<1>3. CASE Flush
  <2>1. UNCHANGED dev /\ pc' = <<"ask", "setup">>
    BY <1>3 DEF Flush, Go, At
  <2> QED
    BY <1>1, <2>1, NotedKept DEF Placed, ResetLabel
<1>4. CASE GetConfig
  <2>1. /\ UNCHANGED dev
        /\ \/ pc' = <<"write", pc[2]>> /\ pc[1] = "get"
           \/ pc'[1] \in {"redisable", "test_port"}
    BY <1>4 DEF GetConfig, Go, At
  <2> QED
    BY <1>1, <2>1, NotedKept DEF Noted, Placed, ResetLabel
<1>5. CASE WriteArgument
  <2>1. /\ UNCHANGED dev /\ pc[1] = "argument"
        /\ Go(CASE pc[2] = "setup" -> At("self_test", 0)
                [] pc[2] = "channels" -> At("test_port", 0)
                [] pc[2] = "irqs" -> At("done", 0))
    BY <1>5 DEF WriteArgument
  <2>2. pc[2] \in {"setup", "channels", "irqs"}
    BY <2>1 DEF Noted, Placed
  <2>3. pc'[1] \in {"self_test", "test_port", "done"}
    BY <2>1, <2>2 DEF Go, At
  <2> QED
    BY <1>1, <2>1, <2>3, NotedKept DEF Placed, ResetLabel
<1>6. CASE TestResult
  <2>1. UNCHANGED dev /\ pc'[1] \in {"second_port", "done"}
    BY <1>6 DEF TestResult, Go, At
  <2> QED
    BY <1>1, <2>1, NotedKept DEF Placed, ResetLabel
<1>7. CASE PortResult
  <2>1. \/ pc'[1] \in {"test_port", "done"} \/ pc' = Reenable(dev').pc
    BY <1>7 DEF PortResult, Go, At
  <2>2. Reenable(dev').pc[1] = "reenable"
    BY DEF Reenable, At
  <2>3. Placed(pc', byte')
    BY <2>1, <2>2, ResetStarts DEF Placed, ResetLabel
  <2>4. StaysMarked(dev, dev')
    BY <1>1, <1>7, MarksStay DEF PortResult
  <2> QED
    BY <2>3, <2>4, NotedKept
<1> QED
  BY <1>2, <1>3, <1>4, <1>5, <1>6, <1>7

LEMMA ResetNoted ==
    ASSUME Noted, UNCHANGED cut,
           SendByte \/ Response \/ SecondResponse \/ FlushId \/ WaitForAck
              \/ FirstIdByte \/ SecondIdByte
    PROVE  Noted'
<1>1. Entries(dev) /\ StaysMarked(dev, dev)
  BY MarksStay DEF Noted
<1>2. ResetPlace(pc, byte)
  BY DEF Noted, Placed, SendByte, Response, SecondResponse, FlushId,
         WaitForAck, FirstIdByte, SecondIdByte, ResetLabel
<1>3. Placed(pc', byte')
  BY <1>2, ResetPlaces DEF Placed, ResetPlace, ResetLabel
<1>4. StaysMarked(dev, dev')
  <2>1. CASE SendByte \/ FlushId \/ WaitForAck
    BY <1>1, <2>1 DEF SendByte, FlushId, WaitForAck
  <2>2. CASE Response
    <3>1. \/ dev' = [dev EXCEPT ![pc[2]].reset_response = obf[2]]
          \/ dev' = [dev EXCEPT ![pc[2]].reset_response = obf[2],
                                ![pc[2]].device_working = FALSE]
      BY <2>2, Zenon DEF Response
    <3>2. StaysMarked(dev, [dev EXCEPT ![pc[2]].reset_response = obf[2],
                                      ![pc[2]].device_working = FALSE])
      BY <1>1, MarksStay
    <3>3. StaysMarked(dev, [dev EXCEPT ![pc[2]].reset_response = obf[2]])
      BY <1>1, MarksStay, Zenon
    <3> QED
      BY <3>1, <3>2, <3>3, Zenon
  <2>3. CASE SecondResponse
    <3>1. dev' = dev \/ dev' = [dev EXCEPT ![pc[2]].device_working = FALSE]
      BY <2>3, Zenon DEF SecondResponse
    <3> QED
      BY <1>1, <3>1, MarksStay, Zenon
  <2>4. CASE FirstIdByte
    BY <1>1, <2>4, MarksStay, Zenon DEF FirstIdByte
  <2>5. CASE SecondIdByte
    <3>1. dev' = dev \/ \E b : dev' = [dev EXCEPT ![pc[2]].long_device_id = TRUE,
                                                 ![pc[2]].device_id[1] = b]
      BY <2>5, Zenon DEF SecondIdByte
    <3>2. ASSUME NEW b
          PROVE  StaysMarked(dev, [dev EXCEPT ![pc[2]].long_device_id = TRUE,
                                              ![pc[2]].device_id[1] = b])
      BY <1>1, MarksStay
    <3> QED
      BY <1>1, <3>1, <3>2, Zenon
  <2> QED
    BY <2>1, <2>2, <2>3, <2>4, <2>5
<1> QED
  BY <1>3, <1>4, NotedKept

LEMMA TimeOutNoted ==
    ASSUME Noted, TimeOut
    PROVE  Noted'
<1>1. /\ pc[1] = "send"
      /\ dev' = IF byte = "FF" THEN Marked(pc[2]) ELSE Marked(0)
      /\ cut' = cut \cup {<<pc[2], byte>>}
      /\ \/ Go(AfterReset(pc[2], dev')) \/ Go(AfterIdentify(pc[2], dev'))
  BY DEF TimeOut, SendByteTimesOut, ResetTimedOut, IdentityTimedOut
<1>2. pc[2] \in Device
  BY <1>1 DEF Noted, Placed, ResetPlace, ResetLabel
<1>3. /\ StaysMarked(dev, dev')
      /\ byte = "FF" \/ pc[2] = 0 => dev'[pc[2]].timed_out = TRUE
  <2>1. 0 \in Device
    BY DEF Device
  <2> QED
    BY <1>1, <1>2, <2>1, TimedOutMarks DEF Noted
<1>4. Placed(pc', byte')
  <2>1. ResetPlace(pc', byte')
    BY <1>1, AfterResetPlace, AfterIdentifyPlace, GoFits
  <2> QED
    BY <2>1 DEF Placed, ResetPlace, ResetLabel
<1>5. \A e \in cut' : e \in cut \/ (e[1] = pc[2] /\ e[2] = byte)
  BY <1>1
<1> QED
  BY <1>2, <1>3, <1>4, <1>5 DEF Noted, StaysMarked

LEMMA NextNoted == Noted /\ [Next]_vars => Noted'
<1> SUFFICES ASSUME Noted, [Next]_vars PROVE Noted'
  OBVIOUS
<1>1. CASE Main
  BY <1>1, SetUpNoted, ResetNoted DEF Main
<1>2. CASE TimeOut
  BY <1>2, TimeOutNoted
<1>3. ASSUME UNCHANGED <<pc, byte, dev, cut>>
      PROVE  Noted'
  BY <1>3 DEF Noted
<1>4. Controller \/ (\E d \in Device : DeviceSends(d)) \/ Strike \/ Irq1
         \/ UNCHANGED vars => UNCHANGED <<pc, byte, dev, cut>>
  BY DEF Controller, DeviceSends, Strike, Irq1, vars, mainVars
<1> QED
  BY <1>1, <1>2, <1>3, <1>4 DEF Next

(* Whatever the devices are, however often and on whichever device          *)
(* ps2_send_byte runs out of time, and whether or not somebody types: a     *)
(* device whose reset timed out is marked itself at the end (ps2.c:332-337), *)
(* and so is the first one whatever it was too slow for (ps2.c:376-408).    *)
THEOREM TimeoutsAreNoted == Spec => []TimeoutsNoted
<1>1. Noted => TimeoutsNoted
  BY DEF Noted, TimeoutsNoted
<1> QED
  BY <1>1, InitNoted, NextNoted, PTL DEF Spec

-----------------------------------------------------------------------------
(* What ps2_init finds out if nobody types and nothing times out: the      *)
(* answers that main reads are the ones to what it sent, since nothing is  *)
(* left of an earlier answer but bytes that it passes over.                *)

\* Nothing is on its way to the controller, or to main.
Taken == ibf = Empty /\ prefix = "none"
Unsent == \A d \in Device : queue[d] = <<>>
Quiet == obf = Empty /\ Unsent

\* The controller has taken all, and main will read s, from device d; the
\* first byte of s may be in the output buffer already.
Pending(d, s) ==
    /\ Taken /\ \A e \in Device : e # d => queue[e] = <<>>
    /\ \/ obf = Empty /\ queue[d] = s
       \/ obf # Empty /\ s # <<>> /\ obf[2] = Head(s) /\ queue[d] = Tail(s)

\* A byte may be left when main sends b, if it waits for an acknowledgement
\* next and passes that byte over: a mouse's id, or half of a keyboard's.
Stray == {"00", "83"}
Lull(b) == Unsent /\ (obf = Empty \/ (b \in {"F5", "F4"} /\ obf[2] \in Stray))

\* What main reads after b.
Answers(d, b) ==
    CASE b = "FF" -> {Kind(d).reset}
      [] b = "F2" -> {<<Ack>> \o Kind(d).id}
      [] OTHER    -> {<<Ack>>} \cup {<<x, Ack>> : x \in Stray}

Enabling == Taking("AE") \/ Taking("A8")

\* ps2_send_byte is about to send b to device d; it has sent it.
Sending(d, b) ==
    /\ byte = b /\ Lull(b)
    /\ \/ d = 1 /\ pc = <<"announce", 1>> /\ (Enabling \/ ibf = Empty)
       \/ /\ d = 1 /\ pc = <<"send", 1>>
          /\ Taking("D4") \/ (ibf = Empty /\ prefix = "D4")
       \/ d = 0 /\ pc = <<"send", 0>> /\ (Enabling \/ Taken)

Sent(d, b) ==
    /\ byte = b
    /\ \/ /\ ibf = <<"data", b>> /\ Lull(b)
          /\ prefix = IF d = 1 THEN "D4" ELSE "none"
       \/ \E s \in Answers(d, b) : Pending(d, s)

\* What main knows of device d: that its port works, whether it does itself,
\* what its id begins with.
Untried(d) == dev[d].device_working <=> hw.port[d]
Tried(d) == dev[d].device_working <=> Working(d)
Named(d) == Working(d) => dev[d].device_id[0] = Kind(d).id[1]
NonePassed == \A d \in Device : ~dev[d].port_working /\ ~dev[d].device_working

\* Main enables the ports; it resets device d; it identifies it.
EnablingPort(d) ==
    /\ hw.port[d] /\ Untried(0) /\ Untried(1)
    /\ pc = <<"reenable", d>> /\ Quiet /\ (Taking("AE") \/ ibf = Empty)

ResettingDevice(d) ==
    /\ hw.port[d] /\ Untried(1)
    /\ IF d = 0 THEN Untried(0) ELSE Tried(0)
    /\ \/ Sending(d, "FF")
       \/ pc = <<"response", d>> /\ Sent(d, "FF")
       \/ /\ pc = <<"second_response", d>> /\ Kind(d).reset # <<>>
          /\ dev[d].reset_response = Head(Kind(d).reset)
          /\ Pending(d, Tail(Kind(d).reset))
       \/ /\ pc = <<"flush_id", d>> /\ Working(d)
          /\ Pending(d, Tail(Tail(Kind(d).reset)))

Identifying(d) ==
    /\ Working(d) /\ Tried(0) /\ Tried(1) /\ (d = 1 => Named(0))
    /\ \/ \E b \in {"F5", "F2", "F4"} :
             /\ b = "F4" => Named(d)
             /\ Sending(d, b) \/ (pc = <<"ack", d>> /\ Sent(d, b))
       \/ pc = <<"id", d>> /\ Pending(d, Kind(d).id)
       \/ pc = <<"second_id_byte", d>> /\ Named(d) /\ Pending(d, Tail(Kind(d).id))

AllKnown == \A d \in Device : Tried(d) /\ Named(d)

Reading ==
    /\ AllKnown /\ Unsent
    /\ \/ pc = <<"ask", "irqs">> /\ Taken /\ obf = Empty
       \/ pc = <<"get", "irqs">> /\ Answering("20")

\* The outcomes of the tests, and the clocks of the ports that passed: they
\* are on, or will be.
PortsKnown ==
    /\ hw.test /\ (dual <=> hw.dual) /\ \E d \in Device : hw.port[d]
    /\ \A d \in Device : dev[d].port_working <=> hw.port[d]

ClocksOn ==
    \A d \in Device : hw.port[d] =>
        \/ config.clock[d] \/ Taking(IF d = 0 THEN "AE" ELSE "A8")
        \/ pc = <<"reenable", 0>> \/ pc = <<"reenable", d>>

\* A configuration c that translates nothing, and has the second port's
\* interrupt off if there is one.
Muted(c) == ~c.translation /\ (hw.dual => ~c.int[1])

Visiting ==
    \/ \E d \in Device : EnablingPort(d) \/ ResettingDevice(d) \/ Identifying(d)
    \/ Reading

Trying == PortsKnown /\ Muted(config) /\ ClocksOn /\ Visiting

\* Up to the tests of the ports.
Learning ==
    \/ /\ NonePassed
       /\ \/ pc[1] \in {"disable", "flush"}
          \/ pc[1] \in {"ask", "get"} /\ pc[2] = "setup"
          \/ pc[1] \in {"write", "argument"} /\ pc[2] = "setup" /\ ~cc.translation
          \/ /\ pc = <<"self_test", 0>>
             /\ IF ibf = Empty THEN ~config.translation ELSE ~cc.translation
          \/ pc = <<"test_result", 0>> /\ ~config.translation
          \/ /\ hw.test /\ ~config.translation
             /\ \/ pc = <<"second_port", 1>>
                \/ /\ pc = <<"ask", "channels">> \/ pc = <<"get", "channels">>
                   /\ Taking("A8") \/ (config.clock[1] <=> hw.dual)
          \/ /\ pc \in {<<"redisable", 1>>, <<"write", "channels">>,
                        <<"argument", "channels">>}
             /\ hw.test /\ dual /\ hw.dual /\ Muted(cc)
    \/ /\ pc[1] \in {"test_port", "port_result"}
       /\ hw.test /\ (dual <=> hw.dual)
       /\ IF ibf = <<"data", "CC">> THEN Muted(cc) ELSE Muted(config)
       /\ ~dev[1].port_working /\ ~dev[1].device_working
       /\ \/ pc[2] = 0 /\ ~dev[0].port_working /\ ~dev[0].device_working
          \/ pc[2] = 1 /\ hw.dual /\ (dev[0].port_working <=> hw.port[0]) /\ Untried(0)

\* The configuration c that ps2_init ends with.
Wanted(c) ==
    /\ \A d \in Device : /\ (d = 0 \/ hw.dual) => (c.int[d] <=> hw.port[d])
                         /\ hw.port[d] => c.clock[d]
    /\ ~c.translation

Ending ==
    \/ pc = <<"done", 1>> /\ ~hw.test
    \/ pc = <<"done", 2>> /\ hw.test /\ ~\E d \in Device : hw.port[d]
    \/ /\ PortsKnown /\ AllKnown
       /\ \/ pc = <<"write", "irqs">> /\ ibf = Empty /\ Wanted(cc) /\ cc \in Config
          \/ pc = <<"argument", "irqs">> /\ Announced /\ Wanted(cc) /\ cc \in Config
          \/ /\ pc = <<"done", 0>>
             /\ \/ ibf = <<"data", "CC">> /\ prefix = "60" /\ Wanted(cc) /\ cc \in Config
                \/ ibf = Empty /\ Wanted(config) /\ config \in Config

Shaped(dv) ==
    Entries(dv) /\ \A d \in Device : DOMAIN dv[d].device_id = Device
Shape ==
    /\ Shaped(dev) /\ DOMAIN queue = Device
    /\ hw.dual \/ ~hw.port[1]

Course == Undisturbed => Shape /\ (Learning \/ Trying \/ Ending)

LEMMA Pairs ==
    ASSUME NEW a, NEW b, NEW c
    PROVE  /\ <<a>> \o <<b>> = <<a, b>> /\ <<a>> \o <<b, c>> = <<a, b, c>>
           /\ Head(<<a>>) = a /\ Tail(<<a>>) = <<>> /\ <<a>> # <<>>
           /\ Head(<<a, b>>) = a /\ Tail(<<a, b>>) = <<b>> /\ <<a, b>> # <<>>
           /\ Head(<<a, b, c>>) = a /\ Tail(<<a, b, c>>) = <<b, c>>
           /\ <<a, b, c>> # <<>> /\ <<a, b>>[1] = a /\ <<a>>[1] = a
<1> DEFINE S == {a, b, c}
<1>1. /\ <<a>> \in Seq(S) /\ <<b>> \in Seq(S) /\ <<b, c>> \in Seq(S)
      /\ <<a, b>> \in Seq(S) /\ <<a, b, c>> \in Seq(S)
  OBVIOUS
<1>2. <<a>> \o <<b>> = <<a, b>>
  <2>1. <<a>> \o <<b>> \in Seq(S)
    BY <1>1, ConcatProperties, Zenon
  <2>2. /\ Len(<<a>> \o <<b>>) = Len(<<a, b>>)
        /\ \A i \in 1..Len(<<a, b>>) : (<<a>> \o <<b>>)[i] = <<a, b>>[i]
    BY <1>1, ConcatProperties
  <2> QED
    BY <1>1, <2>1, <2>2, SeqEqual
<1>3. <<a>> \o <<b, c>> = <<a, b, c>>
  <2>1. <<a>> \o <<b, c>> \in Seq(S)
    BY <1>1, ConcatProperties, Zenon
  <2>2. /\ Len(<<a>> \o <<b, c>>) = Len(<<a, b, c>>)
        /\ \A i \in 1..Len(<<a, b, c>>) :
              (<<a>> \o <<b, c>>)[i] = <<a, b, c>>[i]
    BY <1>1, ConcatProperties
  <2> QED
    BY <1>1, <2>1, <2>2, SeqEqual
<1>4. /\ Head(<<a>>) = a /\ Tail(<<a>>) = <<>> /\ <<a>> # <<>>
      /\ Head(<<a, b>>) = a /\ Tail(<<a, b>>) = <<b>> /\ <<a, b>> # <<>>
  OBVIOUS
<1>5. /\ Head(<<a, b, c>>) = a /\ Tail(<<a, b, c>>) = <<b, c>>
      /\ <<a, b, c>> # <<>> /\ <<a, b>>[1] = a /\ <<a>>[1] = a
  OBVIOUS
<1> QED
  BY <1>2, <1>3, <1>4, <1>5

\* The devices there may be, but for a mouse in the first port.
Keyboard(d) ==
    /\ Kind(d).reset = <<"FA", "AA">> \/ Kind(d).reset = <<"AA", "FA">>
    /\ Kind(d).id = <<"AB", "83">> /\ (Working(d) <=> hw.port[d])
Mouse(d) ==
    /\ d = 1 /\ Kind(d).reset = <<"FA", "AA", "00">>
    /\ Kind(d).id = <<"00">> /\ (Working(d) <=> hw.port[d])
Failing(d) ==
    /\ \/ Kind(d).reset = <<"FA", "FC">> \/ Kind(d).reset = <<"FC">>
       \/ Kind(d).reset = <<>>
    /\ ~Working(d)

LEMMA Kinds ==
    ASSUME hw \in Hardware, "mouse" \notin FirstDevices, NEW d \in Device
    PROVE  Keyboard(d) \/ Mouse(d) \/ Failing(d)
<1> DEFINE k == IF d = 0 THEN hw.first ELSE hw.second
<1>1. /\ k \in {"keyboard", "hasty", "mouse", "broken", "dead", "silent"}
      /\ k = "mouse" => d = 1
  BY InitAssumption DEF Hardware, Behaviour, Device
<1>2. Kind(d) = Behaviour[k]
  BY DEF Kind
<1> HIDE DEF k
<1>3. k = "keyboard" => Kind(d).reset = <<"FA", "AA">> /\ Kind(d).id = <<"AB", "83">>
  BY <1>2 DEF Behaviour
<1>4. k = "hasty" => Kind(d).reset = <<"AA", "FA">> /\ Kind(d).id = <<"AB", "83">>
  BY <1>2 DEF Behaviour
<1>5. k = "mouse" => Kind(d).reset = <<"FA", "AA", "00">> /\ Kind(d).id = <<"00">>
  BY <1>2 DEF Behaviour
<1>6. k = "broken" => Kind(d).reset = <<"FA", "FC">>
  BY <1>2 DEF Behaviour
<1>7. k = "dead" => Kind(d).reset = <<"FC">>
  BY <1>2 DEF Behaviour
<1>8. k = "silent" => Kind(d).reset = <<>>
  BY <1>2 DEF Behaviour
<1>9. Kind(d).reset = <<"FA", "AA">> => (Working(d) <=> hw.port[d])
  BY Pairs DEF Working
<1>10. Kind(d).reset = <<"AA", "FA">> => (Working(d) <=> hw.port[d])
  BY Pairs DEF Working
<1>11. Kind(d).reset = <<"FA", "AA", "00">> => (Working(d) <=> hw.port[d])
  BY Pairs DEF Working
<1>12. Kind(d).reset = <<"FA", "FC">> => ~Working(d)
  BY DEF Working
<1>13. Kind(d).reset = <<"FC">> => ~Working(d)
  BY DEF Working
<1>14. Kind(d).reset = <<>> => ~Working(d)
  BY DEF Working
<1> QED
  BY <1>1, <1>3, <1>4, <1>5, <1>6, <1>7, <1>8, <1>9, <1>10, <1>11, <1>12,
     <1>13, <1>14 DEF Keyboard, Mouse, Failing

\* The second answer to a reset, and what is left after it.
LEMMA SecondAnswers ==
    ASSUME NEW d, NEW r, r = Tail(Kind(d).reset)
    PROVE  /\ Keyboard(d) => /\ r \in {<<"AA">>, <<"FA">>} /\ Tail(r) = <<>>
                             /\ Head(r) \in {"FA", "AA"} \ {Head(Kind(d).reset)}
           /\ Mouse(d) => /\ Tail(r) = <<"00">>
                          /\ Head(r) \in {"FA", "AA"} \ {Head(Kind(d).reset)}
           /\ Failing(d) /\ r # <<>> /\ Kind(d).reset # <<>> =>
                 Head(r) = "FC" /\ Tail(r) = <<>>
<1>1. CASE Kind(d).reset = <<"FA", "AA">>
  <2>1. r = <<"AA">> /\ Head(Kind(d).reset) = "FA"
    BY <1>1, Pairs
  <2> QED
    BY <1>1, <2>1, Pairs DEF Keyboard, Mouse, Failing
<1>2. CASE Kind(d).reset = <<"AA", "FA">>
  <2>1. r = <<"FA">> /\ Head(Kind(d).reset) = "AA"
    BY <1>2, Pairs
  <2> QED
    BY <1>2, <2>1, Pairs DEF Keyboard, Mouse, Failing
<1>3. CASE Kind(d).reset = <<"FA", "AA", "00">>
  <2>1. r = <<"AA", "00">> /\ Head(Kind(d).reset) = "FA"
    BY <1>3, Pairs
  <2> QED
    BY <1>3, <2>1, Pairs DEF Keyboard, Mouse, Failing
<1>4. CASE Kind(d).reset = <<"FA", "FC">>
  <2>1. r = <<"FC">>
    BY <1>4, Pairs
  <2> QED
    BY <1>4, <2>1, Pairs DEF Keyboard, Mouse, Failing
<1>5. CASE Kind(d).reset = <<"FC">>
  <2>1. r = <<>>
    BY <1>5, Pairs
  <2> QED
    BY <1>5, <2>1 DEF Keyboard, Mouse, Failing
<1>6. CASE Kind(d).reset = <<>>
  BY <1>6 DEF Keyboard, Mouse, Failing
<1> QED
  BY <1>1, <1>2, <1>3, <1>4, <1>5, <1>6 DEF Keyboard, Mouse, Failing

LEMMA SameHardware ==
    ASSUME UNCHANGED hw, NEW d
    PROVE  /\ Kind(d)' = Kind(d) /\ (Working(d)' <=> Working(d))
           /\ (Keyboard(d)' <=> Keyboard(d))
           /\ (Mouse(d)' <=> Mouse(d)) /\ (Failing(d)' <=> Failing(d))
<1>1. Kind(d)' = Kind(d)
  BY DEF Kind
<1>2. Working(d)' <=> Working(d)
  BY <1>1 DEF Working
<1> QED
  BY <1>1, <1>2 DEF Keyboard, Mouse, Failing

-----------------------------------------------------------------------------
(* What is pending.                                                        *)

LEMMA Pops ==
    ASSUME NEW d \in Device, NEW s, Pending(d, s), Read,
           UNCHANGED <<ibf, prefix, queue>>
    PROVE  s # <<>> /\ obf[2] = Head(s) /\ Pending(d, Tail(s))'
  BY DEF Pending, Read, Taken

LEMMA Passes ==
    ASSUME NEW d \in Device, NEW s, Pending(d, s), NEW e \in Device,
           DeviceSends(e), DOMAIN queue = Device
    PROVE  Pending(d, s)'
<1>1. /\ obf = Empty /\ queue[e] # <<>> /\ obf' = <<e, Head(queue[e])>>
      /\ queue' = [queue EXCEPT ![e] = Tail(@)] /\ UNCHANGED <<ibf, prefix>>
  BY DEF DeviceSends
<1>2. e = d /\ queue[d] = s
  BY <1>1 DEF Pending
<1>3. obf' # Empty /\ obf'[2] = Head(s) /\ queue'[d] = Tail(s) /\ s # <<>>
  BY <1>1, <1>2, PairsAreFull
<1>4. \A f \in Device : f # d => queue'[f] = <<>>
  BY <1>1, <1>2 DEF Pending
<1> QED
  BY <1>1, <1>3, <1>4 DEF Pending, Taken

LEMMA NothingPending ==
    ASSUME NEW d \in Device
    PROVE  Pending(d, <<>>) <=> Taken /\ Quiet
  BY DEF Pending, Quiet, Unsent

LEMMA NothingPendingNext ==
    ASSUME NEW d \in Device
    PROVE  Pending(d, <<>>)' <=> Taken' /\ Quiet'
  BY DEF Pending, Quiet, Unsent

-----------------------------------------------------------------------------
(* Where main goes from one device to the next.                            *)

LEMMA Landings ==
    ASSUME NEW d, NEW b, Go(Send(b, d)), d \in Device
    PROVE  /\ byte' = b
           /\ pc' = IF d = 1 THEN <<"announce", 1>> ELSE <<"send", 0>>
  BY DEF Go, Send, Device

LEMMA StartsSending ==
    ASSUME NEW d \in Device, NEW b, Go(Send(b, d)), Lull(b)', Taken'
    PROVE  Sending(d, b)'
<1>1. /\ byte' = b
      /\ pc' = IF d = 1 THEN <<"announce", 1>> ELSE <<"send", 0>>
  BY Landings
<1> QED
  BY <1>1 DEF Sending, Taken, Device

LEMMA LastIdentified ==
    ASSUME AllKnown', Taken', Quiet', Go(At("ask", "irqs"))
    PROVE  Reading'
  BY DEF Reading, Go, At, Quiet

\* From the first device to the second, when there is one to identify.
LEMMA FirstIdentified ==
    ASSUME Tried(0)', Tried(1)', Named(0)', Taken', Lull("F5")',
           Quiet' \/ Working(1)', Go(AfterIdentify(0, dev'))
    PROVE  Identifying(1)' \/ Reading'
<1>1. CASE dev'[1].device_working
  <2>1. Go(Send("F5", 1)) /\ 1 \in Device
    BY <1>1 DEF AfterIdentify, Device
  <2>2. Sending(1, "F5")'
    BY <2>1, StartsSending
  <2>3. Working(1)'
    BY <1>1 DEF Tried
  <2>4. Identifying(1)'
    BY <2>2, <2>3 DEF Identifying
  <2> QED
    BY <2>4
<1>2. CASE ~dev'[1].device_working
  <2>1. Go(At("ask", "irqs"))
    BY <1>2 DEF AfterIdentify
  <2>2. ~Working(1)' /\ Named(1)'
    BY <1>2 DEF Tried, Named
  <2>3. AllKnown'
    BY <2>2 DEF AllKnown, Device
  <2> QED
    BY <2>1, <2>2, <2>3, LastIdentified
<1> QED
  BY <1>1, <1>2

LEMMA AllTried ==
    ASSUME Tried(0)', Tried(1)', Taken', Lull("F5")',
           Quiet' \/ Working(0)' \/ Working(1)', Go(Identify(dev'))
    PROVE  Identifying(0)' \/ Identifying(1)' \/ Reading'
<1>1. CASE dev'[0].device_working
  <2>1. Go(Send("F5", 0)) /\ 0 \in Device
    BY <1>1 DEF Identify, Device
  <2>2. Sending(0, "F5")'
    BY <2>1, StartsSending
  <2>3. Working(0)'
    BY <1>1 DEF Tried
  <2>4. Identifying(0)'
    BY <2>2, <2>3 DEF Identifying
  <2> QED
    BY <2>4
<1>2. CASE ~dev'[0].device_working
  <2>1. Go(AfterIdentify(0, dev'))
    BY <1>2 DEF Identify
  <2>2. ~Working(0)' /\ Named(0)'
    BY <1>2 DEF Tried, Named
  <2> QED
    BY <2>1, <2>2, FirstIdentified
<1> QED
  BY <1>1, <1>2

LEMMA DeviceTried ==
    ASSUME NEW d \in Device, Go(AfterReset(d, dev')), Taken', Lull("F5")',
           Tried(0)', (d = 0 /\ Untried(1)' /\ Quiet') \/ (d = 1 /\ Tried(1)'),
           Quiet' \/ Working(1)',
           dev'[1].port_working <=> hw'.port[1],
           Working(1)' => hw'.port[1]
    PROVE  \/ ResettingDevice(1)' \/ Identifying(0)' \/ Identifying(1)'
           \/ Reading'
<1>1. CASE d = 0 /\ dev'[1].port_working
  <2>1. Go(Send("FF", 1)) /\ 1 \in Device
    BY <1>1 DEF AfterReset, Device
  <2>2. Quiet' /\ Untried(1)' /\ hw'.port[1]
    BY <1>1
  <2>3. Lull("FF")'
    BY <2>2 DEF Lull, Quiet
  <2>4. Sending(1, "FF")'
    BY <2>1, <2>3, StartsSending
  <2> QED
    BY <2>2, <2>4 DEF ResettingDevice
<1>2. CASE ~(d = 0 /\ dev'[1].port_working)
  <2>1. Go(Identify(dev'))
    BY <1>2 DEF AfterReset
  <2>2. Tried(1)'
    BY <1>2 DEF Tried, Untried
  <2> QED
    BY <2>1, <2>2, AllTried
<1> QED
  BY <1>1, <1>2

-----------------------------------------------------------------------------
(* What main writes down of a device.                                      *)

\* dw is as complete as dv, and the same but for device d's entry.
Rewritten(dv, dw, d) ==
    Shaped(dw) /\ \A e \in Device : e # d => dw[e] = dv[e]

SamePorts(dv, dw) ==
    \A e \in Device : dw[e].port_working <=> dv[e].port_working

-----------------------------------------------------------------------------
(* Main at the devices.                                                    *)

\* What every step of main there keeps.
Visited == Visiting /\ Shaped(dev)

LEMMA EnablesPort ==
    ASSUME NEW d \in Device, EnablingPort(d), ControllerCommand, PortsKnown,
           ClocksOn, Shape, UNCHANGED Beyond
    PROVE  Visited' /\ ClocksOn' /\ SamePorts(dev, dev')
<1>1. UNCHANGED <<prefix, config, queue, hw>>
  BY DEF Beyond
<1>2. /\ pc = <<"reenable", d>> /\ Quiet /\ hw.port[d]
      /\ Untried(0) /\ Untried(1)
  BY DEF EnablingPort
<1>3. /\ ibf = Empty /\ UNCHANGED <<cc, obf, dev>>
      /\ ibf' = <<"command", IF d = 0 THEN "AE" ELSE "A8">>
      /\ Go(IF d = 0 /\ dev[1].port_working THEN At("reenable", 1)
                                            ELSE Reset(dev))
  BY <1>2 DEF ControllerCommand, SendCmd, Command
<1>4. /\ Quiet' /\ Untried(0)' /\ Untried(1)' /\ Shaped(dev)'
      /\ SamePorts(dev, dev') /\ 0 \in Device /\ 1 \in Device
  BY <1>1, <1>2, <1>3 DEF Quiet, Unsent, Untried, Shape, SamePorts, Device
<1>5. \A e \in Device : dev[e].port_working <=> hw.port[e]
  BY DEF PortsKnown
<1>6. CASE d = 0 /\ dev[1].port_working
  <2>1. pc' = <<"reenable", 1>> /\ Taking("AE")' /\ hw'.port[1]
    BY <1>1, <1>3, <1>4, <1>5, <1>6 DEF Go, At, Taking
  <2>2. EnablingPort(1)'
    BY <1>4, <2>1 DEF EnablingPort
  <2>3. ClocksOn'
    BY <2>1 DEF ClocksOn, Device
  <2> QED
    BY <1>4, <2>2, <2>3 DEF Visited, Visiting
<1>7. CASE ~(d = 0 /\ dev[1].port_working) /\ hw.port[0]
  <2>1. Go(Send("FF", 0))
    BY <1>3, <1>4, <1>5, <1>7 DEF Reset
  <2>2. byte' = "FF" /\ pc' = <<"send", 0>>
    BY <2>1, <1>4, Landings
  <2>3. Enabling'
    BY <1>3 DEF Enabling, Taking, Device
  <2>4. Sending(0, "FF")'
    BY <1>4, <2>2, <2>3 DEF Sending, Lull, Quiet
  <2>5. ResettingDevice(0)'
    BY <1>1, <1>4, <1>7, <2>4 DEF ResettingDevice
  <2>6. CASE d = 0
    <3>1. ~hw.port[1] /\ Taking("AE")'
      BY <1>3, <1>4, <1>5, <1>7, <2>6 DEF Taking
    <3>2. ClocksOn'
      BY <1>1, <3>1 DEF ClocksOn, Device
    <3> QED
      BY <1>4, <2>5, <3>2 DEF Visited, Visiting
  <2>7. CASE d = 1
    <3>1. config.clock[0] /\ Taking("A8")'
      BY <1>2, <1>3, <1>4, <1>7, <2>7 DEF ClocksOn, Taking, Empty
    <3>2. ClocksOn'
      BY <1>1, <3>1 DEF ClocksOn, Device
    <3> QED
      BY <1>4, <2>5, <3>2 DEF Visited, Visiting
  <2> QED
    BY <2>6, <2>7 DEF Device
<1>8. CASE ~(d = 0 /\ dev[1].port_working) /\ ~hw.port[0]
  <2>1. d = 1
    BY <1>2, <1>8 DEF Device
  <2>2. Go(Send("FF", 1))
    BY <1>3, <1>4, <1>5, <1>8 DEF Reset
  <2>3. byte' = "FF" /\ pc' = <<"announce", 1>>
    BY <2>2, <1>4, Landings
  <2>4. Enabling'
    BY <1>3, <2>1 DEF Enabling, Taking
  <2>5. Sending(1, "FF")'
    BY <1>4, <2>3, <2>4 DEF Sending, Lull, Quiet
  <2>6. Tried(0)'
    BY <1>1, <1>4, <1>8 DEF Tried, Untried, Working
  <2>7. ResettingDevice(1)'
    BY <1>1, <1>2, <1>4, <2>1, <2>5, <2>6 DEF ResettingDevice
  <2>8. ClocksOn'
    BY <1>1, <1>2, <1>3, <1>4, <1>5, <1>8, <2>1 DEF ClocksOn, Taking, Device
  <2> QED
    BY <1>4, <2>7, <2>8 DEF Visited, Visiting
<1> QED
  BY <1>6, <1>7, <1>8

\* A step that leaves what main knows of the devices as it is.
LEMMA SameKnowledge ==
    ASSUME UNCHANGED <<dev, hw>>
    PROVE  /\ \A d \in Device : /\ (Untried(d)' <=> Untried(d))
                                /\ (Tried(d)' <=> Tried(d))
                                /\ (Named(d)' <=> Named(d))
                                /\ (Working(d)' <=> Working(d))
           /\ (AllKnown' <=> AllKnown) /\ (Shaped(dev)' <=> Shaped(dev))
           /\ SamePorts(dev, dev') /\ 0 \in Device /\ 1 \in Device
           /\ (PortsKnown /\ UNCHANGED dual => PortsKnown')
<1>1. \A d \in Device : (Untried(d)' <=> Untried(d))
  BY DEF Untried
<1>2. \A d \in Device : Working(d)' <=> Working(d)
  BY SameHardware
<1>3. \A d \in Device : Tried(d)' <=> Tried(d)
  BY <1>2 DEF Tried
<1>4. \A d \in Device : Named(d)' <=> Named(d)
  BY <1>2, SameHardware DEF Named
<1>5. SamePorts(dev, dev') /\ 0 \in Device /\ 1 \in Device
      /\ (Shaped(dev)' <=> Shaped(dev))
  BY DEF SamePorts, Device
<1>6. PortsKnown /\ UNCHANGED dual => PortsKnown'
  BY DEF PortsKnown
<1> QED
  BY <1>1, <1>2, <1>3, <1>4, <1>5, <1>6 DEF AllKnown

LEMMA SendsPrefix ==
    ASSUME NEW d \in Device, NEW b, Sending(d, b), ControllerCommand,
           UNCHANGED Beyond
    PROVE  Sending(d, b)' /\ pc[1] = "announce" /\ ibf = Empty
           /\ UNCHANGED <<dev, hw>>
  BY CommandDoes DEF Sending, Taking, Beyond, Lull, Unsent

LEMMA SendsByte ==
    ASSUME NEW d \in Device, NEW b, Sending(d, b), SendByte, UNCHANGED Beyond
    PROVE  /\ pc' = <<IF b = "FF" THEN "response" ELSE "ack", d>>
           /\ Sent(d, b)' /\ ibf = Empty /\ UNCHANGED <<dev, hw>>
<1>1. /\ pc = <<"send", d>> /\ ibf = Empty /\ ibf' = <<"data", b>>
      /\ prefix = (IF d = 1 THEN "D4" ELSE "none") /\ Lull(b) /\ byte = b
      /\ UNCHANGED <<dev, obf>>
  BY PairsAreFull DEF Sending, SendByte, Data, Taking, Enabling, Taken, Device
<1>2. UNCHANGED <<prefix, queue, hw>>
  BY DEF Beyond
<1>3. /\ pc' = <<IF b = "FF" THEN "response" ELSE "ack", d>> /\ byte' = b
  BY <1>1 DEF SendByte, Go
<1>4. Lull(b)'
  BY <1>1, <1>2 DEF Lull, Unsent
<1> QED
  BY <1>1, <1>2, <1>3, <1>4 DEF Sent

\* Main reads the first byte of what is pending.
LEMMA GetsResponse ==
    ASSUME NEW d \in Device, ResettingDevice(d), Response, Shape, PortsKnown,
           hw \in Hardware, "mouse" \notin FirstDevices, UNCHANGED Beyond
    PROVE  Visited' /\ ibf = Empty /\ SamePorts(dev, dev')
<1>1. PICK r : r = Kind(d).reset
  OBVIOUS
<1>2. UNCHANGED <<prefix, config, queue, hw, ibf>>
  BY DEF Beyond, Response
<1>3. pc = <<"response", d>> /\ Sent(d, "FF") /\ hw.port[d] /\ Untried(1)
      /\ (IF d = 0 THEN Untried(0) ELSE Tried(0))
  BY DEF ResettingDevice, Response, Sending
<1>4. Pending(d, r) /\ Read
  BY <1>1, <1>3 DEF Sent, Answers, Lull, Response, Read
<1>5. r # <<>> /\ obf[2] = Head(r) /\ Pending(d, Tail(r))'
  BY <1>2, <1>4, Pops
<1>6. Shaped(dev) /\ 0 \in Device /\ 1 \in Device /\ d \in {0, 1}
  BY DEF Shape, Device
<1>7. ibf = Empty /\ Kind(d)' = Kind(d)
  BY <1>2, <1>4, SameHardware DEF Pending, Taken
<1>8. CASE obf[2] \in {"FA", "AA"}
  <2>1. /\ dev' = [dev EXCEPT ![d].reset_response = obf[2]]
        /\ pc' = <<"second_response", d>>
    BY <1>3, <1>8 DEF Response, Go, At
  <2>2. /\ Rewritten(dev, dev', d) /\ SamePorts(dev, dev')
        /\ dev'[d].reset_response = obf[2]
        /\ dev'[d].device_working = dev[d].device_working
    BY <1>6, <2>1 DEF Shaped, Entries, Field, Rewritten, SamePorts
  <2>3. /\ (Untried(0)' <=> Untried(0)) /\ (Untried(1)' <=> Untried(1))
        /\ (Tried(0)' <=> Tried(0))
    BY <1>2, <1>6, <2>2, SameHardware DEF Rewritten, Untried, Tried
  <2>4. Pending(d, Tail(Kind(d).reset))'
    BY <1>1, <1>5, <1>7 DEF Pending
  <2>5. ResettingDevice(d)'
    BY <1>1, <1>2, <1>3, <1>5, <1>7, <2>1, <2>2, <2>3, <2>4
       DEF ResettingDevice
  <2> QED
    BY <1>7, <2>2, <2>5 DEF Visited, Visiting, Rewritten
<1>9. CASE obf[2] \notin {"FA", "AA"}
  <2>1. r = <<"FC">> /\ ~Working(d)
    BY <1>1, <1>5, <1>9, Kinds, Pairs DEF Keyboard, Mouse, Failing
  <2>2. /\ dev' = [dev EXCEPT ![d].reset_response = obf[2],
                              ![d].device_working = FALSE]
        /\ Go(AfterReset(d, dev'))
    BY <1>3, <1>9 DEF Response
  <2>3. /\ Rewritten(dev, dev', d) /\ SamePorts(dev, dev')
        /\ dev'[d].device_working = FALSE
    BY <1>6, <2>2 DEF Shaped, Entries, Field, Rewritten, SamePorts
  <2>4. Taken' /\ Quiet'
    BY <1>5, <2>1, Pairs, NothingPendingNext
  <2>5. Lull("F5")'
    BY <2>4 DEF Lull, Quiet
  <2>6. /\ Tried(0)' /\ (d = 0 => Untried(1)')
        /\ d = 1 => Tried(1)'
    BY <1>2, <1>3, <1>6, <2>1, <2>3, SameHardware DEF Rewritten, Tried, Untried
  <2>7. (dev'[1].port_working <=> hw'.port[1]) /\ (Working(1)' => hw'.port[1])
    BY <1>2, <1>6, <2>3 DEF PortsKnown, SamePorts, Working
  <2>8. \/ ResettingDevice(1)' \/ Identifying(0)' \/ Identifying(1)' \/ Reading'
    BY <1>6, <2>2, <2>4, <2>5, <2>6, <2>7, DeviceTried
  <2> QED
    BY <1>6, <1>7, <2>3, <2>8 DEF Visited, Visiting, Rewritten
<1> QED
  BY <1>8, <1>9

LEMMA GetsSecondResponse ==
    ASSUME NEW d \in Device, ResettingDevice(d), SecondResponse, Shape,
           PortsKnown, hw \in Hardware, "mouse" \notin FirstDevices,
           UNCHANGED Beyond
    PROVE  Visited' /\ ibf = Empty /\ SamePorts(dev, dev')
<1>1. PICK r : r = Tail(Kind(d).reset)
  OBVIOUS
<1>2. UNCHANGED <<prefix, config, queue, hw, ibf>>
  BY DEF Beyond, SecondResponse
<1>3. /\ pc = <<"second_response", d>> /\ hw.port[d] /\ Untried(1)
      /\ (IF d = 0 THEN Untried(0) ELSE Tried(0))
      /\ Kind(d).reset # <<>>
      /\ dev[d].reset_response = Head(Kind(d).reset)
  BY DEF ResettingDevice, SecondResponse, Sending
<1>4. Pending(d, r) /\ Read
  BY <1>1, <1>3 DEF ResettingDevice, Sending, SecondResponse, Read
<1>5. r # <<>> /\ obf[2] = Head(r) /\ Pending(d, Tail(r))'
  BY <1>2, <1>4, Pops
<1>6. Shaped(dev) /\ 0 \in Device /\ 1 \in Device /\ d \in {0, 1}
  BY DEF Shape, Device
<1>7. ibf = Empty /\ Kind(d)' = Kind(d)
  BY <1>2, <1>4, SameHardware DEF Pending, Taken
<1>8. CASE obf[2] \in {"FA", "AA"} \ {dev[d].reset_response}
  <2>1. pc' = <<"flush_id", d>> /\ UNCHANGED dev
    BY <1>3, <1>8 DEF SecondResponse, Go, At
  <2>2. Working(d)
    BY <1>1, <1>3, <1>5, <1>8, Kinds, SecondAnswers
       DEF Keyboard, Mouse, Failing
  <2>3. Pending(d, Tail(Tail(Kind(d).reset)))'
    BY <1>1, <1>5, <1>7 DEF Pending
  <2>4. ResettingDevice(d)'
    BY <1>2, <1>3, <1>6, <2>1, <2>2, <2>3, SameKnowledge
       DEF ResettingDevice
  <2> QED
    BY <1>2, <1>6, <1>7, <2>1, <2>4, SameKnowledge DEF Visited, Visiting
<1>9. CASE obf[2] \notin {"FA", "AA"} \ {dev[d].reset_response}
  <2>1. Failing(d)
    BY <1>1, <1>3, <1>5, <1>9, Kinds, SecondAnswers
  <2>2. /\ dev' = [dev EXCEPT ![d].device_working = FALSE]
        /\ Go(AfterReset(d, dev'))
    BY <1>3, <1>9 DEF SecondResponse
  <2>3. /\ Rewritten(dev, dev', d) /\ SamePorts(dev, dev')
        /\ dev'[d].device_working = FALSE
    BY <1>6, <2>2 DEF Shaped, Entries, Field, Rewritten, SamePorts
  <2>4. Taken' /\ Quiet'
    BY <1>1, <1>3, <1>5, <2>1, SecondAnswers, NothingPendingNext
  <2>5. Lull("F5")'
    BY <2>4 DEF Lull, Quiet
  <2>6. /\ Tried(0)' /\ (d = 0 => Untried(1)')
        /\ d = 1 => Tried(1)'
    BY <1>2, <1>3, <1>6, <2>1, <2>3, SameHardware
       DEF Rewritten, Tried, Untried, Failing
  <2>7. (dev'[1].port_working <=> hw'.port[1]) /\ (Working(1)' => hw'.port[1])
    BY <1>2, <1>6, <2>3 DEF PortsKnown, SamePorts, Working
  <2>8. \/ ResettingDevice(1)' \/ Identifying(0)' \/ Identifying(1)' \/ Reading'
    BY <1>6, <2>2, <2>4, <2>5, <2>6, <2>7, DeviceTried
  <2> QED
    BY <1>6, <1>7, <2>3, <2>8 DEF Visited, Visiting, Rewritten
<1> QED
  BY <1>8, <1>9

\* The wait after the reset ends at once; it leaves a byte of a mouse.
LEMMA FlushesId ==
    ASSUME NEW d \in Device, ResettingDevice(d), FlushId, Shape,
           PortsKnown, ClocksOn, hw \in Hardware,
           "mouse" \notin FirstDevices, UNCHANGED Beyond
    PROVE  Visited' /\ ibf = Empty /\ SamePorts(dev, dev')
<1>1. UNCHANGED <<prefix, config, queue, hw, ibf, dev>>
  BY DEF Beyond, FlushId
<1>2. /\ pc = <<"flush_id", d>> /\ hw.port[d] /\ Untried(1) /\ Working(d)
      /\ (IF d = 0 THEN Untried(0) ELSE Tried(0))
      /\ Pending(d, Tail(Tail(Kind(d).reset)))
  BY DEF ResettingDevice, FlushId, Sending
<1>3. Shaped(dev) /\ 0 \in Device /\ 1 \in Device /\ d \in {0, 1}
  BY DEF Shape, Device
<1>4. Taken /\ ibf = Empty
  BY <1>2 DEF Pending, Taken
<1>5. Settled /\ Go(AfterReset(d, dev')) /\ UNCHANGED obf
  BY <1>1, <1>2, <1>4 DEF FlushId
<1>6. CASE Keyboard(d)
  <2>1. Quiet
    BY <1>2, <1>6, SecondAnswers, NothingPending
  <2> QED
    <3>1. Quiet' /\ Taken' /\ Lull("F5")'
      BY <1>1, <1>4, <1>5, <2>1 DEF Quiet, Unsent, Taken, Lull
    <3>2. /\ Tried(0)' /\ (d = 0 => Untried(1)')
          /\ d = 1 => Tried(1)'
      BY <1>1, <1>2, <1>3, SameKnowledge DEF Tried, Untried
    <3>3. (dev'[1].port_working <=> hw'.port[1]) /\ (Working(1)' => hw'.port[1])
      BY <1>1, <1>3 DEF PortsKnown, Working
    <3>4. \/ ResettingDevice(1)' \/ Identifying(0)' \/ Identifying(1)' \/ Reading'
      BY <1>3, <1>5, <3>1, <3>2, <3>3, DeviceTried
    <3> QED
      BY <1>1, <1>3, <1>4, <3>4, SameKnowledge DEF Visited, Visiting
<1>7. CASE Mouse(d)
  <2>1. d = 1 /\ Pending(1, <<"00">>)
    BY <1>2, <1>7, SecondAnswers DEF Mouse
  <2>2. config.clock[1]
    BY <1>2, <1>4, <2>1 DEF ClocksOn, Taking, Empty
  <2>3. obf # Empty
    BY <1>3, <1>5, <2>1, <2>2, Pairs DEF Settled, Pending
  <2>4. obf[2] = "00" /\ Unsent
    BY <2>1, <2>3, Pairs DEF Pending, Unsent
  <2>5. Taken' /\ Lull("F5")'
    BY <1>1, <1>4, <1>5, <2>4 DEF Unsent, Taken, Lull, Stray
  <2>6. Tried(0)' /\ Tried(1)' /\ Working(1)'
    BY <1>1, <1>2, <1>3, <2>1, SameKnowledge DEF Tried, Untried
  <2>7. (dev'[1].port_working <=> hw'.port[1]) /\ (Working(1)' => hw'.port[1])
    BY <1>1, <1>3 DEF PortsKnown, Working
  <2>8. \/ ResettingDevice(1)' \/ Identifying(0)' \/ Identifying(1)' \/ Reading'
    BY <1>3, <1>5, <2>1, <2>5, <2>6, <2>7, DeviceTried
  <2> QED
    BY <1>1, <1>3, <1>4, <2>8, SameKnowledge DEF Visited, Visiting
<1> QED
  BY <1>2, <1>6, <1>7, Kinds DEF Failing

\* A wait for an acknowledgement passes over a stray byte, whether or not the
\* controller has taken the byte it is for.
LEMMA PassesOver ==
    ASSUME NEW d \in Device, NEW b \in {"F5", "F2", "F4"},
           pc = <<"ack", d>>, Sent(d, b), WaitForAck, UNCHANGED Beyond,
           Keyboard(d) \/ Mouse(d)
    PROVE  \/ Sent(d, b)' /\ UNCHANGED pc
           \/ /\ obf[2] = Ack /\ b = "F2" /\ Taken
              /\ \E s : s = Kind(d).id /\ Pending(d, s)'
           \/ obf[2] = Ack /\ b # "F2" /\ Taken /\ Taken' /\ Quiet'
<1>1. UNCHANGED <<prefix, queue, hw, ibf>> /\ Read /\ byte = b
  BY DEF Beyond, WaitForAck, Sent
<1>2. obf[2] # Ack => UNCHANGED <<pc, byte>>
  BY DEF WaitForAck, Go
<1>3. CASE ibf = <<"data", b>> /\ Lull(b) /\ prefix = IF d = 1 THEN "D4" ELSE "none"
  <2>1. obf[2] # Ack /\ obf' = Empty
    BY <1>1, <1>3 DEF Read, Lull, Stray, Ack
  <2>2. Lull(b)'
    BY <1>1, <1>3, <2>1 DEF Lull, Unsent
  <2> QED
    BY <1>1, <1>2, <1>3, <2>1, <2>2 DEF Sent
<1>4. ASSUME NEW s \in Answers(d, b), Pending(d, s)
      PROVE  \/ Sent(d, b)' /\ UNCHANGED pc
             \/ /\ obf[2] = Ack /\ b = "F2" /\ Taken
                /\ \E t : t = Kind(d).id /\ Pending(d, t)'
             \/ obf[2] = Ack /\ b # "F2" /\ Taken /\ Taken' /\ Quiet'
  <2>1. s # <<>> /\ obf[2] = Head(s) /\ Pending(d, Tail(s))' /\ Taken
    BY <1>1, <1>4, Pops DEF Pending
  <2>2. CASE b = "F2"
    <3>1. PICK t : t = Kind(d).id
      OBVIOUS
    <3>2. s = <<Ack>> \o t
      BY <1>4, <2>2, <3>1 DEF Answers
    <3>3. t = <<"AB", "83">> \/ t = <<"00">>
      BY <3>1 DEF Keyboard, Mouse
    <3>4. Head(s) = Ack /\ Tail(s) = t
      BY <3>2, <3>3, Pairs
    <3> QED
      BY <2>1, <2>2, <3>1, <3>4
  <2>3. CASE b # "F2" /\ s = <<Ack>>
    BY <1>1, <2>1, <2>3, Pairs, NothingPendingNext
  <2>4. CASE b # "F2" /\ \E x \in Stray : s = <<x, Ack>>
    <3>1. PICK x \in Stray : s = <<x, Ack>>
      BY <2>4
    <3>2. obf[2] # Ack /\ Tail(s) = <<Ack>>
      BY <2>1, <3>1, Pairs DEF Stray, Ack
    <3>3. Pending(d, <<Ack>>)'
      BY <2>1, <3>2
    <3>4. <<Ack>> \in Answers(d, b)'
      BY <2>4 DEF Answers
    <3>5. Sent(d, b)'
      BY <1>1, <1>2, <3>2, <3>3, <3>4 DEF Sent
    <3> QED
      BY <1>2, <3>2, <3>5
  <2> QED
    BY <1>4, <2>2, <2>3, <2>4 DEF Answers
<1> QED
  BY <1>3, <1>4 DEF Sent

\* What the step after an acknowledgement sends, or waits for.
LEMMA GetsAck ==
    ASSUME NEW d \in Device, Identifying(d), WaitForAck, Shape,
           hw \in Hardware, "mouse" \notin FirstDevices, UNCHANGED Beyond
    PROVE  /\ Visited' /\ UNCHANGED <<dev, hw, ibf>>
           /\ pc[1] # "reenable"
<1>1. UNCHANGED <<prefix, config, queue, hw, ibf, dev>> /\ pc[1] = "ack"
  BY DEF Beyond, WaitForAck
<1>2. PICK b \in {"F5", "F2", "F4"} :
         pc = <<"ack", d>> /\ Sent(d, b) /\ (b = "F4" => Named(d))
  BY <1>1 DEF Identifying, Sending
<1>3. /\ Working(d) /\ Tried(0) /\ Tried(1) /\ (d = 1 => Named(0))
      /\ Shaped(dev) /\ 0 \in Device /\ 1 \in Device /\ d \in {0, 1}
  BY DEF Identifying, Shape, Device
<1>4. /\ Working(d)' /\ Tried(0)' /\ Tried(1)' /\ (d = 1 => Named(0)')
      /\ Shaped(dev)' /\ (b = "F4" => Named(d)')
  BY <1>1, <1>2, <1>3, SameKnowledge
<1>5. Keyboard(d) \/ Mouse(d)
  BY <1>3, Kinds DEF Failing
<1>6. Identifying(d)' \/ Identifying(1)' \/ Reading'
  <2>1. CASE Sent(d, b)' /\ UNCHANGED pc
    BY <1>2, <1>4, <2>1 DEF Identifying
  <2>2. CASE /\ obf[2] = Ack /\ b = "F2" /\ Taken
             /\ \E s : s = Kind(d).id /\ Pending(d, s)'
    <3>1. Pending(d, Kind(d).id)'
      BY <1>1, <2>2, SameHardware DEF Pending
    <3>2. pc' = <<"id", d>>
      BY <1>2, <2>2 DEF WaitForAck, Sent, Go, At
    <3> QED
      BY <1>4, <3>1, <3>2 DEF Identifying
  <2>3. CASE obf[2] = Ack /\ b # "F2" /\ Taken /\ Taken' /\ Quiet'
    <3>1. Lull("F5")' /\ Lull("F2")'
      BY <2>3 DEF Lull, Quiet
    <3>2. byte = b
      BY <1>2 DEF Sent
    <3>3. CASE b = "F5"
      <4>1. Go(Send("F2", d))
        BY <1>2, <2>3, <3>2, <3>3 DEF WaitForAck
      <4>2. Sending(d, "F2")'
        BY <2>3, <3>1, <4>1, StartsSending
      <4> QED
        BY <1>4, <4>2 DEF Identifying
    <3>4. CASE b = "F4"
      <4>1. Go(AfterIdentify(d, dev')) /\ Named(d)'
        BY <1>1, <1>2, <1>4, <2>3, <3>2, <3>4 DEF WaitForAck
      <4>2. CASE d = 0
        <5>1. Quiet' \/ Working(1)'
          BY <2>3
        <5> QED
          BY <1>4, <2>3, <3>1, <4>1, <4>2, <5>1, FirstIdentified
      <4>3. CASE d = 1
        <5>1. Go(At("ask", "irqs"))
          BY <4>1, <4>3 DEF AfterIdentify
        <5>2. AllKnown'
          BY <1>4, <4>1, <4>3 DEF AllKnown, Device
        <5> QED
          BY <2>3, <5>1, <5>2, LastIdentified
      <4> QED
        BY <1>3, <4>2, <4>3
    <3> QED
      BY <2>3, <3>3, <3>4
  <2> QED
    BY <1>2, <1>5, <2>1, <2>2, <2>3, PassesOver
<1> QED
  BY <1>1, <1>3, <1>4, <1>6 DEF Visited, Visiting

LEMMA GetsFirstIdByte ==
    ASSUME NEW d \in Device, Identifying(d), FirstIdByte, Shape,
           hw \in Hardware, "mouse" \notin FirstDevices, UNCHANGED Beyond
    PROVE  Visited' /\ ibf = Empty /\ SamePorts(dev, dev')
<1>1. UNCHANGED <<prefix, config, queue, hw, ibf>> /\ pc[1] = "id" /\ Read
  BY DEF Beyond, FirstIdByte
<1>2. PICK s : s = Kind(d).id
  OBVIOUS
<1>3. pc = <<"id", d>> /\ Pending(d, s)
  BY <1>1, <1>2 DEF Identifying, Sending
<1>4. /\ Working(d) /\ Tried(0) /\ Tried(1) /\ (d = 1 => Named(0))
      /\ Shaped(dev) /\ 0 \in Device /\ 1 \in Device /\ d \in {0, 1}
  BY DEF Identifying, Shape, Device
<1>5. s = <<"AB", "83">> \/ s = <<"00">>
  BY <1>2, <1>4, Kinds DEF Keyboard, Mouse, Failing
<1>6. obf[2] = Head(s) /\ Head(s) = s[1] /\ Pending(d, Tail(s))'
  BY <1>1, <1>3, <1>5, Pops, Pairs
<1>7. /\ dev' = [dev EXCEPT ![d].device_id[0] = obf[2]]
      /\ pc' = <<"second_id_byte", d>>
  BY <1>3 DEF FirstIdByte, Go, At
<1>8. 0 \in DOMAIN dev[d].device_id
  BY <1>4 DEF Shaped
<1>9. /\ Rewritten(dev, dev', d) /\ SamePorts(dev, dev')
      /\ dev'[d].device_id[0] = obf[2]
      /\ dev'[d].device_working = dev[d].device_working
  BY <1>4, <1>7, <1>8 DEF Shaped, Entries, Field, Rewritten, SamePorts
<1>10. \A e \in Device : Kind(e)' = Kind(e) /\ (Working(e)' <=> Working(e))
  BY <1>1, SameHardware
<1>11. /\ Tried(0)' /\ Tried(1)' /\ Working(d)' /\ Named(d)'
       /\ d = 1 => Named(0)'
  <2>1. Named(d)'
    BY <1>2, <1>6, <1>9, <1>10 DEF Named
  <2>2. d = 1 => Named(0)'
    BY <1>4, <1>9, <1>10 DEF Named, Rewritten
  <2> QED
    BY <1>4, <1>9, <1>10, <2>1, <2>2 DEF Tried, Rewritten
<1>12. Pending(d, Tail(Kind(d).id))'
  BY <1>2, <1>6, <1>10 DEF Pending
<1>13. Identifying(d)'
  BY <1>7, <1>11, <1>12 DEF Identifying
<1> QED
  BY <1>3, <1>9, <1>13 DEF Visited, Visiting, Rewritten, Pending, Taken

\* The wait for the second byte ends at once; the byte stays where it is.
LEMMA GetsSecondIdByte ==
    ASSUME NEW d \in Device, Identifying(d), SecondIdByte, Shape, ClocksOn,
           hw \in Hardware, "mouse" \notin FirstDevices, UNCHANGED Beyond
    PROVE  Visited' /\ ibf = Empty /\ SamePorts(dev, dev')
<1>1. UNCHANGED <<prefix, config, queue, hw, ibf>> /\ pc[1] = "second_id_byte"
  BY DEF Beyond, SecondIdByte
<1>2. PICK s : s = Tail(Kind(d).id)
  OBVIOUS
<1>3. pc = <<"second_id_byte", d>> /\ Named(d) /\ Pending(d, s)
  BY <1>1, <1>2 DEF Identifying, Sending
<1>4. /\ Working(d) /\ Tried(0) /\ Tried(1) /\ (d = 1 => Named(0))
      /\ Shaped(dev) /\ 0 \in Device /\ 1 \in Device /\ d \in {0, 1}
  BY DEF Identifying, Shape, Device
<1>5. s = <<"83">> \/ s = <<>>
  <2>1. Kind(d).id = <<"AB", "83">> \/ Kind(d).id = <<"00">>
    BY <1>4, Kinds DEF Keyboard, Mouse, Failing
  <2>2. Tail(<<"AB", "83">>) = <<"83">> /\ Tail(<<"00">>) = <<>>
    BY Pairs
  <2> QED
    BY <1>2, <2>1, <2>2
<1>6. Taken /\ ibf = Empty
  BY <1>3 DEF Pending, Taken
<1>7. Settled /\ UNCHANGED <<dev, obf>> /\ Go(Send("F4", d))
  BY <1>3, <1>6 DEF SecondIdByte
<1>8. config.clock[d]
  BY <1>3, <1>4, <1>6 DEF ClocksOn, Taking, Empty, Working
<1>9. Unsent /\ (obf = Empty \/ obf[2] = "83")
  <2>1. CASE obf = Empty
    BY <1>3, <1>7, <1>8, <2>1 DEF Pending, Settled, Unsent
  <2>2. CASE obf # Empty
    <3>1. s = <<"83">> /\ obf[2] = Head(s) /\ queue[d] = Tail(s)
      BY <1>3, <1>5, <2>2 DEF Pending
    <3>2. obf[2] = "83" /\ queue[d] = <<>>
      BY <3>1, Pairs
    <3> QED
      BY <1>3, <3>2 DEF Pending, Unsent
  <2> QED
    BY <2>1, <2>2
<1>10. Lull("F4")' /\ Taken'
  BY <1>1, <1>6, <1>7, <1>9 DEF Lull, Unsent, Stray, Taken
<1>11. Sending(d, "F4")'
  BY <1>7, <1>10, StartsSending
<1>12. /\ Working(d)' /\ Tried(0)' /\ Tried(1)' /\ Named(d)'
       /\ (d = 1 => Named(0)') /\ Shaped(dev)' /\ SamePorts(dev, dev')
  BY <1>1, <1>3, <1>4, <1>7, SameKnowledge
<1>13. Identifying(d)'
  BY <1>11, <1>12 DEF Identifying
<1> QED
  BY <1>6, <1>12, <1>13 DEF Visited, Visiting

\* Every other step of main at the devices.
LEMMA GoesOnSending ==
    ASSUME NEW d \in Device, ResettingDevice(d) \/ Identifying(d), Shape,
           ControllerCommand \/ SendByte, UNCHANGED Beyond
    PROVE  /\ Visited' /\ ibf = Empty /\ UNCHANGED <<dev, hw>>
           /\ pc[1] # "reenable"
<1>1. Shaped(dev) /\ d \in {0, 1}
  BY DEF Shape, Device
<1>2. CASE ResettingDevice(d)
  <2>1. Sending(d, "FF")
    BY <1>2, CommandDoes DEF ResettingDevice, SendByte
  <2>2. /\ UNCHANGED <<dev, hw>> /\ ibf = Empty
        /\ Sending(d, "FF")' \/ (pc' = <<"response", d>> /\ Sent(d, "FF")')
    BY <2>1, SendsPrefix, SendsByte
  <2>3. ResettingDevice(d)'
    BY <1>1, <1>2, <2>2, SameKnowledge DEF ResettingDevice
  <2> QED
    BY <1>1, <2>1, <2>2, <2>3, SameKnowledge
       DEF Visited, Visiting, Sending
<1>3. CASE Identifying(d)
  <2>1. PICK b \in {"F5", "F2", "F4"} :
           Sending(d, b) /\ (b = "F4" => Named(d))
    BY <1>3, CommandDoes DEF Identifying, SendByte
  <2>2. /\ UNCHANGED <<dev, hw>> /\ ibf = Empty
        /\ Sending(d, b)' \/ (pc' = <<"ack", d>> /\ Sent(d, b)')
    BY <2>1, SendsPrefix, SendsByte
  <2>3. Identifying(d)'
    BY <1>1, <1>3, <2>1, <2>2, SameKnowledge DEF Identifying
  <2> QED
    BY <1>1, <2>1, <2>2, <2>3, SameKnowledge
       DEF Visited, Visiting, Sending
<1> QED
  BY <1>2, <1>3

LEMMA Asks ==
    ASSUME Reading, ControllerCommand, Shape, UNCHANGED Beyond
    PROVE  /\ Visited' /\ ibf = Empty /\ UNCHANGED <<dev, hw>>
           /\ pc[1] # "reenable"
<1>1. UNCHANGED <<prefix, config, queue, hw>>
  BY DEF Beyond
<1>2. /\ ibf = Empty /\ UNCHANGED <<dev, obf>> /\ pc = <<"ask", "irqs">>
      /\ ibf' = <<"command", "20">> /\ pc' = <<"get", "irqs">>
  BY CommandDoes DEF Reading
<1>3. Answering("20")'
  BY <1>2 DEF Reading, Answering, Taking
<1>4. AllKnown' /\ Shaped(dev)' /\ Unsent'
  BY <1>1, <1>2, SameKnowledge DEF Reading, Shape, Unsent
<1> QED
  BY <1>1, <1>2, <1>3, <1>4 DEF Reading, Visited, Visiting

-----------------------------------------------------------------------------
(* The last configuration.                                                 *)

LEMMA LastConfig ==
    ASSUME config \in Config
    PROVE  /\ Irqs(config) \in Config
           /\ Irqs(config).clock = config.clock
           /\ Irqs(config).translation = config.translation
           /\ \A d \in Device : Irqs(config).int[d] <=>
                 config.int[d] \/ dev[d].port_working
<1> DEFINE i == [d \in Device |-> config.int[d] \/ dev[d].port_working]
<1>1. config = [int |-> config.int, clock |-> config.clock,
                translation |-> config.translation]
  BY DEF Config
<1>2. Irqs(config) = [config EXCEPT !.int = i]
  BY DEF Irqs
<1>3. i \in [Device -> BOOLEAN]
  <2>1. \A d \in Device : (config.int[d] \/ dev[d].port_working) \in BOOLEAN
    BY Zenon
  <2> QED
    BY <2>1, Zenon
<1>4. \A d \in Device : i[d] <=> config.int[d] \/ dev[d].port_working
  BY Zenon
<1> HIDE DEF i
<1>5. Irqs(config) = [int |-> i, clock |-> config.clock,
                      translation |-> config.translation]
  BY <1>1, <1>2
<1> QED
  BY <1>3, <1>4, <1>5 DEF Config

LEMMA GetsLastConfig ==
    ASSUME Trying, GetConfig, Shape, config \in Config, ~config.int[0],
           UNCHANGED Beyond
    PROVE  Ending' /\ Shaped(dev)'
<1>1. UNCHANGED <<prefix, config, queue, hw, ibf, dev>>
  BY DEF Beyond, GetConfig
<1>2. pc[1] = "get" /\ obf # Empty
  BY DEF GetConfig, Read
<1>3. Reading /\ PortsKnown /\ Muted(config) /\ ClocksOn
  BY <1>2 DEF Trying, Visiting, EnablingPort, ResettingDevice, Identifying,
              Sending
<1>4. pc = <<"get", "irqs">> /\ ibf = Empty /\ obf[2] = Answer("20") /\ AllKnown
  BY <1>2, <1>3 DEF Reading, Answering
<1>5. AsConfig(obf[2]) = config
  BY <1>4 DEF AsConfig, Answer
<1>6. /\ cc' = Irqs(config) /\ UNCHANGED dual
      /\ Go(At("write", "irqs"))
  BY <1>4, <1>5 DEF GetConfig
<1>7. pc' = <<"write", "irqs">>
  BY <1>6 DEF Go, At
<1>8. PortsKnown' /\ AllKnown' /\ Shaped(dev)'
  BY <1>1, <1>3, <1>4, <1>6, SameKnowledge DEF Shape
<1>9. cc' \in Config /\ Wanted(cc)'
  <2>1. \A d \in Device : hw.port[d] => config.clock[d]
    BY <1>3, <1>4 DEF ClocksOn, Taking, Empty
  <2>2. \A d \in Device : dev[d].port_working <=> hw.port[d]
    BY <1>3 DEF PortsKnown
  <2>3. ~config.translation /\ (hw.dual => ~config.int[1])
    BY <1>3 DEF Muted
  <2>4. /\ cc' \in Config /\ cc'.clock = config.clock
        /\ cc'.translation = config.translation
        /\ \A d \in Device : cc'.int[d] <=> config.int[d] \/ dev[d].port_working
    BY <1>6, LastConfig
  <2> QED
    BY <1>1, <2>1, <2>2, <2>3, <2>4 DEF Wanted, Device
<1> QED
  BY <1>1, <1>4, <1>7, <1>8, <1>9 DEF Ending

\* Announcing the last configuration, and writing it.
LEMMA Finishes ==
    ASSUME Ending, ControllerCommand \/ WriteArgument, Shape, UNCHANGED Beyond
    PROVE  Ending' /\ Shaped(dev)'
<1>1. UNCHANGED <<prefix, config, queue, hw>>
  BY DEF Beyond
<1>2. CASE ControllerCommand
  <2>1. /\ pc = <<"write", "irqs">> /\ Wanted(cc) /\ cc \in Config
        /\ PortsKnown /\ AllKnown
    BY <1>2, CommandDoes DEF Ending
  <2>2. UNCHANGED <<dev, cc, dual>> /\ pc' = <<"argument", "irqs">>
        /\ ibf' = <<"command", "60">>
    BY <1>2, <2>1, CommandDoes DEF ControllerCommand
  <2>3. PortsKnown' /\ AllKnown' /\ Shaped(dev)'
    BY <1>1, <2>1, <2>2, SameKnowledge DEF Shape
  <2>4. Wanted(cc)' /\ Announced'
    BY <1>1, <2>1, <2>2 DEF Wanted, Announced, Taking
  <2> QED
    BY <2>1, <2>2, <2>3, <2>4 DEF Ending
<1>3. CASE WriteArgument
  <2>1. pc[1] = "argument" /\ ibf = Empty /\ ibf' = <<"data", "CC">>
        /\ UNCHANGED <<dev, cc, dual>>
    BY <1>3 DEF WriteArgument, Data
  <2>2. /\ pc = <<"argument", "irqs">> /\ Wanted(cc) /\ cc \in Config
        /\ PortsKnown /\ AllKnown /\ Announced
    BY <2>1 DEF Ending
  <2>3. pc' = <<"done", 0>>
    BY <1>3, <2>2 DEF WriteArgument, Go, At
  <2>4. prefix' = "60" /\ Wanted(cc)'
    BY <1>1, <2>1, <2>2, PairsAreFull DEF Wanted, Announced, Taking
  <2>5. PortsKnown' /\ AllKnown' /\ Shaped(dev)'
    BY <1>1, <2>1, <2>2, SameKnowledge DEF Shape
  <2> QED
    BY <2>1, <2>2, <2>3, <2>4, <2>5 DEF Ending
<1> QED
  BY <1>2, <1>3

-----------------------------------------------------------------------------
(* Up to the tests of the ports.                                           *)

LEMMA LearnsInSetUp ==
    ASSUME Order, strikes = 0, Learning
    PROVE  SettingUp
  BY DEF Order, Learning, Resetting, ResetPlace, ResetLabel, FinalPlace

LEMMA LearnsOn ==
    ASSUME Learning, SettingUp, ControllerCommand, Shape, UNCHANGED Beyond
    PROVE  Learning' /\ Shaped(dev)'
<1>1. UNCHANGED <<prefix, config, queue, hw, cc, obf, dev, dual>> /\ ibf = Empty
  BY CommandDoes DEF Beyond, ControllerCommand
<1>2. pc \in {<<"disable", 1>>, <<"disable", 0>>, <<"flush", 0>>,
              <<"ask", "setup">>, <<"get", "setup">>, <<"write", "setup">>,
              <<"argument", "setup">>, <<"self_test", 0>>,
              <<"test_result", 0>>, <<"second_port", 1>>,
              <<"ask", "channels">>, <<"get", "channels">>,
              <<"redisable", 1>>, <<"write", "channels">>,
              <<"argument", "channels">>, <<"test_port", 0>>,
              <<"port_result", 0>>, <<"test_port", 1>>,
              <<"port_result", 1>>}
  BY SetUpPlaces DEF SettingUp
<1>3. /\ (NonePassed' <=> NonePassed) /\ (Muted(cc)' <=> Muted(cc))
      /\ (Muted(config)' <=> Muted(config)) /\ Shaped(dev)'
      /\ (Untried(0)' <=> Untried(0))
  BY <1>1, SameKnowledge DEF NonePassed, Muted, Shape
<1>4. CASE pc[1] \in {"disable", "flush"}
  BY <1>1, <1>2, <1>3, <1>4, CommandDoes DEF Learning
<1>5. CASE pc = <<"ask", "setup">> \/ pc = <<"write", "setup">>
  BY <1>1, <1>3, <1>5, CommandDoes DEF Learning
<1>6. CASE pc = <<"self_test", 0>>
  BY <1>1, <1>3, <1>6, CommandDoes DEF Learning
<1>7. CASE pc = <<"second_port", 1>>
  BY <1>1, <1>3, <1>7, CommandDoes DEF Learning, Taking
<1>8. CASE pc = <<"ask", "channels">>
  BY <1>1, <1>3, <1>8, CommandDoes DEF Learning, Taking, Empty
<1>9. CASE pc = <<"redisable", 1>> \/ pc = <<"write", "channels">>
  BY <1>1, <1>3, <1>9, CommandDoes DEF Learning
<1>10. CASE pc[1] = "test_port"
  BY <1>1, <1>2, <1>3, <1>10, CommandDoes DEF Learning, Empty
<1> QED
  BY <1>2, <1>3, <1>4, <1>5, <1>6, <1>7, <1>8, <1>9, <1>10, CommandDoes

LEMMA LearnsFlush ==
    ASSUME Learning, Flush, Shape, UNCHANGED Beyond
    PROVE  Learning' /\ Shaped(dev)'
<1>1. UNCHANGED <<hw, dev>> /\ pc[1] = "flush" /\ pc' = <<"ask", "setup">>
  BY DEF Beyond, Flush, Go, At
<1>2. NonePassed
  BY <1>1 DEF Learning
<1> QED
  BY <1>1, <1>2, SameKnowledge DEF Learning, NonePassed, Shape

LEMMA SetupsChange ==
    ASSUME NEW c \in Config
    PROVE  /\ ~Setup(c).translation
           /\ Channels(c).translation = c.translation
           /\ Channels(c).clock = c.clock
           /\ c.clock[1] => ~Channels(c).int[1]
<1>1. c = [int |-> c.int, clock |-> c.clock, translation |-> c.translation]
      /\ c.int \in [Device -> BOOLEAN] /\ 1 \in Device
  BY DEF Config, Device
<1>2. ~Setup(c).translation
  BY <1>1 DEF Setup
<1>3. Channels(c).translation = c.translation /\ Channels(c).clock = c.clock
  BY <1>1 DEF Channels
<1>4. c.clock[1] => Channels(c).int[1] = FALSE
  BY <1>1 DEF Channels
<1> QED
  BY <1>2, <1>3, <1>4

LEMMA LearnsConfig ==
    ASSUME Learning, SettingUp, GetConfig, Shape, UNCHANGED Beyond
    PROVE  Learning' /\ Shaped(dev)'
<1>1. UNCHANGED <<prefix, config, queue, hw, dev, ibf>> /\ pc[1] = "get"
      /\ obf # Empty
  BY DEF Beyond, GetConfig, Read
<1>2. /\ pc = <<"get", "setup">> \/ pc = <<"get", "channels">>
      /\ ibf = Empty /\ obf[2] = Answer("20") /\ config \in Config
  BY <1>1, SetUpPlaces DEF SettingUp, Disabling, Testing, Answering
<1>3. AsConfig(obf[2]) = config
  BY <1>2 DEF AsConfig, Answer
<1>4. /\ (NonePassed' <=> NonePassed) /\ Shaped(dev)'
      /\ (Muted(config)' <=> Muted(config))
  BY <1>1, SameKnowledge DEF NonePassed, Muted, Shape
<1>5. CASE pc = <<"get", "setup">>
  <2>1. cc' = Setup(config) /\ Go(At("write", "setup"))
    BY <1>3, <1>5 DEF GetConfig
  <2>2. pc' = <<"write", "setup">> /\ ~cc'.translation
    BY <1>2, <2>1, SetupsChange DEF Go, At
  <2>3. NonePassed
    BY <1>5 DEF Learning
  <2> QED
    BY <1>4, <2>2, <2>3 DEF Learning
<1>6. CASE pc = <<"get", "channels">>
  <2>1. /\ cc' = Channels(config) /\ dual' = cc'.clock[1]
        /\ Go(IF dual' THEN At("redisable", 1) ELSE At("test_port", 0))
    BY <1>3, <1>6 DEF GetConfig
  <2>2. /\ NonePassed /\ ~config.translation /\ hw.test
        /\ config.clock[1] <=> hw.dual
    BY <1>2, <1>6 DEF Learning, Taking, Empty
  <2>3. /\ dual' <=> hw.dual
        /\ pc' = IF dual' THEN <<"redisable", 1>> ELSE <<"test_port", 0>>
    BY <1>2, <2>1, <2>2, SetupsChange DEF Go, At
  <2>4. hw.dual => Muted(cc)'
    BY <1>1, <1>2, <2>1, <2>2, SetupsChange DEF Muted
  <2>5. CASE hw.dual
    BY <1>1, <1>4, <2>2, <2>3, <2>4, <2>5 DEF Learning
  <2>6. CASE ~hw.dual
    <3>1. Muted(config)' /\ ibf' # <<"data", "CC">>
      BY <1>1, <1>2, <1>4, <2>2, <2>6, PairsAreFull DEF Muted
    <3>2. pc' = <<"test_port", 0>> /\ (dual' <=> hw'.dual) /\ hw'.test
      BY <1>1, <2>2, <2>3, <2>6
    <3>3. \A d \in {0, 1} : ~dev'[d].port_working /\ ~dev'[d].device_working
      BY <1>1, <2>2 DEF NonePassed, Device
    <3> QED
      BY <1>4, <3>1, <3>2, <3>3 DEF Learning
  <2> QED
    BY <2>5, <2>6
<1> QED
  BY <1>2, <1>5, <1>6

LEMMA LearnsArgument ==
    ASSUME Learning, SettingUp, WriteArgument, Shape, UNCHANGED Beyond
    PROVE  Learning' /\ Shaped(dev)'
<1>1. /\ UNCHANGED <<prefix, config, queue, hw, dev, cc, dual>>
      /\ pc[1] = "argument" /\ ibf' = <<"data", "CC">>
  BY DEF Beyond, WriteArgument, Data
<1>2. pc = <<"argument", "setup">> \/ pc = <<"argument", "channels">>
  BY <1>1, SetUpPlaces DEF SettingUp
<1>3. /\ (NonePassed' <=> NonePassed) /\ Shaped(dev)'
      /\ (Muted(cc)' <=> Muted(cc))
  BY <1>1, SameKnowledge DEF NonePassed, Muted, Shape
<1>4. CASE pc = <<"argument", "setup">>
  <2>1. pc' = <<"self_test", 0>>
    BY <1>4 DEF WriteArgument, Go, At
  <2>2. NonePassed /\ ~cc.translation /\ ibf' # Empty
    BY <1>1, <1>4, PairsAreFull DEF Learning
  <2> QED
    BY <1>1, <1>3, <2>1, <2>2 DEF Learning
<1>5. CASE pc = <<"argument", "channels">>
  <2>1. pc' = <<"test_port", 0>>
    BY <1>5 DEF WriteArgument, Go, At
  <2>2. NonePassed /\ hw.test /\ dual /\ hw.dual /\ Muted(cc)
    BY <1>5 DEF Learning
  <2>3. \A d \in {0, 1} : ~dev'[d].port_working /\ ~dev'[d].device_working
    BY <1>1, <2>2 DEF NonePassed, Device
  <2> QED
    BY <1>1, <1>3, <2>1, <2>2, <2>3 DEF Learning
<1> QED
  BY <1>2, <1>4, <1>5

LEMMA LearnsTest ==
    ASSUME Learning, SettingUp, TestResult, Shape, UNCHANGED Beyond
    PROVE  (Learning' \/ Ending') /\ Shaped(dev)'
<1>1. /\ UNCHANGED <<config, queue, hw, dev, cc, dual, ibf>>
      /\ pc[1] = "test_result" /\ obf # Empty
  BY DEF Beyond, TestResult, Read
<1>2. pc = <<"test_result", 0>>
  BY <1>1, SetUpPlaces DEF SettingUp
<1>3. obf[2] = Answer("AA")
  BY <1>1, <1>2 DEF SettingUp, Disabling, Testing, Answering
<1>4. obf[2] = IF hw.test THEN "55" ELSE "FC"
  BY <1>3 DEF Answer
<1>5. pc' = IF hw.test THEN <<"second_port", 1>> ELSE <<"done", 1>>
  BY <1>4 DEF TestResult, Go, At
<1>6. NonePassed /\ ~config.translation
  BY <1>2 DEF Learning
<1>7. NonePassed' /\ Shaped(dev)'
  BY <1>1, <1>6, SameKnowledge DEF NonePassed, Shape
<1>8. CASE hw.test
  BY <1>1, <1>5, <1>6, <1>7, <1>8 DEF Learning
<1>9. CASE ~hw.test
  BY <1>1, <1>5, <1>7, <1>9 DEF Ending
<1> QED
  BY <1>8, <1>9

LEMMA LearnsPort ==
    ASSUME Learning, SettingUp, PortResult, Shape, UNCHANGED Beyond
    PROVE  (Learning' \/ Trying' \/ Ending') /\ Shaped(dev)'
<1> DEFINE d == pc[2]
<1>1. /\ UNCHANGED <<config, queue, hw, cc, dual, ibf>>
      /\ pc[1] = "port_result" /\ obf # Empty /\ obf' = Empty
  BY DEF Beyond, PortResult, Read
<1>2. /\ pc = <<"port_result", d>> /\ d \in {0, 1}
      /\ 0 \in Device /\ 1 \in Device /\ d \in Device
  BY <1>1, SetUpPlaces DEF SettingUp, Device
<1>3. /\ ibf = Empty /\ Unsent
      /\ obf[2] = Answer(IF d = 0 THEN "AB" ELSE "A9")
  BY <1>1, <1>2 DEF SettingUp, Disabling, Testing, Answering, Unsent
<1>4. obf[2] = "00" <=> hw.port[d]
  BY <1>2, <1>3 DEF Answer
<1>5. /\ hw.test /\ (dual <=> hw.dual) /\ Muted(config)
      /\ ~dev[1].port_working /\ ~dev[1].device_working
      /\ d = 1 => hw.dual /\ (dev[0].port_working <=> hw.port[0]) /\ Untried(0)
  BY <1>1, <1>2, <1>3 DEF Learning, Empty
<1>6. dev' = [dev EXCEPT ![d].port_working = obf[2] = "00",
                         ![d].device_working = obf[2] = "00"]
  BY DEF PortResult
<1> HIDE DEF d
<1>7. /\ Rewritten(dev, dev', d)
      /\ dev'[d].port_working <=> hw.port[d]
      /\ dev'[d].device_working <=> hw.port[d]
  <2> DEFINE v == obf[2] = "00"
  <2>1. dev' = [dev EXCEPT ![d].port_working = v, ![d].device_working = v]
    BY <1>6
  <2>2. v <=> hw.port[d]
    BY <1>4
  <2> HIDE DEF v
  <2>3. Rewritten(dev, dev', d) /\ dev'[d].port_working = v
        /\ dev'[d].device_working = v
    BY <1>2, <2>1 DEF Shape, Shaped, Entries, Field, Rewritten
  <2> QED
    BY <2>2, <2>3
<1>8. Shaped(dev)' /\ Muted(config)'
  BY <1>1, <1>5, <1>7 DEF Rewritten, Muted
<1>9. CASE d = 0 /\ dual
  <2>1. pc' = <<"test_port", 1>>
    BY <1>9 DEF PortResult, Go, At, d
  <2>2. /\ ~dev'[1].port_working /\ ~dev'[1].device_working
        /\ (dev'[0].port_working <=> hw'.port[0]) /\ Untried(0)'
    BY <1>1, <1>2, <1>5, <1>7, <1>9 DEF Rewritten, Untried
  <2>3. ibf' # <<"data", "CC">>
    BY <1>1, <1>3, PairsAreFull
  <2> QED
    BY <1>1, <1>5, <1>8, <1>9, <2>1, <2>2, <2>3 DEF Learning
<1>10. CASE ~(d = 0 /\ dual)
  <2>1. /\ \A e \in Device : dev'[e].port_working <=> hw'.port[e]
        /\ Untried(0)' /\ Untried(1)'
    <3>1. d = 0 => ~hw.port[1]
      BY <1>5, <1>10 DEF Shape
    <3>2. /\ (dev'[0].port_working <=> hw'.port[0])
          /\ (dev'[0].device_working <=> hw'.port[0])
      BY <1>1, <1>2, <1>5, <1>7 DEF Rewritten, Untried
    <3>3. /\ (dev'[1].port_working <=> hw'.port[1])
          /\ (dev'[1].device_working <=> hw'.port[1])
      BY <1>1, <1>2, <1>5, <1>7, <3>1 DEF Rewritten
    <3> QED
      BY <3>2, <3>3 DEF Untried, Device
  <2>2. CASE \E e \in Device : dev'[e].port_working
    <3>1. Go(Reenable(dev'))
      BY <1>10, <2>2 DEF PortResult, d
    <3>2. pc' = <<"reenable", IF hw'.port[0] THEN 0 ELSE 1>>
      BY <1>2, <2>1, <3>1 DEF Reenable, Go, At
    <3>3. PortsKnown'
      BY <1>1, <1>5, <2>1, <2>2 DEF PortsKnown
    <3>4. ClocksOn'
      BY <3>2 DEF ClocksOn, Device
    <3>5. Quiet' /\ ibf' = Empty
      BY <1>1, <1>3 DEF Quiet, Unsent
    <3>6. \E e \in Device : EnablingPort(e)'
      <4>1. CASE hw'.port[0]
        BY <1>2, <2>1, <3>2, <3>5, <4>1 DEF EnablingPort
      <4>2. CASE ~hw'.port[0]
        <5>1. hw'.port[1]
          BY <2>1, <2>2, <4>2 DEF Device
        <5> QED
          BY <1>2, <2>1, <3>2, <3>5, <4>2, <5>1 DEF EnablingPort
      <4> QED
        BY <4>1, <4>2
    <3> QED
      BY <1>8, <3>3, <3>4, <3>6 DEF Trying, Visiting
  <2>3. CASE ~\E e \in Device : dev'[e].port_working
    <3>1. pc' = <<"done", 2>>
      BY <1>10, <2>3 DEF PortResult, Go, At, d
    <3> QED
      BY <1>1, <1>5, <1>8, <2>1, <2>3, <3>1 DEF Ending
  <2> QED
    BY <2>2, <2>3
<1> QED
  BY <1>9, <1>10

-----------------------------------------------------------------------------
(* The controller takes what it is given.                                  *)

LEMMA TakesClocks ==
    ASSUME TakeCommand, config \in Config, hw \in Hardware
    PROVE  /\ config'.translation = config.translation
           /\ config'.int = config.int
           /\ ibf[2] # "AD" /\ config.clock[0] => config'.clock[0]
           /\ ibf[2] = "AE" => config'.clock[0]
           /\ ibf[2] # "A7" /\ ibf[2] # "A8" =>
                 (config'.clock[1] <=> config.clock[1])
           /\ ibf[2] = "A8" => (config'.clock[1] <=> hw.dual)
<1>1. /\ config.clock \in [Device -> BOOLEAN] /\ hw.dual \in BOOLEAN
      /\ 0 \in Device /\ 1 \in Device /\ 0 # 1
      /\ config = [int |-> config.int, clock |-> config.clock,
                   translation |-> config.translation]
  BY DEF Config, Hardware, Device
<1>2. ASSUME NEW on \in BOOLEAN
      PROVE  /\ Clocked(0, on).translation = config.translation
             /\ Clocked(1, on).translation = config.translation
             /\ Clocked(0, on).int = config.int
             /\ Clocked(1, on).int = config.int
             /\ Clocked(0, on).clock[0] = on
             /\ Clocked(0, on).clock[1] = config.clock[1]
             /\ Clocked(1, on).clock[0] = config.clock[0]
             /\ Clocked(1, on).clock[1] = on
  BY <1>1 DEF Clocked
<1>3. /\ ibf[2] = "AD" => config' = Clocked(0, FALSE)
      /\ ibf[2] = "AE" => config' = Clocked(0, TRUE)
      /\ ibf[2] = "A7" => config' = Clocked(1, FALSE)
      /\ ibf[2] = "A8" => config' = Clocked(1, hw.dual)
      /\ ibf[2] \notin {"AD", "AE", "A7", "A8"} => config' = config
  BY DEF TakeCommand
<1>4. CASE ibf[2] \in {"AD", "AE"}
  <2>1. config' \in {Clocked(0, FALSE), Clocked(0, TRUE)}
    BY <1>3, <1>4
  <2> QED
    BY <1>1, <1>2, <1>3, <1>4, <2>1
<1>5. CASE ibf[2] = "A7"
  <2>1. config' = Clocked(1, FALSE)
    BY <1>3, <1>5
  <2> QED
    BY <1>2, <1>5, <2>1
<1>7. CASE ibf[2] = "A8"
  <2>1. config' = Clocked(1, hw.dual)
    BY <1>3, <1>7
  <2> QED
    BY <1>1, <1>2, <1>7, <2>1
<1>6. CASE ibf[2] \notin {"AD", "AE", "A7", "A8"}
  BY <1>3, <1>6
<1> QED
  BY <1>4, <1>5, <1>6, <1>7

LEMMA TakesCommandInSetUp ==
    ASSUME Learning, SettingUp, TakeCommand, Shape, hw \in Hardware,
           UNCHANGED <<mainVars, hw>>
    PROVE  Learning'
<1>1. /\ UNCHANGED <<pc, cc, dual, dev, hw>> /\ ibf # Empty
      /\ ibf[1] = "command" /\ ibf' = Empty /\ config \in Config
  BY DEF mainVars, TakeCommand, SettingUp
<1>2. /\ (NonePassed' <=> NonePassed) /\ (Untried(0)' <=> Untried(0))
      /\ (Muted(cc)' <=> Muted(cc)) /\ (Muted(config)' <=> Muted(config))
      /\ (~config.translation)' <=> ~config.translation
  BY <1>1, TakesClocks DEF NonePassed, Untried, Muted
<1>3. pc # <<"self_test", 0>> /\ ibf # <<"data", "CC">>
  BY <1>1 DEF SettingUp, Disabling, Testing, Given
<1>4. CASE pc[2] = "channels" /\ pc[1] \in {"ask", "get"}
  <2>1. Taking("A8") \/ Taking("20")
    BY <1>1, <1>4 DEF SettingUp, Disabling, Testing, Answering
  <2>2. config'.clock[1] <=> hw'.dual
    BY <1>1, <1>4, <2>1, TakesClocks DEF Learning, Taking
  <2>3. NonePassed /\ hw.test /\ ~config.translation
    BY <1>4 DEF Learning
  <2>4. pc' = <<"ask", "channels">> \/ pc' = <<"get", "channels">>
    BY <1>1, <1>4 DEF Learning
  <2> QED
    BY <1>1, <1>2, <2>2, <2>3, <2>4 DEF Learning
<1>5. CASE pc[1] \in {"test_port", "port_result"}
  <2>1. ibf' # <<"data", "CC">>
    BY <1>1, PairsAreFull
  <2> QED
    BY <1>1, <1>2, <1>3, <1>5, <2>1 DEF Learning
<1>6. CASE /\ ~(pc[2] = "channels" /\ pc[1] \in {"ask", "get"})
           /\ pc[1] \notin {"test_port", "port_result"}
  BY <1>1, <1>2, <1>3, <1>6 DEF Learning
<1> QED
  BY <1>4, <1>5, <1>6

LEMMA TakesConfig ==
    ASSUME TakeData, prefix = "60", cc \in Config, UNCHANGED <<mainVars, hw>>
    PROVE  /\ config' \in Config /\ config'.int = cc.int
           /\ config'.translation = cc.translation
           /\ config'.clock[0] = cc.clock[0]
           /\ config'.clock[1] <=> cc.clock[1] /\ hw.dual
           /\ UNCHANGED queue
<1> DEFINE on == cc.clock[1] /\ hw.dual
<1>1. config' = [cc EXCEPT !.clock[1] = on] /\ UNCHANGED queue
  BY DEF TakeData
<1>2. on \in BOOLEAN
  BY Zenon
<1>3. on <=> cc.clock[1] /\ hw.dual
  OBVIOUS
<1> HIDE DEF on
<1>4. /\ config' \in Config /\ config'.int = cc.int
      /\ config'.translation = cc.translation
      /\ config'.clock[0] = cc.clock[0] /\ config'.clock[1] = on
  BY <1>1, <1>2 DEF Config, Device
<1> QED
  BY <1>1, <1>3, <1>4

LEMMA TakesConfigInSetUp ==
    ASSUME Learning, SettingUp, TakeData, Shape, UNCHANGED <<mainVars, hw>>
    PROVE  Learning' /\ UNCHANGED queue
<1>1. /\ UNCHANGED <<pc, cc, dual, dev, hw>> /\ ibf # Empty
      /\ ibf[1] = "data" /\ ibf' = Empty /\ cc \in Config
  BY DEF mainVars, TakeData, SettingUp
<1>2. /\ pc = <<"self_test", 0>> \/ pc = <<"test_port", 0>>
      /\ ibf = <<"data", "CC">> /\ prefix = "60"
  BY <1>1 DEF SettingUp, Disabling, Testing, Given, Silenced, Taking,
              Answering, Announced
<1>3. /\ config'.int = cc.int /\ config'.translation = cc.translation
      /\ UNCHANGED queue
  BY <1>1, <1>2, TakesConfig
<1>4. NonePassed' <=> NonePassed
  BY <1>1 DEF NonePassed
<1>5. Muted(cc) => Muted(config)'
  BY <1>1, <1>3 DEF Muted
<1>6. CASE pc = <<"self_test", 0>>
  BY <1>1, <1>3, <1>4, <1>6 DEF Learning
<1>7. CASE pc = <<"test_port", 0>>
  <2>1. ibf' # <<"data", "CC">>
    BY <1>1, PairsAreFull
  <2>2. /\ hw.test /\ (dual <=> hw.dual) /\ Muted(cc)
        /\ \A d \in {0, 1} : ~dev[d].port_working /\ ~dev[d].device_working
    BY <1>2, <1>7 DEF Learning, NonePassed, Device
  <2> QED
    BY <1>1, <1>3, <1>5, <1>7, <2>1, <2>2 DEF Learning
<1> QED
  BY <1>2, <1>3, <1>6, <1>7

LEMMA TakesCommandVisiting ==
    ASSUME Trying, TakeCommand, Shape, hw \in Hardware, config \in Config,
           UNCHANGED <<mainVars, hw>>
    PROVE  Trying'
<1>1. /\ UNCHANGED <<pc, byte, cc, dual, dev, hw, queue>> /\ ibf # Empty
      /\ ibf[1] = "command" /\ ibf' = Empty
      /\ prefix' = IF ibf[2] \in {"60", "D4"} THEN ibf[2] ELSE "none"
  BY DEF mainVars, TakeCommand
<1>2. PortsKnown' /\ Muted(config)'
  BY <1>1, TakesClocks, SameKnowledge DEF Trying, Muted
<1>3. Unsent' <=> Unsent
  BY <1>1 DEF Unsent
<1>4. CASE Reading
  <2>1. Taking("20") /\ pc = <<"get", "irqs">>
    BY <1>1, <1>4 DEF Reading, Taken, Answering
  <2>2. obf' = <<Chip, Answer("20")>> /\ prefix' = "none" /\ config' = config
    BY <1>1, <2>1 DEF TakeCommand, Taking
  <2>3. Answering("20")'
    BY <1>1, <2>2, PairsAreFull DEF Answering, Answer
  <2>4. Reading'
    BY <1>1, <1>3, <1>4, <2>1, <2>3, SameKnowledge DEF Reading
  <2>5. ClocksOn'
    BY <1>1, <2>1, <2>2 DEF Trying, ClocksOn, Taking
  <2> QED
    BY <1>2, <2>4, <2>5 DEF Trying, Visiting
<1>5. ASSUME NEW d \in Device,
             EnablingPort(d) \/ ResettingDevice(d) \/ Identifying(d)
      PROVE  Trying'
  <2>1. \/ EnablingPort(d) /\ Taking("AE")
        \/ \E b : /\ Sending(d, b)
                  /\ \/ b = "FF" /\ ResettingDevice(d)
                     \/ /\ b \in {"F5", "F2", "F4"} /\ Identifying(d)
                        /\ b = "F4" => Named(d)
    <3>1. ~Taken /\ ibf # Empty /\ \A b : ibf # <<"data", b>>
      BY <1>1 DEF Taken
    <3>2. \A s : ~Pending(d, s)
      BY <3>1 DEF Pending
    <3>3. \A b : ~Sent(d, b)
      BY <3>1, <3>2 DEF Sent
    <3>4. EnablingPort(d) => Taking("AE")
      BY <3>1 DEF EnablingPort
    <3>5. ResettingDevice(d) => Sending(d, "FF")
      BY <3>2, <3>3 DEF ResettingDevice
    <3>6. Identifying(d) => \E b \in {"F5", "F2", "F4"} :
                               (b = "F4" => Named(d)) /\ Sending(d, b)
      BY <3>2, <3>3 DEF Identifying
    <3> QED
      BY <1>5, <3>4, <3>5, <3>6
  <2>2. Taking("AE") \/ Taking("A8") \/ Taking("D4")
    BY <1>1, <2>1 DEF Sending, Enabling, Taken
  <2>3. UNCHANGED obf
    BY <2>2 DEF TakeCommand, Taking
  <2>4. ClocksOn'
    <3>1. hw.port[1] => hw.dual
      BY DEF Shape
    <3>2. ClocksOn
      BY DEF Trying
    <3>3. hw.port[0] =>
             config'.clock[0] \/ pc = <<"reenable", 0>>
      BY <2>2, <3>2, TakesClocks DEF ClocksOn, Taking, Device
    <3>4. hw.port[1] =>
             config'.clock[1] \/ pc = <<"reenable", 0>> \/ pc = <<"reenable", 1>>
      BY <2>2, <3>1, <3>2, TakesClocks DEF ClocksOn, Taking, Device
    <3> QED
      BY <1>1, <3>3, <3>4 DEF ClocksOn, Device
  <2>5. CASE EnablingPort(d)
    <3>1. EnablingPort(d)'
      BY <1>1, <1>3, <2>3, <2>5, SameKnowledge DEF EnablingPort, Quiet
    <3> QED
      BY <1>2, <2>4, <3>1 DEF Trying, Visiting
  <2>6. ASSUME NEW b, Sending(d, b)
        PROVE  Sending(d, b)'
    <3>1. Lull(b)'
      BY <1>3, <2>3, <2>6 DEF Sending, Lull
    <3> QED
      BY <1>1, <2>2, <2>6, <3>1 DEF Sending, Taken, Enabling, Taking
  <2>7. CASE ResettingDevice(d) /\ Sending(d, "FF")
    <3>1. ResettingDevice(d)'
      BY <1>1, <2>6, <2>7, SameKnowledge DEF ResettingDevice
    <3> QED
      BY <1>2, <2>4, <3>1 DEF Trying, Visiting
  <2>8. ASSUME NEW b \in {"F5", "F2", "F4"}, Identifying(d), Sending(d, b),
               b = "F4" => Named(d)
        PROVE  Trying'
    <3>1. Identifying(d)'
      BY <1>1, <2>6, <2>8, SameKnowledge DEF Identifying
    <3> QED
      BY <1>2, <2>4, <3>1 DEF Trying, Visiting
  <2>9. CASE \E b : /\ Sending(d, b)
                    /\ \/ b = "FF" /\ ResettingDevice(d)
                       \/ /\ b \in {"F5", "F2", "F4"} /\ Identifying(d)
                          /\ b = "F4" => Named(d)
    <3>1. PICK b : /\ Sending(d, b)
                   /\ \/ b = "FF" /\ ResettingDevice(d)
                      \/ /\ b \in {"F5", "F2", "F4"} /\ Identifying(d)
                         /\ b = "F4" => Named(d)
      BY <2>9
    <3>2. CASE b = "FF" /\ ResettingDevice(d)
      BY <2>7, <3>1, <3>2
    <3>3. CASE /\ b \in {"F5", "F2", "F4"} /\ Identifying(d)
               /\ b = "F4" => Named(d)
      BY <2>8, <3>1, <3>3
    <3> QED
      BY <3>1, <3>2, <3>3
  <2> QED
    BY <2>1, <2>5, <2>9
<1> QED
  BY <1>4, <1>5 DEF Trying, Visiting

\* What the device answers is what main reads next.
LEMMA Replies ==
    ASSUME NEW d \in Device, NEW b, Sent(d, b), TakeData, Shape,
           UNCHANGED <<mainVars, hw>>,
           \/ b = "FF" /\ (Keyboard(d) \/ Mouse(d) \/ Failing(d))
           \/ b \in {"F5", "F2", "F4"} /\ (Keyboard(d) \/ Mouse(d))
    PROVE  Sent(d, b)' /\ UNCHANGED config /\ DOMAIN queue' = Device
<1>1. /\ UNCHANGED <<byte, hw, obf>> /\ ibf # Empty /\ ibf' = Empty
      /\ prefix' = "none"
  BY DEF mainVars, TakeData
<1>2. /\ ibf = <<"data", b>> /\ Lull(b) /\ byte = b
      /\ prefix = IF d = 1 THEN "D4" ELSE "none"
  BY <1>1 DEF Sent, Pending, Taken
<1>3. /\ queue' = [queue EXCEPT ![d] = Replied(d, b)] /\ UNCHANGED config
      /\ DOMAIN queue' = Device /\ d \in {0, 1}
  BY <1>2 DEF TakeData, Device, Shape
<1>4. queue[d] = <<>> /\ \A e \in Device : e # d => queue'[e] = <<>>
  BY <1>2, <1>3 DEF Lull, Unsent
<1>5. queue'[d] = Replied(d, b) /\ Taken'
  BY <1>1, <1>3 DEF Shape, Taken
<1>6. Kind(d)' = Kind(d)
  BY <1>1, SameHardware
<1>7. \E s \in Answers(d, b)' : Pending(d, s)'
  <2>1. CASE b = "FF"
    <3>1. obf = Empty /\ Replied(d, b) = Kind(d).reset
      BY <1>2, <1>4, <2>1 DEF Lull, Replied
    <3>2. PICK s : s = Kind(d).reset
      OBVIOUS
    <3>3. Pending(d, s)'
      BY <1>1, <1>4, <1>5, <3>1, <3>2 DEF Pending
    <3> QED
      BY <1>6, <2>1, <3>2, <3>3 DEF Answers
  <2>2. CASE b \in {"F5", "F2", "F4"}
    <3>1. Kind(d).reset # <<>> /\ (Kind(d).id = <<"AB", "83">> \/ Kind(d).id = <<"00">>)
      BY <2>2, Pairs DEF Keyboard, Mouse
    <3>2. CASE b = "F2"
      <4>1. obf = Empty
        BY <1>2, <3>2 DEF Lull
      <4>2. Replied(d, b) = <<Ack>> \o Kind(d).id
        <5>1. Replied(d, b) = (queue[d] \o <<Ack>>) \o Kind(d).id
          BY <3>1, <3>2 DEF Replied
        <5>2. <<Ack>> \in Seq({Ack}) /\ <<>> \o <<Ack>> = <<Ack>>
          BY ConcatEmptySeq
        <5> QED
          BY <1>4, <5>1, <5>2
      <4>3. PICK s : s = <<Ack>> \o Kind(d).id
        OBVIOUS
      <4>4. Pending(d, s)'
        BY <1>1, <1>4, <1>5, <4>1, <4>2, <4>3 DEF Pending
      <4> QED
        BY <1>6, <3>2, <4>3, <4>4 DEF Answers
    <3>3. CASE b # "F2"
      <4>1. Replied(d, b) = <<Ack>>
        <5>1. Replied(d, b) = Append(<<>>, Ack)
          BY <1>4, <2>2, <3>1, <3>3 DEF Replied
        <5> QED
          BY <5>1
      <4>2. CASE obf = Empty
        <5>1. Pending(d, <<Ack>>)'
          BY <1>1, <1>4, <1>5, <4>1, <4>2 DEF Pending
        <5> QED
          BY <2>2, <3>3, <5>1 DEF Answers
      <4>3. CASE obf # Empty
        <5>1. PICK x \in Stray : x = obf[2]
          BY <1>2, <4>3 DEF Lull
        <5>2. Pending(d, <<x, Ack>>)'
          BY <1>1, <1>4, <1>5, <4>1, <4>3, <5>1, Pairs DEF Pending
        <5> QED
          BY <2>2, <3>3, <5>2 DEF Answers
      <4> QED
        BY <4>2, <4>3
    <3> QED
      BY <3>2, <3>3
  <2> QED
    BY <2>1, <2>2
<1> QED
  BY <1>1, <1>2, <1>3, <1>7 DEF Sent

LEMMA TakesDataVisiting ==
    ASSUME Trying, TakeData, Shape, hw \in Hardware,
           "mouse" \notin FirstDevices, UNCHANGED <<mainVars, hw>>
    PROVE  Trying' /\ DOMAIN queue' = Device
<1>1. /\ UNCHANGED <<pc, byte, cc, dual, dev, hw, obf>> /\ ibf # Empty
      /\ ibf[1] = "data"
  BY DEF mainVars, TakeData
<1>2. /\ ~Taken /\ ~Taking("AE") /\ ~Taking("A8") /\ ~Taking("D4")
      /\ ~Taking("20")
  BY <1>1 DEF Taken, Taking
<1>3. ~Reading
  BY <1>1, <1>2 DEF Reading, Answering
<1>4. PICK d \in Device : EnablingPort(d) \/ ResettingDevice(d) \/ Identifying(d)
  BY <1>3 DEF Trying, Visiting
<1>5. \A b : ~Sending(d, b)
  BY <1>1, <1>2 DEF Sending, Enabling
<1>6. \A s : ~Pending(d, s)
  BY <1>2 DEF Pending
<1>7. ~EnablingPort(d)
  BY <1>1, <1>2 DEF EnablingPort
<1>8. ResettingDevice(d) => pc = <<"response", d>> /\ Sent(d, "FF")
  BY <1>5, <1>6 DEF ResettingDevice
<1>9. Identifying(d) => \E b \in {"F5", "F2", "F4"} :
         (b = "F4" => Named(d)) /\ pc = <<"ack", d>> /\ Sent(d, b)
  BY <1>5, <1>6 DEF Identifying
<1>10. ASSUME UNCHANGED config, Visiting'
       PROVE  Trying'
  <2>1. PortsKnown' /\ Muted(config)'
    BY <1>1, <1>10, SameKnowledge DEF Trying, Muted
  <2>2. ClocksOn'
    BY <1>1, <1>2, <1>10 DEF Trying, ClocksOn
  <2> QED
    BY <1>10, <2>1, <2>2 DEF Trying
<1>11. CASE ResettingDevice(d)
  <2>1. Sent(d, "FF")' /\ UNCHANGED config /\ DOMAIN queue' = Device
    BY <1>8, <1>11, Kinds, Replies
  <2>2. ResettingDevice(d)'
    BY <1>1, <1>8, <1>11, <2>1, SameKnowledge DEF ResettingDevice
  <2> QED
    BY <1>10, <2>1, <2>2 DEF Visiting
<1>12. CASE Identifying(d)
  <2>1. PICK b \in {"F5", "F2", "F4"} :
           (b = "F4" => Named(d)) /\ pc = <<"ack", d>> /\ Sent(d, b)
    BY <1>9, <1>12
  <2>2. Keyboard(d) \/ Mouse(d)
    BY <1>12, Kinds DEF Identifying, Failing
  <2>3. Sent(d, b)' /\ UNCHANGED config /\ DOMAIN queue' = Device
    BY <2>1, <2>2, Replies
  <2>4. Identifying(d)'
    BY <1>1, <1>12, <2>1, <2>3, SameKnowledge DEF Identifying
  <2> QED
    BY <1>10, <2>3, <2>4 DEF Visiting
<1> QED
  BY <1>4, <1>7, <1>11, <1>12

\* The last configuration reaches the controller as it was meant.
LEMMA TakesInTheEnd ==
    ASSUME Ending, Controller, Shape, hw \in Hardware
    PROVE  Ending' /\ DOMAIN queue' = Device
<1>1. /\ UNCHANGED <<mainVars, pc, byte, cc, dual, dev, hw>> /\ ibf # Empty
      /\ ibf' = Empty
      /\ TakeCommand \/ TakeData
  BY DEF mainVars, Controller, TakeCommand, TakeData
<1>2. /\ PortsKnown' <=> PortsKnown
      /\ AllKnown' <=> AllKnown
      /\ Wanted(cc)' <=> Wanted(cc)
  BY <1>1, SameKnowledge DEF PortsKnown, Wanted
<1>3. DOMAIN queue' = Device
  BY <1>1 DEF TakeCommand, TakeData, Shape
<1>4. CASE pc = <<"done", 1>> \/ pc = <<"done", 2>>
  BY <1>1, <1>3, <1>4 DEF Ending
<1>5. CASE pc = <<"argument", "irqs">>
  <2>1. Taking("60") /\ PortsKnown /\ AllKnown /\ Wanted(cc) /\ cc \in Config
    BY <1>1, <1>5 DEF Ending, Announced
  <2>2. prefix' = "60"
    BY <1>1, <2>1 DEF TakeCommand, TakeData, Taking
  <2>3. Announced'
    BY <1>1, <2>2 DEF Announced
  <2> QED
    BY <1>1, <1>2, <1>3, <1>5, <2>1, <2>3 DEF Ending
<1>6. CASE pc = <<"done", 0>>
  <2>1. /\ ibf = <<"data", "CC">> /\ prefix = "60" /\ Wanted(cc)
        /\ cc \in Config /\ PortsKnown /\ AllKnown
    BY <1>1, <1>6 DEF Ending
  <2>2. TakeData
    BY <1>1, <2>1 DEF TakeCommand
  <2>3. /\ config' \in Config /\ config'.int = cc.int
        /\ config'.translation = cc.translation
        /\ config'.clock[0] = cc.clock[0]
        /\ config'.clock[1] <=> cc.clock[1] /\ hw.dual
    BY <1>1, <2>1, <2>2, TakesConfig
  <2>4. hw.port[1] => hw.dual
    BY DEF Shape
  <2>5. Wanted(config)'
    BY <1>1, <2>1, <2>3, <2>4 DEF Wanted, Device
  <2> QED
    BY <1>1, <1>2, <1>3, <1>6, <2>1, <2>3, <2>5 DEF Ending
<1> QED
  BY <1>1, <1>4, <1>5, <1>6 DEF Ending

-----------------------------------------------------------------------------
(* Every step.                                                             *)

LEMMA InitCourse == Init => Course
<1> SUFFICES ASSUME Init PROVE Shape /\ Learning
  BY DEF Course
<1>1. pc[1] = "disable" /\ (hw.dual \/ ~hw.port[1]) /\ DOMAIN queue = Device
  BY DEF Init
<1>2. Shaped(dev) /\ NonePassed
  BY DEF Init, Shaped, Entries, Field, NonePassed
<1> QED
  BY <1>1, <1>2 DEF Shape, Learning

LEMMA TryingIsReset ==
    ASSUME Order, strikes = 0, Trying
    PROVE  Resetting /\ config \in Config /\ ~config.int[0]
<1>1. pc[1] \in ResetLabel \/ pc = <<"ask", "irqs">> \/ pc = <<"get", "irqs">>
  BY DEF Trying, Visiting, EnablingPort, ResettingDevice, Identifying,
         Sending, Reading, ResetLabel
<1>2. ~SettingUp
  BY <1>1, SetUpPlaces DEF SettingUp, ResetLabel
<1>3. ~FinalPlace(pc)
  BY <1>1 DEF FinalPlace, ResetLabel
<1> QED
  BY <1>2, <1>3 DEF Order, Resetting

\* Main at the devices: the tests' outcomes and the clocks stay as they are.
LEMMA TryingOn ==
    ASSUME Trying, Shape, Order, strikes = 0, "mouse" \notin FirstDevices,
           Main, pc[1] # "get"
    PROVE  Trying' /\ Shaped(dev)'
<1>1. UNCHANGED Beyond /\ UNCHANGED <<config, hw>>
  BY DEF Main, Beyond
<1>2. PortsKnown /\ Muted(config) /\ ClocksOn /\ Visiting /\ hw \in Hardware
  BY DEF Trying, Order
<1>3. UNCHANGED dual
  BY DEF Main, ControllerCommand, Flush, GetConfig, WriteArgument, TestResult,
         PortResult, SendByte, Response, SecondResponse, FlushId, WaitForAck,
         FirstIdByte, SecondIdByte
<1>4. pc[1] \in ResetLabel \/ pc = <<"ask", "irqs">>
  BY <1>2 DEF Visiting, EnablingPort, ResettingDevice, Identifying, Sending,
              Reading, ResetLabel
<1>5. \/ ControllerCommand \/ SendByte \/ Response \/ SecondResponse
      \/ FlushId \/ WaitForAck \/ FirstIdByte \/ SecondIdByte
  BY <1>4 DEF Main, Flush, GetConfig, WriteArgument, TestResult, PortResult,
              ResetLabel
<1>6. ASSUME SamePorts(dev, dev')
      PROVE  PortsKnown' /\ Muted(config)'
  BY <1>1, <1>2, <1>3, <1>6 DEF PortsKnown, SamePorts, Muted
<1>7. ASSUME pc[1] # "reenable", ibf = Empty \/ UNCHANGED ibf
      PROVE  ClocksOn'
  BY <1>1, <1>2, <1>7 DEF ClocksOn, Taking, Empty
<1>8. UNCHANGED <<dev, hw>> => SamePorts(dev, dev')
  BY SameKnowledge
<1>9. CASE Reading
  <2>1. ControllerCommand
    BY <1>5, <1>9 DEF Reading, SendByte, Response, SecondResponse, FlushId,
                      WaitForAck, FirstIdByte, SecondIdByte
  <2> QED
    BY <1>1, <1>6, <1>7, <1>8, <1>9, <2>1, Asks DEF Trying, Visited
<1>10. ASSUME NEW d \in Device, EnablingPort(d)
       PROVE  Trying' /\ Shaped(dev)'
  <2>1. ControllerCommand
    BY <1>5, <1>10 DEF EnablingPort, SendByte, Response, SecondResponse,
                       FlushId, WaitForAck, FirstIdByte, SecondIdByte
  <2> QED
    BY <1>1, <1>2, <1>6, <1>10, <2>1, EnablesPort DEF Trying, Visited
<1>11. ASSUME NEW d \in Device, ResettingDevice(d) \/ Identifying(d)
       PROVE  Trying' /\ Shaped(dev)'
  <2>1. pc[1] # "reenable"
    BY <1>11 DEF ResettingDevice, Identifying, Sending
  <2>2. ASSUME Visited', ibf = Empty \/ UNCHANGED ibf, SamePorts(dev, dev')
        PROVE  Trying' /\ Shaped(dev)'
    BY <1>6, <1>7, <2>1, <2>2 DEF Trying, Visited
  <2>3. CASE ControllerCommand \/ SendByte
    BY <1>1, <1>8, <1>11, <2>2, <2>3, GoesOnSending
  <2>4. CASE ResettingDevice(d)
    <3>1. pc[1] \in {"announce", "send", "response", "second_response", "flush_id"}
      BY <2>4 DEF ResettingDevice, Sending
    <3>2. ControllerCommand \/ SendByte \/ Response \/ SecondResponse \/ FlushId
      BY <1>5, <3>1 DEF WaitForAck, FirstIdByte, SecondIdByte
    <3>3. CASE Response
      BY <1>1, <1>2, <2>2, <2>4, <3>3, GetsResponse
    <3>4. CASE SecondResponse
      BY <1>1, <1>2, <2>2, <2>4, <3>4, GetsSecondResponse
    <3>5. CASE FlushId
      BY <1>1, <1>2, <2>2, <2>4, <3>5, FlushesId
    <3> QED
      BY <2>3, <3>2, <3>3, <3>4, <3>5
  <2>5. CASE Identifying(d)
    <3>1. pc[1] \in {"announce", "send", "ack", "id", "second_id_byte"}
      BY <2>5 DEF Identifying, Sending
    <3>2. ControllerCommand \/ SendByte \/ WaitForAck \/ FirstIdByte \/ SecondIdByte
      BY <1>5, <3>1 DEF Response, SecondResponse, FlushId
    <3>3. CASE WaitForAck
      BY <1>1, <1>2, <1>8, <2>2, <2>5, <3>3, GetsAck
    <3>4. CASE FirstIdByte
      BY <1>1, <1>2, <2>2, <2>5, <3>4, GetsFirstIdByte
    <3>5. CASE SecondIdByte
      BY <1>1, <1>2, <2>2, <2>5, <3>5, GetsSecondIdByte
    <3> QED
      BY <2>3, <3>2, <3>3, <3>4, <3>5
  <2> QED
    BY <1>11, <2>4, <2>5
<1> QED
  BY <1>2, <1>9, <1>10, <1>11 DEF Visiting

LEMMA MainCourse ==
    ASSUME Course, Order, Undisturbed, "mouse" \notin FirstDevices, Main
    PROVE  Shape' /\ (Learning' \/ Trying' \/ Ending')
<1>1. /\ UNCHANGED Beyond /\ UNCHANGED <<config, hw, queue>>
      /\ strikes = 0 /\ Shape /\ (Learning \/ Trying \/ Ending)
  BY DEF Main, Beyond, Course, Undisturbed
<1>2. Shaped(dev)' => Shape'
  BY <1>1 DEF Shape
<1>3. CASE Learning
  <2>1. SettingUp
    BY <1>1, <1>3, LearnsInSetUp
  <2>2. pc[1] \notin ResetLabel
    BY <1>3 DEF Learning, ResetLabel
  <2>3. \/ ControllerCommand \/ Flush \/ GetConfig \/ WriteArgument
        \/ TestResult \/ PortResult
    BY <2>2 DEF Main, SendByte, Response, SecondResponse, FlushId, WaitForAck,
                FirstIdByte, SecondIdByte, ResetLabel
  <2> QED
    BY <1>1, <1>2, <1>3, <2>1, <2>3, LearnsOn, LearnsFlush, LearnsConfig,
       LearnsArgument, LearnsTest, LearnsPort
<1>4. CASE Trying
  <2>1. config \in Config /\ ~config.int[0]
    BY <1>1, <1>4, TryingIsReset
  <2>2. CASE pc[1] = "get"
    <3>1. GetConfig
      BY <2>2 DEF Main, ControllerCommand, SendCmd, Flush, WriteArgument,
                  TestResult, PortResult, SendByte, Response, SecondResponse,
                  FlushId, WaitForAck, FirstIdByte, SecondIdByte
    <3> QED
      BY <1>1, <1>2, <1>4, <2>1, <3>1, GetsLastConfig
  <2>3. CASE pc[1] # "get"
    BY <1>1, <1>2, <1>4, <2>3, TryingOn
  <2> QED
    BY <2>2, <2>3
<1>5. CASE Ending
  <2>1. pc[1] \in {"write", "argument", "done"}
    BY <1>5 DEF Ending
  <2>2. ControllerCommand \/ WriteArgument
    BY <2>1 DEF Main, Flush, GetConfig, TestResult, PortResult, SendByte,
                Response, SecondResponse, FlushId, WaitForAck, FirstIdByte,
                SecondIdByte
  <2> QED
    BY <1>1, <1>2, <1>5, <2>2, Finishes
<1> QED
  BY <1>1, <1>3, <1>4, <1>5

LEMMA ControllerCourse ==
    ASSUME Course, Order, Undisturbed, "mouse" \notin FirstDevices, Controller
    PROVE  Shape' /\ (Learning' \/ Trying' \/ Ending')
<1>1. /\ UNCHANGED <<mainVars, hw>> /\ UNCHANGED <<dev, hw>>
      /\ TakeCommand \/ TakeData
      /\ strikes = 0 /\ hw \in Hardware /\ Shape
      /\ Learning \/ Trying \/ Ending
  BY DEF Controller, mainVars, Course, Undisturbed, Order
<1>2. DOMAIN queue' = Device => Shape'
  BY <1>1, SameKnowledge DEF Shape
<1>3. TakeCommand => DOMAIN queue' = Device
  BY <1>1 DEF TakeCommand, Shape
<1>4. CASE Learning
  <2>1. SettingUp
    BY <1>1, <1>4, LearnsInSetUp
  <2>2. UNCHANGED queue => Shape'
    BY <1>1, <1>2 DEF Shape
  <2> QED
    BY <1>1, <1>2, <1>3, <1>4, <2>1, <2>2, TakesCommandInSetUp, TakesConfigInSetUp
<1>5. CASE Trying
  <2>1. config \in Config
    BY <1>1, <1>5, TryingIsReset
  <2> QED
    BY <1>1, <1>2, <1>3, <1>5, <2>1, TakesCommandVisiting, TakesDataVisiting
<1>6. CASE Ending
  BY <1>1, <1>2, <1>6, TakesInTheEnd
<1> QED
  BY <1>1, <1>4, <1>5, <1>6

LEMMA SendsCourse ==
    ASSUME Course, Order, Undisturbed, NEW e \in Device, DeviceSends(e)
    PROVE  Shape' /\ (Learning' \/ Trying' \/ Ending')
<1>1. /\ UNCHANGED <<pc, byte, cc, dual, dev, ibf, prefix, config, hw>>
      /\ queue[e] # <<>> /\ strikes = 0 /\ Shape
      /\ Learning \/ Trying \/ Ending
      /\ queue' = [queue EXCEPT ![e] = Tail(@)]
  BY DEF DeviceSends, mainVars, Course, Undisturbed
<1>2. Shape'
  BY <1>1, SameKnowledge DEF Shape
<1>3. ~Learning
  BY <1>1, LearnsInSetUp DEF SettingUp
<1>4. CASE Trying
  <2>1. ~Unsent
    BY <1>1 DEF Unsent
  <2>2. PICK d \in Device :
           EnablingPort(d) \/ ResettingDevice(d) \/ Identifying(d)
    BY <1>4, <2>1 DEF Trying, Visiting, Reading
  <2>3. ~EnablingPort(d) /\ \A b : ~Lull(b) /\ ~Sending(d, b)
    BY <2>1 DEF EnablingPort, Quiet, Lull, Sending
  <2>4. DOMAIN queue = Device
    BY <1>1 DEF Shape
  <2>5. \A s : Pending(d, s) => Pending(d, s)'
    BY <2>4, Passes
  <2>6. Kind(d)' = Kind(d)
    BY <1>1, SameHardware
  <2>7. \A b : Sent(d, b) => Sent(d, b)'
    <3> SUFFICES ASSUME NEW b, Sent(d, b)
                 PROVE  Sent(d, b)'
      OBVIOUS
    <3>1. PICK s \in Answers(d, b) : Pending(d, s)
      BY <2>3 DEF Sent
    <3>2. s \in Answers(d, b)'
      BY <2>6 DEF Answers
    <3> QED
      BY <1>1, <2>5, <3>1, <3>2 DEF Sent
  <2>8. ResettingDevice(d) => ResettingDevice(d)'
    <3> SUFFICES ASSUME ResettingDevice(d)
                 PROVE  ResettingDevice(d)'
      OBVIOUS
    <3>1. PICK r, q : r = Tail(Kind(d).reset) /\ q = Tail(Tail(Kind(d).reset))
      OBVIOUS
    <3>2. Pending(d, r) => Pending(d, Tail(Kind(d).reset))'
      BY <2>5, <2>6, <3>1 DEF Pending
    <3>3. Pending(d, q) => Pending(d, Tail(Tail(Kind(d).reset)))'
      BY <2>5, <2>6, <3>1 DEF Pending
    <3> QED
      BY <1>1, <2>3, <2>6, <2>7, <3>1, <3>2, <3>3, SameKnowledge
         DEF ResettingDevice
  <2>9. Identifying(d) => Identifying(d)'
    <3> SUFFICES ASSUME Identifying(d)
                 PROVE  Identifying(d)'
      OBVIOUS
    <3>1. PICK r, q : r = Kind(d).id /\ q = Tail(Kind(d).id)
      OBVIOUS
    <3>2. Pending(d, r) => Pending(d, Kind(d).id)'
      BY <2>5, <2>6, <3>1 DEF Pending
    <3>3. Pending(d, q) => Pending(d, Tail(Kind(d).id))'
      BY <2>5, <2>6, <3>1 DEF Pending
    <3> QED
      BY <1>1, <2>3, <2>7, <3>1, <3>2, <3>3, SameKnowledge DEF Identifying
  <2>10. PortsKnown' /\ Muted(config)' /\ ClocksOn'
    BY <1>1, <1>4, SameKnowledge DEF Trying, Muted, ClocksOn, Taking
  <2> QED
    BY <1>2, <2>2, <2>3, <2>8, <2>9, <2>10 DEF Trying, Visiting
<1>5. CASE Ending
  BY <1>1, <1>2, <1>5, SameKnowledge DEF Ending, Wanted, Announced, Taking
<1> QED
  BY <1>1, <1>3, <1>4, <1>5

LEMMA IrqCourse ==
    ASSUME Course, Order, Undisturbed, Irq1
    PROVE  Shape' /\ (Learning' \/ Trying' \/ Ending')
<1>1. /\ UNCHANGED <<pc, byte, cc, dual, dev, ibf, prefix, config, queue, hw>>
      /\ config.int[0] /\ strikes = 0 /\ Shape
      /\ Learning \/ Trying \/ Ending
  BY DEF Irq1, mainVars, Course, Undisturbed
<1>2. ~Trying
  BY <1>1, TryingIsReset
<1>3. Shape'
  BY <1>1, SameKnowledge DEF Shape
<1>4. Learning => Learning'
  BY <1>1, SameKnowledge DEF Learning, NonePassed, Muted, Taking, Untried
<1>5. Ending => Ending'
  BY <1>1, SameKnowledge DEF Ending, Wanted, Announced, Taking
<1> QED
  BY <1>1, <1>2, <1>3, <1>4, <1>5

LEMMA NextCourse ==
    ASSUME "mouse" \notin FirstDevices
    PROVE  Course /\ Order /\ [Next]_vars => Course'
<1> SUFFICES ASSUME Course, Order, [Next]_vars, Undisturbed'
             PROVE  Shape' /\ (Learning' \/ Trying' \/ Ending')
  BY DEF Course
<1>1. strikes \in Nat
  BY DEF Order
<1>2. ~Strike /\ ~TimeOut
  <2>1. ~Strike
    BY <1>1 DEF Strike, Undisturbed
  <2>2. cut' = {}
    BY DEF Undisturbed
  <2>3. \A w : cut \cup {w} # {}
    OBVIOUS
  <2>4. SendByteTimesOut => \E w : cut' = cut \cup {w}
    BY Zenon DEF SendByteTimesOut
  <2> QED
    BY <2>1, <2>2, <2>3, <2>4 DEF TimeOut
<1>3. CASE Main
  <2>1. Undisturbed
    BY <1>3 DEF Main, Undisturbed
  <2> QED
    BY <1>3, <2>1, MainCourse
<1>4. CASE Controller
  <2>1. Undisturbed
    BY <1>4 DEF Controller, Undisturbed
  <2> QED
    BY <1>4, <2>1, ControllerCourse
<1>5. ASSUME NEW e \in Device, DeviceSends(e)
      PROVE  Shape' /\ (Learning' \/ Trying' \/ Ending')
  <2>1. Undisturbed
    BY <1>5 DEF DeviceSends, Undisturbed
  <2> QED
    BY <1>5, <2>1, SendsCourse
<1>6. CASE Irq1
  <2>1. Undisturbed
    BY <1>6 DEF Irq1, Undisturbed
  <2> QED
    BY <1>6, <2>1, IrqCourse
<1>7. CASE UNCHANGED vars
  <2>1. UNCHANGED <<pc, byte, cc, dual, dev, ibf, obf, prefix, config, queue,
                    hw, strikes, cut>>
    BY <1>7 DEF vars, mainVars
  <2>2. Shape /\ (Learning \/ Trying \/ Ending)
    BY <2>1 DEF Course, Undisturbed
  <2>3. Shape'
    BY <2>1, <2>2, SameKnowledge DEF Shape
  <2>4. Learning => Learning'
    BY <2>1, SameKnowledge DEF Learning, NonePassed, Muted, Taking, Untried
  <2>5. Ending => Ending'
    BY <2>1, SameKnowledge DEF Ending, Wanted, Announced, Taking
  <2>6. Trying => Trying'
    <3>1. PortsKnown /\ Muted(config) /\ ClocksOn =>
             PortsKnown' /\ Muted(config)' /\ ClocksOn'
      BY <2>1, SameKnowledge DEF Muted, ClocksOn, Taking
    <3>2. Reading => Reading'
      BY <2>1, SameKnowledge
         DEF Reading, Unsent, Taken, Answering, Answer, Taking
    <3>3. \A d \in Device : EnablingPort(d) => EnablingPort(d)'
      BY <2>1 DEF EnablingPort, Untried, Quiet, Unsent, Taking
    <3>4. \A d \in Device : \A b : Sending(d, b) => Sending(d, b)'
      BY <2>1 DEF Sending, Lull, Unsent, Enabling, Taken, Taking
    <3>5. \A d \in Device : \A s : Pending(d, s) => Pending(d, s)'
      BY <2>1 DEF Pending, Taken
    <3>6. \A d \in Device : \A b : Sent(d, b) => Sent(d, b)'
      BY <2>1, <3>5 DEF Sent, Answers, Kind, Lull, Unsent
    <3>7. \A d \in Device : ResettingDevice(d) => ResettingDevice(d)'
      BY <2>1, <3>4, <3>6, SameKnowledge
         DEF ResettingDevice, Pending, Taken, Kind
    <3>8. \A d \in Device : Identifying(d) => Identifying(d)'
      BY <2>1, <3>4, <3>6, SameKnowledge DEF Identifying, Pending, Taken, Kind
    <3> QED
      BY <3>1, <3>2, <3>3, <3>7, <3>8 DEF Trying, Visiting
  <2> QED
    BY <2>2, <2>3, <2>4, <2>5, <2>6
<1> QED
  BY <1>2, <1>3, <1>4, <1>5, <1>6, <1>7 DEF Next

\* What ps2_init has found out follows where it is, as long as nobody types.
LEMMA StaysOnCourse ==
    ASSUME "mouse" \notin FirstDevices
    PROVE  Spec => []Course
<1>1. Course /\ Order /\ [Next]_vars => Course'
  BY NextCourse
<1> QED
  BY <1>1, InitCourse, SetUpInOrder, PTL DEF Spec

(* ps2_init fails exactly when the controller or both ports fail their     *)
(* test, and otherwise device_working and the first byte of device_id are  *)
(* right for both devices (ps2.c:418-547, 320-412), for all devices but a  *)
(* mouse in the first port: the third byte of its answer to a reset is     *)
(* taken for the second device's.                                          *)
THEOREM DevicesAreIdentified ==
    "mouse" \notin FirstDevices => (Spec => []Identified)
<1> SUFFICES ASSUME "mouse" \notin FirstDevices
             PROVE  Spec => []Identified
  OBVIOUS
<1>1. Course => Identified
  <2> SUFFICES ASSUME Course, pc[1] = "done", Undisturbed
               PROVE  /\ Returned(1) <=> ~hw.test
                      /\ Returned(2) <=> hw.test /\ ~\E d \in Device : hw.port[d]
                      /\ Returned(0) => \A d \in Device :
                            /\ dev[d].device_working <=> Working(d)
                            /\ Working(d) => dev[d].device_id[0] = Kind(d).id[1]
    BY DEF Identified
  <2>1. Ending
    BY DEF Course, Learning, Trying, Visiting, EnablingPort, ResettingDevice,
           Identifying, Reading, Sending
  <2> QED
    BY <2>1 DEF Ending, Returned, PortsKnown, AllKnown, Tried, Named
<1> QED
  BY <1>1, StaysOnCourse, PTL

(* When the last configuration has been taken, a port interrupts exactly   *)
(* when it works, has its clock, and nothing is translated any more        *)
(* (ps2.c:442-474, 522-543), for all devices but a mouse in the first port.*)
THEOREM PortsAreConfigured ==
    "mouse" \notin FirstDevices => (Spec => []Configured)
<1> SUFFICES ASSUME "mouse" \notin FirstDevices
             PROVE  Spec => []Configured
  OBVIOUS
<1>1. Course /\ Order => Configured
  <2> SUFFICES ASSUME Course, Order, Returned(0), ibf = Empty, Undisturbed
               PROVE  \A d \in Device :
                         /\ (d = 0 \/ dual) => config.int[d] = hw.port[d]
                         /\ hw.port[d] => config.clock[d]
                         /\ ~config.translation
    BY DEF Configured
  <2>1. Ending
    BY DEF Course, Learning, Trying, Visiting, EnablingPort, ResettingDevice,
           Identifying, Reading, Sending, Returned
  <2>2. Wanted(config) /\ config \in Config /\ PortsKnown /\ hw \in Hardware
    BY <2>1, PairsAreFull DEF Ending, Returned, Order
  <2>3. \A d \in Device : config.int[d] \in BOOLEAN /\ hw.port[d] \in BOOLEAN
    BY <2>2 DEF Config, Hardware
  <2>4. \A d \in Device : (d = 0 \/ dual) => config.int[d] = hw.port[d]
    BY <2>2, <2>3 DEF Wanted, PortsKnown
  <2> QED
    BY <2>2, <2>4 DEF Wanted
<1> QED
  BY <1>1, StaysOnCourse, SetUpInOrder, PTL
=============================================================================
