------------------------ MODULE Ps2Keyboard_proofs ------------------------
(***************************************************************************)
(* Proofs about Ps2Keyboard, for every Device, KeyByte and bound.          *)
(*                                                                         *)
(* Of every keyboard, prompt or not, with or without losses: types, that   *)
(* keys are told from replies and parsed in the keyboard's set only, and   *)
(* the stall; TypeOK is inductive by itself, the others follow from        *)
(* QuietInv.                                                               *)
(*                                                                         *)
(* Of a keyboard that is not prompt: stop-and-wait and the scancode set    *)
(* learned, from IInv and AllLearned; when nothing is lost also that every *)
(* reply reaches its command and that CommandPipe is implemented, from     *)
(* AcksFirst.  The steps of one device are first brought to one form,      *)
(* Happens, so that each invariant is shown of a step of one device only.  *)
(***************************************************************************)
EXTENDS Ps2Keyboard, SequenceTheorems, TLAPS

-----------------------------------------------------------------------------
(* What the queue operators return.                                        *)

\* Appending to a command sequence.
LEMMA AppendSeq ==
    ASSUME NEW S, NEW s \in Seq(S), NEW e \in S
    PROVE  /\ Append(s, e) \in Seq(S)
           /\ Len(Append(s, e)) = Len(s) + 1
           /\ DOMAIN Append(s, e) = 1..(Len(s) + 1)
           /\ Append(s, e)[Len(s) + 1] = e
           /\ \A i \in 1..Len(s) : Append(s, e)[i] = s[i]
           /\ Append(s, e) # <<>>
           /\ Head(Append(s, e)) = IF s = <<>> THEN e ELSE s[1]
  BY AppendProperties, LenProperties, SMT

\* Taking the head off a sequence.
LEMMA TailSeq ==
    ASSUME NEW S, NEW s \in Seq(S), s # <<>>
    PROVE  /\ Head(s) = s[1] /\ Head(s) \in S
           /\ Len(s) \in Nat \ {0}
           /\ Tail(s) \in Seq(S)
           /\ Len(Tail(s)) = Len(s) - 1
           /\ DOMAIN Tail(s) = 1..(Len(s) - 1)
           /\ \A i \in 1..(Len(s) - 1) : Tail(s)[i] = s[i + 1]
  BY HeadTailProperties, LenProperties, EmptySeq, SMT

\* What a command is on the wire.
LEMMA BytesSeq ==
    ASSUME NEW c \in Command
    PROVE  /\ Bytes(c) \in Seq(Byte) /\ Bytes(c) # <<>> /\ Head(Bytes(c)) = c
           /\ c # ARGUMENT
           /\ c # GETSET => Bytes(c) = <<c>> /\ Tail(Bytes(c)) = <<>>
           /\ c = GETSET => /\ Bytes(c) = <<GETSET, ARGUMENT>>
                            /\ Tail(Bytes(c)) = <<ARGUMENT>>
           /\ <<>> \o Bytes(c) = Bytes(c)
<1>1. c \in Byte /\ ARGUMENT \in Byte /\ c # ARGUMENT
  BY DEF Byte, Command, ARGUMENT, ECHO, ENABLE, DISABLE, GETSET
<1>2. CASE c = GETSET
  <2>1. Bytes(c) = <<GETSET, ARGUMENT>>
    BY <1>2 DEF Bytes
  <2>2. <<GETSET, ARGUMENT>> \in Seq(Byte)
    BY <1>1, <1>2
  <2> QED
    BY <1>1, <1>2, <2>1, <2>2
<1>3. CASE c # GETSET
  <2>1. Bytes(c) = <<c>>
    BY <1>3 DEF Bytes
  <2> QED
    BY <1>1, <1>3, <2>1
<1> QED
  BY <1>2, <1>3

\* The driver's updates of its record keep it well formed.
LEMMA SetOverrun ==
    ASSUME NEW k \in KbdRecord
    PROVE  /\ [k EXCEPT !.overrun = TRUE] \in KbdRecord
           /\ [k EXCEPT !.overrun = TRUE].queue = k.queue
           /\ [k EXCEPT !.overrun = TRUE].waiting = k.waiting
           /\ [k EXCEPT !.overrun = TRUE].respLen = k.respLen
           /\ [k EXCEPT !.overrun = TRUE].port = k.port
           /\ [k EXCEPT !.overrun = TRUE].overrun
           /\ [k EXCEPT !.overrun = TRUE].scancodeSet = k.scancodeSet
           /\ [k EXCEPT !.overrun = TRUE].waitingSet = k.waitingSet
  BY DEF KbdRecord

LEMMA SetRespLen ==
    ASSUME NEW k \in KbdRecord, NEW r \in 0..1
    PROVE  [k EXCEPT !.respLen = r] \in KbdRecord
  BY DEF KbdRecord

LEMMA SetQueue ==
    ASSUME NEW k \in KbdRecord, NEW q \in Seq(Command)
    PROVE  [k EXCEPT !.queue = q] \in KbdRecord
  BY DEF KbdRecord

LEMMA SetPort ==
    ASSUME NEW k \in KbdRecord, NEW w \in BOOLEAN, NEW p \in Seq(Byte)
    PROVE  [k EXCEPT !.waiting = w, !.port = p] \in KbdRecord
  BY DEF KbdRecord

LEMMA ResetQueue ==
    ASSUME NEW k \in KbdRecord, NEW q \in Seq(Command), NEW w \in BOOLEAN,
           NEW r \in 0..1
    PROVE  [k EXCEPT !.queue = q, !.waiting = w, !.respLen = r] \in KbdRecord
  BY DEF KbdRecord

LEMMA ConnectQueue ==
    ASSUME NEW k \in KbdRecord, NEW q \in Seq(Command), NEW w \in BOOLEAN,
           NEW ws \in BOOLEAN
    PROVE  [k EXCEPT !.queue = q, !.waiting = w, !.waitingSet = ws] \in KbdRecord
  BY DEF KbdRecord

LEMMA SendResult ==
    ASSUME NEW k \in KbdRecord, k.queue # <<>>
    PROVE  /\ Send(k) \in KbdRecord
           /\ Send(k).waiting
           /\ Send(k).queue = k.queue
           /\ Send(k).respLen = k.respLen
           /\ Send(k).port = k.port \o Bytes(k.queue[1])
           /\ Send(k).overrun = k.overrun
<1> DEFINE p == k.port \o Bytes(Head(k.queue))
<1>1. Head(k.queue) = k.queue[1] /\ Head(k.queue) \in Command
      /\ k.port \in Seq(Byte)
  BY TailSeq DEF KbdRecord
<1>2. p \in Seq(Byte)
  <2>1. Bytes(Head(k.queue)) \in Seq(Byte)
    BY <1>1, BytesSeq
  <2> HIDE DEF p
  <2> QED
    BY <1>1, <2>1, ConcatProperties DEF p
<1>3. Send(k) = [k EXCEPT !.waiting = TRUE, !.port = p]
  BY DEF Send
<1> HIDE DEF p
<1>4. TRUE \in BOOLEAN
  OBVIOUS
<1>5. [k EXCEPT !.waiting = TRUE, !.port = p] \in KbdRecord
  BY <1>2, <1>4, SetPort
<1>6. /\ [k EXCEPT !.waiting = TRUE, !.port = p].waiting
      /\ [k EXCEPT !.waiting = TRUE, !.port = p].queue = k.queue
      /\ [k EXCEPT !.waiting = TRUE, !.port = p].respLen = k.respLen
      /\ [k EXCEPT !.waiting = TRUE, !.port = p].port = p
      /\ [k EXCEPT !.waiting = TRUE, !.port = p].overrun = k.overrun
  BY DEF KbdRecord
<1>7. p = k.port \o Bytes(k.queue[1])
  BY <1>1 DEF p
<1> QED
  BY <1>3, <1>5, <1>6, <1>7

\* The head command is written unless an answer is waited for.
LEMMA SendCommandResult ==
    ASSUME NEW k \in KbdRecord, k.queue # <<>>, ~k.waiting
    PROVE  /\ SendCommand(k) \in KbdRecord
           /\ SendCommand(k).waiting
           /\ SendCommand(k).queue = k.queue
           /\ SendCommand(k).respLen = 0
           /\ SendCommand(k).port = k.port \o Bytes(k.queue[1])
           /\ SendCommand(k).overrun = k.overrun
<1> DEFINE k0 == [k EXCEPT !.respLen = 0]
<1>0. 0 \in 0..1
  OBVIOUS
<1>1. k0 \in KbdRecord
  BY <1>0, SetRespLen
<1>3. /\ k0.queue = k.queue /\ k0.respLen = 0 /\ k0.port = k.port
      /\ k0.overrun = k.overrun
  BY DEF KbdRecord
<1>2. SendCommand(k) = Send(k0)
  BY DEF SendCommand
<1> HIDE DEF k0
<1> QED
  BY <1>1, <1>2, <1>3, SendResult

\* Behind the array the driver writes over something else.
LEMMA QueueOverrun ==
    ASSUME NEW k \in KbdRecord, NEW c \in Command, Len(k.queue) >= QueueSize
    PROVE  QueueCommand(k, c) = [k EXCEPT !.overrun = TRUE]
  BY DEF QueueCommand

\* A command is written at once only if no other is waiting.
LEMMA QueueCommandResult ==
    ASSUME NEW k \in KbdRecord, NEW c \in Command,
           k.waiting <=> k.queue # <<>>, ~(Len(k.queue) >= QueueSize)
    PROVE  /\ QueueCommand(k, c) \in KbdRecord
           /\ QueueCommand(k, c).queue = Append(k.queue, c)
           /\ QueueCommand(k, c).waiting
           /\ QueueCommand(k, c).respLen =
                IF k.queue = <<>> THEN 0 ELSE k.respLen
           /\ QueueCommand(k, c).port =
                IF k.queue = <<>> THEN k.port \o Bytes(c) ELSE k.port
           /\ QueueCommand(k, c).overrun = k.overrun
<1> DEFINE k0 == [k EXCEPT !.queue = Append(k.queue, c)]
<1>1. /\ Append(k.queue, c) \in Seq(Command)
      /\ Len(Append(k.queue, c)) = Len(k.queue) + 1
      /\ Append(k.queue, c) # <<>>
      /\ Append(k.queue, c)[1] = IF k.queue = <<>> THEN c ELSE k.queue[1]
  BY AppendSeq, TailSeq DEF KbdRecord
<1>2. /\ k0 \in KbdRecord /\ k0.queue = Append(k.queue, c)
      /\ k0.waiting = k.waiting /\ k0.respLen = k.respLen /\ k0.port = k.port
      /\ k0.overrun = k.overrun
  <2>1. k0 \in KbdRecord
    BY <1>1, SetQueue
  <2> QED
    BY <2>1 DEF KbdRecord
<1>3. QueueCommand(k, c) = IF Len(k0.queue) = 1 THEN SendCommand(k0) ELSE k0
  BY DEF QueueCommand
<1>4. Len(k0.queue) = 1 <=> k.queue = <<>>
  BY <1>1, <1>2, EmptySeq DEF KbdRecord
<1> HIDE DEF k0
<1>5. CASE k.queue = <<>>
  <2>1. QueueCommand(k, c) = SendCommand(k0)
    BY <1>3, <1>4, <1>5
  <2> QED
    <3>1. k0.queue # <<>> /\ k0.queue[1] = c
      BY <1>1, <1>2, <1>5
    <3>2. ~k0.waiting
      BY <1>2, <1>5
    <3>3. /\ SendCommand(k0) \in KbdRecord
          /\ SendCommand(k0).waiting
          /\ SendCommand(k0).queue = k0.queue
          /\ SendCommand(k0).respLen = 0
          /\ SendCommand(k0).port = k0.port \o Bytes(c)
          /\ SendCommand(k0).overrun = k0.overrun
      BY <1>2, <3>1, <3>2, SendCommandResult
    <3> QED
      BY <1>2, <1>5, <2>1, <3>3
<1>6. CASE k.queue # <<>>
  <2>1. QueueCommand(k, c) = k0
    BY <1>3, <1>4, <1>6
  <2> QED
    BY <1>2, <1>6, <2>1
<1> QED
  BY <1>5, <1>6

\* After a pop the next command, if any, is written.
LEMMA PopResult ==
    ASSUME NEW k \in KbdRecord, k.queue # <<>>
    PROVE  /\ Pop(k) \in KbdRecord
           /\ Pop(k).queue = Tail(k.queue)
           /\ Pop(k).waiting <=> Tail(k.queue) # <<>>
           /\ Pop(k).respLen = 0
           /\ Pop(k).port = IF Tail(k.queue) = <<>> THEN k.port
                            ELSE k.port \o Bytes(k.queue[2])
           /\ Pop(k).overrun = k.overrun
<1> DEFINE q == Tail(k.queue)
           p == [k EXCEPT !.queue = q, !.waiting = FALSE, !.respLen = 0]
<1>1. q \in Seq(Command) /\ Len(q) = Len(k.queue) - 1 /\ Len(k.queue) \in Nat
      /\ \A i \in 1..(Len(k.queue) - 1) : q[i] = k.queue[i + 1]
  BY TailSeq DEF KbdRecord
<1>2. q # <<>> => q[1] = k.queue[2]
  BY <1>1, EmptySeq
<1>3. Pop(k) = SendCommand(p)
  BY DEF Pop
<1>4. FALSE \in BOOLEAN /\ 0 \in 0..1
  OBVIOUS
<1> HIDE DEF q
<1>5. p \in KbdRecord
  BY <1>1, <1>4, ResetQueue
<1>6. /\ p.queue = q /\ ~p.waiting /\ p.respLen = 0 /\ p.port = k.port
      /\ p.overrun = k.overrun
  BY <1>1 DEF KbdRecord
<1> HIDE DEF p
<1>7. CASE q = <<>>
  <2>1. SendCommand(p) = p
    BY <1>6, <1>7 DEF SendCommand
  <2> QED
    BY <1>3, <1>5, <1>6, <1>7, <2>1 DEF q
<1>8. CASE q # <<>>
  BY <1>2, <1>3, <1>5, <1>6, <1>8, SendCommandResult DEF q
<1> QED
  BY <1>7, <1>8

\* The first connection queues the bracketed query and writes its DISABLE.
LEMMA OnConnectResult ==
    ASSUME NEW k \in KbdRecord
    PROVE  /\ OnConnect(k) \in KbdRecord
           /\ LET q == OnConnect(k).queue
              IN  /\ Len(q) = 3 /\ q # <<>>
                  /\ q[1] = DISABLE /\ q[2] = GETSET /\ q[3] = ENABLE
           /\ OnConnect(k).waiting
           /\ OnConnect(k).respLen = 0
           /\ OnConnect(k).port = k.port \o Bytes(DISABLE)
           /\ OnConnect(k).overrun = k.overrun
<1> DEFINE k0 == [k EXCEPT !.queue = <<>>, !.waiting = FALSE, !.waitingSet = TRUE]
           k1 == QueueCommand(k0, DISABLE)
           k2 == QueueCommand(k1, GETSET)
           k3 == QueueCommand(k2, ENABLE)
<1>0. /\ DISABLE \in Command /\ GETSET \in Command /\ ENABLE \in Command
      /\ <<>> \in Seq(Command) /\ TRUE \in BOOLEAN /\ FALSE \in BOOLEAN
  BY DEF Command
<1>1. k0 \in KbdRecord
  BY <1>0, ConnectQueue
<1>2. k0.queue = <<>> /\ ~k0.waiting /\ k0.port = k.port
      /\ k0.overrun = k.overrun /\ ~(Len(k0.queue) >= QueueSize)
  BY <1>0, BoundAssumption DEF KbdRecord
<1>3. OnConnect(k) = k3
  BY DEF OnConnect, QueueGetScancodeSet
<1> HIDE DEF k0, k1, k2, k3
<1>4. /\ k1 \in KbdRecord /\ k1.queue = Append(<<>>, DISABLE) /\ k1.waiting
      /\ k1.respLen = 0 /\ k1.port = k.port \o Bytes(DISABLE)
      /\ k1.overrun = k.overrun
  BY <1>0, <1>1, <1>2, QueueCommandResult DEF k1
<1>5. k1.queue \in Seq(Command) /\ k1.queue # <<>> /\ Len(k1.queue) = 1
      /\ k1.queue[1] = DISABLE /\ ~(Len(k1.queue) >= QueueSize)
  BY <1>0, <1>4, AppendSeq, EmptySeq, BoundAssumption
<1>6. /\ k2 \in KbdRecord /\ k2.queue = Append(k1.queue, GETSET) /\ k2.waiting
      /\ k2.respLen = 0 /\ k2.port = k.port \o Bytes(DISABLE)
      /\ k2.overrun = k.overrun
  BY <1>0, <1>4, <1>5, QueueCommandResult DEF k2
<1>7. k2.queue \in Seq(Command) /\ k2.queue # <<>> /\ Len(k2.queue) = 2
      /\ k2.queue[1] = DISABLE /\ k2.queue[2] = GETSET
  BY <1>0, <1>5, <1>6, AppendSeq
<1>10. ~(Len(k2.queue) >= QueueSize)
  BY <1>7, BoundAssumption
<1>8. /\ k3 \in KbdRecord /\ k3.queue = Append(k2.queue, ENABLE) /\ k3.waiting
      /\ k3.respLen = 0 /\ k3.port = k.port \o Bytes(DISABLE)
      /\ k3.overrun = k.overrun
  BY <1>0, <1>6, <1>7, <1>10, QueueCommandResult DEF k3
<1>9. k3.queue # <<>> /\ Len(k3.queue) = 3
      /\ k3.queue[1] = DISABLE /\ k3.queue[2] = GETSET /\ k3.queue[3] = ENABLE
  BY <1>0, <1>7, <1>8, AppendSeq
<1> QED
  BY <1>3, <1>8, <1>9

\* The types alone, whatever the queue and the flag are.
LEMMA SendCommandType ==
    ASSUME NEW k \in KbdRecord
    PROVE  SendCommand(k) \in KbdRecord
<1>1. CASE k.waiting \/ k.queue = <<>>
  BY <1>1 DEF SendCommand
<1>2. CASE ~k.waiting /\ k.queue # <<>>
  BY <1>2, SendCommandResult
<1> QED
  BY <1>1, <1>2

LEMMA QueueCommandType ==
    ASSUME NEW k \in KbdRecord, NEW c \in Command
    PROVE  QueueCommand(k, c) \in KbdRecord
<1> DEFINE k0 == [k EXCEPT !.queue = Append(k.queue, c)]
<1>1. k0 \in KbdRecord
  BY AppendSeq, SetQueue DEF KbdRecord
<1>2. [k EXCEPT !.overrun = TRUE] \in KbdRecord
  BY SetOverrun
<1>3. QueueCommand(k, c) \in {[k EXCEPT !.overrun = TRUE], SendCommand(k0), k0}
  BY DEF QueueCommand
<1> HIDE DEF k0
<1> QED
  BY <1>1, <1>2, <1>3, SendCommandType

LEMMA HandleReceiveType ==
    ASSUME NEW k \in KbdRecord, NEW b \in 0..255, Claims(k, b)
    PROVE  HandleReceive(k, b) \in KbdRecord
<1>1. k.queue # <<>> /\ k.respLen \in {0, 1}
  BY DEF Claims, KbdRecord
<1>2. CASE AwaitsSet(k)
  <2> DEFINE s == (b - 1) % 256
             l == [k EXCEPT !.scancodeSet = s, !.waitingSet = FALSE]
  <2>1. s \in 0..255 /\ FALSE \in BOOLEAN
    OBVIOUS
  <2>2. HandleReceive(k, b) = Pop(l)
    BY <1>2 DEF HandleReceive
  <2> HIDE DEF s
  <2>3. l \in KbdRecord /\ l.queue = k.queue
    BY <2>1 DEF KbdRecord
  <2> HIDE DEF l
  <2> QED
    BY <1>1, <2>2, <2>3, PopResult
<1>3. CASE ~AwaitsSet(k) /\ b = RESEND
  <2>1. HandleReceive(k, b) = Send(k)
    BY <1>3 DEF HandleReceive, ACK, RESEND
  <2> QED
    BY <1>1, <2>1, SendResult
<1>4. CASE ~AwaitsSet(k) /\ b = ACK /\ Head(k.queue) = GETSET
  <2>1. k.respLen = 0
    BY <1>1, <1>4 DEF AwaitsSet
  <2>2. HandleReceive(k, b) = [k EXCEPT !.respLen = 1]
    BY <1>4, <2>1 DEF HandleReceive, ACK, RESEND
  <2>3. 1 \in 0..1
    OBVIOUS
  <2> QED
    BY <2>2, <2>3, SetRespLen
<1>5. CASE ~AwaitsSet(k) /\ b # RESEND /\ ~(b = ACK /\ Head(k.queue) = GETSET)
  <2>1. HandleReceive(k, b) = Pop(k)
    BY <1>5 DEF HandleReceive
  <2> QED
    BY <1>1, <2>1, PopResult
<1> QED
  BY <1>2, <1>3, <1>4, <1>5

-----------------------------------------------------------------------------
(* What one step does: to the device that takes it, and to no other.       *)

Steps(d) ==
    \/ SendEcho(d) \/ SkipEcho(d) \/ Irq(d) \/ Unheard(d)
    \/ (\E c \in Byte : Execute(d, c)) \/ TellSet(d)
    \/ AskResend(d) \/ Reject(d) \/ Strike(d)
    \/ LoseCommand(d) \/ LoseReply(d)

\* Device d has the driver's record k2, has a driver or not, scans or not,
\* owes a set or not, and the wire w2.
Becomes(d, k2, conn2, scan2, owes2, w2) ==
    /\ kbd'[d] = k2 /\ connected'[d] = conn2 /\ scanning'[d] = scan2
    /\ owesSet'[d] = owes2 /\ toHost'[d] = w2

Untouched(d) ==
    Becomes(d, kbd[d], connected[d], scanning[d], owesSet[d], toHost[d])

\* A step that only does this, and leaves every variable its type.
Happens(d, k2, conn2, scan2, owes2, w2) ==
    /\ TypeOK' /\ devSet' = devSet
    /\ \A e \in Device \ {d} : Untouched(e)
    /\ Becomes(d, k2, conn2, scan2, owes2, w2)

\* The same, variable by variable.
Does(d, k2, conn2, scan2, owes2, w2) ==
    /\ kbd' = [kbd EXCEPT ![d] = k2]
    /\ connected' = [connected EXCEPT ![d] = conn2]
    /\ scanning' = [scanning EXCEPT ![d] = scan2]
    /\ owesSet' = [owesSet EXCEPT ![d] = owes2]
    /\ toHost' = [toHost EXCEPT ![d] = w2]
    /\ \E x \in BOOLEAN : echo_succeeded' = [echo_succeeded EXCEPT ![d] = x]
    /\ \E x \in BOOLEAN : expects' = [expects EXCEPT ![d] = x]
    /\ devSet' = devSet

LEMMA DoesHappens ==
    ASSUME TypeOK, NEW d \in Device, NEW k2 \in KbdRecord,
           NEW conn2 \in BOOLEAN, NEW scan2 \in BOOLEAN, NEW owes2 \in BOOLEAN,
           NEW w2 \in Seq(WireByte), Does(d, k2, conn2, scan2, owes2, w2)
    PROVE  Happens(d, k2, conn2, scan2, owes2, w2)
<1>1. /\ kbd' \in [Device -> KbdRecord] /\ kbd'[d] = k2
      /\ \A e \in Device \ {d} : kbd'[e] = kbd[e]
  BY DEF Does, TypeOK
<1>2. /\ connected' \in [Device -> BOOLEAN] /\ connected'[d] = conn2
      /\ \A e \in Device \ {d} : connected'[e] = connected[e]
  BY DEF Does, TypeOK
<1>3. /\ scanning' \in [Device -> BOOLEAN] /\ scanning'[d] = scan2
      /\ \A e \in Device \ {d} : scanning'[e] = scanning[e]
  BY DEF Does, TypeOK
<1>4. /\ owesSet' \in [Device -> BOOLEAN] /\ owesSet'[d] = owes2
      /\ \A e \in Device \ {d} : owesSet'[e] = owesSet[e]
  BY DEF Does, TypeOK
<1>5. /\ toHost' \in [Device -> Seq(WireByte)] /\ toHost'[d] = w2
      /\ \A e \in Device \ {d} : toHost'[e] = toHost[e]
  BY DEF Does, TypeOK
<1>6. /\ echo_succeeded' \in [Device -> BOOLEAN]
      /\ expects' \in [Device -> BOOLEAN]
      /\ devSet' \in [Device -> ScancodeSet] /\ devSet' = devSet
  BY DEF Does, TypeOK
<1> QED
  BY <1>1, <1>2, <1>3, <1>4, <1>5, <1>6 DEF Happens, Becomes, Untouched, TypeOK

\* A variable that is left alone has its own value put in place.
LEMMA Unchanging ==
    ASSUME NEW S, NEW f \in [Device -> S], NEW d \in Device
    PROVE  f = [f EXCEPT ![d] = f[d]]
  OBVIOUS

\* The device that takes the step.
LEMMA DeviceTypes ==
    ASSUME TypeOK, NEW d \in Device
    PROVE  /\ kbd[d] \in KbdRecord /\ connected[d] \in BOOLEAN
           /\ echo_succeeded[d] \in BOOLEAN /\ toHost[d] \in Seq(WireByte)
           /\ scanning[d] \in BOOLEAN /\ owesSet[d] \in BOOLEAN
           /\ expects[d] \in BOOLEAN /\ devSet[d] \in ScancodeSet
           /\ Selected(d) \in KbdRecord
<1>1. Selected(d) \in KbdRecord
  BY OnConnectResult DEF Selected, TypeOK
<1> QED
  BY <1>1 DEF TypeOK

LEMMA Keeps ==
    ASSUME TypeOK, NEW d \in Device
    PROVE  /\ kbd = [kbd EXCEPT ![d] = kbd[d]]
           /\ connected = [connected EXCEPT ![d] = connected[d]]
           /\ echo_succeeded = [echo_succeeded EXCEPT ![d] = echo_succeeded[d]]
           /\ toHost = [toHost EXCEPT ![d] = toHost[d]]
           /\ scanning = [scanning EXCEPT ![d] = scanning[d]]
           /\ expects = [expects EXCEPT ![d] = expects[d]]
           /\ owesSet = [owesSet EXCEPT ![d] = owesSet[d]]
  BY Unchanging DEF TypeOK

LEMMA SendEchoDoes ==
    ASSUME TypeOK, NEW d \in Device, SendEcho(d)
    PROVE  Happens(d, QueueCommand(Selected(d), ECHO), TRUE, scanning[d],
                   owesSet[d], toHost[d])
<1> DEFINE k2 == QueueCommand(Selected(d), ECHO)
<1>1. k2 \in KbdRecord /\ TRUE \in BOOLEAN /\ FALSE \in BOOLEAN
  BY DeviceTypes, QueueCommandType DEF Command
<1>2. kbd' = [kbd EXCEPT ![d] = k2] /\ connected' = [connected EXCEPT ![d] = TRUE]
      /\ echo_succeeded' = [echo_succeeded EXCEPT ![d] = FALSE]
      /\ UNCHANGED <<toHost, scanning, expects, owesSet, devSet>>
  BY DEF SendEcho, deviceVars
<1> HIDE DEF k2
<1>3. Does(d, k2, TRUE, scanning[d], owesSet[d], toHost[d])
  BY <1>1, <1>2, DeviceTypes, Keeps DEF Does
<1>4. Happens(d, k2, TRUE, scanning[d], owesSet[d], toHost[d])
  BY <1>1, <1>3, DeviceTypes, DoesHappens
<1> QED
  BY <1>4 DEF k2

LEMMA SkipEchoDoes ==
    ASSUME TypeOK, NEW d \in Device, SkipEcho(d)
    PROVE  Happens(d, Selected(d), TRUE, scanning[d], owesSet[d], toHost[d])
<1>1. TRUE \in BOOLEAN
  OBVIOUS
<1>2. Does(d, Selected(d), TRUE, scanning[d], owesSet[d], toHost[d])
  BY <1>1, DeviceTypes, Keeps DEF SkipEcho, Does, deviceVars
<1> QED
  BY <1>1, <1>2, DeviceTypes, DoesHappens

\* A step that only takes the first byte off the wire.
LEMMA TailDoes ==
    ASSUME TypeOK, NEW d \in Device, Unheard(d) \/ LoseReply(d)
    PROVE  /\ toHost[d] # <<>>
           /\ Happens(d, kbd[d], connected[d], scanning[d], owesSet[d],
                      Tail(toHost[d]))
<1>1. toHost[d] # <<>> /\ Tail(toHost[d]) \in Seq(WireByte)
  BY DeviceTypes, TailSeq DEF Unheard, LoseReply
<1>2. Does(d, kbd[d], connected[d], scanning[d], owesSet[d], Tail(toHost[d]))
  BY DeviceTypes, Keeps DEF Unheard, LoseReply, Does, driverVars, deviceVars
<1> QED
  BY <1>1, <1>2, DeviceTypes, DoesHappens

\* The driver's record after it has read byte b.
Reads(k, b) == IF Claims(k, b) THEN HandleReceive(k, b) ELSE k

LEMMA IrqDoes ==
    ASSUME TypeOK, NEW d \in Device, Irq(d)
    PROVE  /\ toHost[d] # <<>>
           /\ Happens(d, Reads(Selected(d), Head(toHost[d]).val), TRUE,
                      scanning[d], owesSet[d], Tail(toHost[d]))
<1> DEFINE k == Selected(d)
           b == Head(toHost[d]).val
           r == Reads(k, b)
<1>1. /\ k \in KbdRecord /\ toHost[d] # <<>> /\ TRUE \in BOOLEAN
      /\ Tail(toHost[d]) \in Seq(WireByte) /\ Head(toHost[d]) \in WireByte
  BY DeviceTypes, TailSeq DEF Irq
<1>2. b \in 0..255
  BY <1>1 DEF WireByte
<1>3. /\ kbd' = [kbd EXCEPT ![d] = r] /\ toHost' = [toHost EXCEPT ![d] = Tail(@)]
      /\ connected' = [connected EXCEPT ![d] = TRUE]
      /\ UNCHANGED <<scanning, expects, owesSet, devSet>>
  BY DEF Irq, Reads, deviceVars
<1>4. \E x \in BOOLEAN : echo_succeeded' = [echo_succeeded EXCEPT ![d] = x]
  <2>1. echo_succeeded' = [echo_succeeded EXCEPT ![d] =
           @ \/ (Claims(k, b) /\ Head(k.queue) = ECHO /\ b = ECHOED)]
    BY DEF Irq
  <2> QED
    BY <2>1
<1>5. r \in KbdRecord
  <2>1. CASE Claims(k, b)
    <3> HIDE DEF k, b
    <3> QED
      BY <1>1, <1>2, <2>1, HandleReceiveType DEF Reads
  <2>2. CASE ~Claims(k, b)
    BY <1>1, <2>2 DEF Reads
  <2> QED
    BY <2>1, <2>2
<1> HIDE DEF k, b, r
<1>6. Does(d, r, TRUE, scanning[d], owesSet[d], Tail(toHost[d]))
  BY <1>3, <1>4, DeviceTypes, Keeps DEF Does
<1>7. Happens(d, r, TRUE, scanning[d], owesSet[d], Tail(toHost[d]))
  BY <1>1, <1>5, <1>6, DeviceTypes, DoesHappens
<1> QED
  BY <1>1, <1>7 DEF r, k, b

LEMMA TellSetDoes ==
    ASSUME TypeOK, NEW d \in Device, TellSet(d)
    PROVE  /\ owesSet[d] = TRUE /\ Reply(devSet[d]) \in WireByte
           /\ Happens(d, kbd[d], connected[d], scanning[d], FALSE,
                      Append(toHost[d], Reply(devSet[d])))
<1> DEFINE e == Reply(devSet[d])
           w2 == Append(toHost[d], e)
<1>1. e \in WireByte /\ FALSE \in BOOLEAN /\ owesSet[d] = TRUE
  BY DeviceTypes DEF Reply, WireByte, ScancodeSet, TellSet
<1>2. /\ toHost' = [toHost EXCEPT ![d] = w2]
      /\ owesSet' = [owesSet EXCEPT ![d] = FALSE]
      /\ UNCHANGED <<kbd, connected, echo_succeeded, scanning, expects, devSet>>
  BY DEF TellSet, driverVars
<1> HIDE DEF e
<1>3. w2 \in Seq(WireByte)
  BY <1>1, DeviceTypes, AppendSeq
<1> HIDE DEF w2
<1>4. Does(d, kbd[d], connected[d], scanning[d], FALSE, w2)
  BY <1>2, DeviceTypes, Keeps DEF Does
<1>5. Happens(d, kbd[d], connected[d], scanning[d], FALSE, w2)
  BY <1>1, <1>3, <1>4, DeviceTypes, DoesHappens
<1> QED
  BY <1>1, <1>5 DEF e, w2

LEMMA StrikeDoes ==
    ASSUME TypeOK, NEW d \in Device, Strike(d)
    PROVE  /\ scanning[d] = TRUE
           /\ \E b \in KeyByte :
                 /\ Key(b) \in WireByte /\ Key(b).from # "reply"
                 /\ Happens(d, kbd[d], connected[d], scanning[d], owesSet[d],
                            Append(toHost[d], Key(b)))
<1>1. PICK b \in KeyByte : toHost' = [toHost EXCEPT ![d] = Append(@, Key(b))]
  BY DEF Strike
<1> DEFINE e == Key(b)
           w2 == Append(toHost[d], e)
<1>2. e \in WireByte /\ e.from # "reply" /\ scanning[d] = TRUE
  BY DeviceTypes, KeyByteAssumption DEF Key, WireByte, Strike
<1>3. /\ toHost' = [toHost EXCEPT ![d] = w2]
      /\ UNCHANGED <<kbd, connected, echo_succeeded, scanning, expects,
                     owesSet, devSet>>
  BY <1>1 DEF Strike, driverVars, deviceVars
<1> HIDE DEF e
<1>4. w2 \in Seq(WireByte)
  BY <1>2, DeviceTypes, AppendSeq
<1> HIDE DEF w2
<1>5. Does(d, kbd[d], connected[d], scanning[d], owesSet[d], w2)
  BY <1>3, DeviceTypes, Keeps DEF Does
<1>6. Happens(d, kbd[d], connected[d], scanning[d], owesSet[d], w2)
  BY <1>4, <1>5, DeviceTypes, DoesHappens
<1> QED
  BY <1>2, <1>6 DEF e, w2

\* A byte that the keyboard takes off the wire.
Taken(k) == [k EXCEPT !.port = Tail(k.port)]

\* What the keyboard does with the byte besides.
TakesByteDoing(d, scan2, owes2, w2) ==
    /\ kbd' = [kbd EXCEPT ![d] = Taken(kbd[d])]
    /\ scanning' = [scanning EXCEPT ![d] = scan2]
    /\ owesSet' = [owesSet EXCEPT ![d] = owes2]
    /\ toHost' = [toHost EXCEPT ![d] = w2]
    /\ \E x \in BOOLEAN : expects' = [expects EXCEPT ![d] = x]
    /\ UNCHANGED <<connected, echo_succeeded, devSet>>

LEMMA TakenType ==
    ASSUME NEW k \in KbdRecord, k.port # <<>>
    PROVE  Taken(k) \in KbdRecord /\ Taken(k).port = Tail(k.port)
<1> DEFINE p == Tail(k.port)
<1>1. p \in Seq(Byte)
  BY TailSeq DEF KbdRecord
<1> HIDE DEF p
<1>2. [k EXCEPT !.port = p] \in KbdRecord /\ [k EXCEPT !.port = p].port = p
  BY <1>1 DEF KbdRecord
<1> QED
  BY <1>2 DEF Taken, p

LEMMA TakenDoes ==
    ASSUME TypeOK, NEW d \in Device, kbd[d].port # <<>>,
           NEW scan2 \in BOOLEAN, NEW owes2 \in BOOLEAN,
           NEW w2 \in Seq(WireByte), TakesByteDoing(d, scan2, owes2, w2)
    PROVE  Happens(d, Taken(kbd[d]), connected[d], scan2, owes2, w2)
<1>1. Taken(kbd[d]) \in KbdRecord
  BY DeviceTypes, TakenType
<1>2. Does(d, Taken(kbd[d]), connected[d], scan2, owes2, w2)
  BY DeviceTypes, Keeps DEF TakesByteDoing, Does
<1> QED
  BY <1>1, <1>2, DeviceTypes, DoesHappens

\* The answer, if the byte gets one.
Answered(d, b, scan2, owes2) ==
    \/ /\ Len(kbd[d].port) = 1 \/ Prompt
       /\ Happens(d, Taken(kbd[d]), connected[d], scan2, owes2,
                  Append(toHost[d], Reply(b)))
    \/ /\ Len(kbd[d].port) # 1
       /\ Happens(d, Taken(kbd[d]), connected[d], scan2, owes2, toHost[d])

LEMMA AnswerDoes ==
    ASSUME TypeOK, NEW d \in Device, NEW b \in {ACK, RESEND, ECHOED},
           Answer(d, b), NEW scan2 \in BOOLEAN, NEW owes2 \in BOOLEAN,
           scanning' = [scanning EXCEPT ![d] = scan2],
           owesSet' = [owesSet EXCEPT ![d] = owes2],
           \E x \in BOOLEAN : expects' = [expects EXCEPT ![d] = x]
    PROVE  /\ kbd[d].port # <<>> /\ Reply(b) \in WireByte
           /\ Answered(d, b, scan2, owes2)
<1> DEFINE e == Reply(b)
           w2 == Append(toHost[d], e)
<1>1. kbd[d].port # <<>> /\ kbd' = [kbd EXCEPT ![d] = Taken(kbd[d])]
      /\ UNCHANGED <<connected, echo_succeeded, devSet>>
  BY DEF Answer, Take, Taken
<1>2. e \in WireByte
  BY DEF Reply, WireByte, ACK, RESEND, ECHOED
<1>3. \/ (Len(kbd[d].port) = 1 \/ Prompt) /\ toHost' = [toHost EXCEPT ![d] = w2]
      \/ Len(kbd[d].port) # 1 /\ toHost' = [toHost EXCEPT ![d] = toHost[d]]
  BY DeviceTypes, Keeps DEF Answer
<1> HIDE DEF e
<1>4. w2 \in Seq(WireByte)
  BY <1>2, DeviceTypes, AppendSeq
<1> HIDE DEF w2
<1>5. ASSUME NEW w \in Seq(WireByte), toHost' = [toHost EXCEPT ![d] = w]
      PROVE  Happens(d, Taken(kbd[d]), connected[d], scan2, owes2, w)
  BY <1>1, <1>5, TakenDoes DEF TakesByteDoing
<1>6. \/ /\ Len(kbd[d].port) = 1 \/ Prompt
         /\ Happens(d, Taken(kbd[d]), connected[d], scan2, owes2, w2)
      \/ /\ Len(kbd[d].port) # 1
         /\ Happens(d, Taken(kbd[d]), connected[d], scan2, owes2, toHost[d])
  BY <1>3, <1>4, <1>5, DeviceTypes
<1> QED
  BY <1>1, <1>2, <1>6 DEF Answered, e, w2

\* The keyboard obeys the byte.
LEMMA ExecuteDoes ==
    ASSUME TypeOK, NEW d \in Device, NEW c \in Byte, Execute(d, c)
    PROVE  /\ kbd[d].port # <<>> /\ Head(kbd[d].port) = c
           /\ Reply(FinalReply(c)) \in WireByte
           /\ Answered(d, FinalReply(c),
                       c = ENABLE \/ (scanning[d] /\ c # DISABLE), c = ARGUMENT)
<1> DEFINE s2 == c = ENABLE \/ (scanning[d] /\ c # DISABLE)
           o2 == c = ARGUMENT
<1>1. /\ Answer(d, FinalReply(c)) /\ Head(kbd[d].port) = c
      /\ scanning' = [scanning EXCEPT ![d] = s2]
      /\ owesSet' = [owesSet EXCEPT ![d] = o2]
      /\ \E x \in BOOLEAN : expects' = [expects EXCEPT ![d] = x]
  BY DEF Execute
<1>2. s2 \in BOOLEAN /\ o2 \in BOOLEAN /\ FinalReply(c) \in {ACK, RESEND, ECHOED}
  BY DEF FinalReply
<1> HIDE DEF s2, o2
<1>3. kbd[d].port # <<>> /\ Reply(FinalReply(c)) \in WireByte
      /\ Answered(d, FinalReply(c), s2, o2)
  BY <1>1, <1>2, AnswerDoes
<1> QED
  BY <1>1, <1>3 DEF s2, o2

\* It asks for the byte again.
LEMMA RefuseDoes ==
    ASSUME TypeOK, NEW d \in Device, AskResend(d) \/ Reject(d)
    PROVE  /\ kbd[d].port # <<>> /\ Reply(RESEND) \in WireByte
           /\ Answered(d, RESEND, scanning[d], owesSet[d])
<1>1. Answer(d, RESEND) /\ UNCHANGED <<scanning, expects, owesSet>>
  BY DEF AskResend, Reject
<1> QED
  BY <1>1, DeviceTypes, Keeps, AnswerDoes

LEMMA LoseCommandDoes ==
    ASSUME TypeOK, NEW d \in Device, LoseCommand(d)
    PROVE  /\ kbd[d].port # <<>>
           /\ Happens(d, Taken(kbd[d]), connected[d], scanning[d], owesSet[d],
                      toHost[d])
<1>1. kbd[d].port # <<>> /\ kbd' = [kbd EXCEPT ![d] = Taken(kbd[d])]
      /\ UNCHANGED <<connected, echo_succeeded, toHost, scanning, expects,
                     owesSet, devSet>>
  BY DEF LoseCommand, Take, Taken
<1>2. TakesByteDoing(d, scanning[d], owesSet[d], toHost[d])
  BY <1>1, DeviceTypes, Keeps DEF TakesByteDoing
<1> QED
  BY <1>1, <1>2, DeviceTypes, TakenDoes

\* In every case.
LEMMA StepDoes ==
    ASSUME TypeOK, NEW d \in Device, Steps(d)
    PROVE  /\ TypeOK' /\ devSet' = devSet
           /\ \A e \in Device \ {d} : Untouched(e)
<1>1. CASE \E c \in Byte : Execute(d, c)
  <2>1. PICK c \in Byte : Execute(d, c)
    BY <1>1
  <2> QED
    BY <2>1, ExecuteDoes DEF Answered, Happens
<1>2. CASE AskResend(d) \/ Reject(d)
  BY <1>2, RefuseDoes DEF Answered, Happens
<1>3. CASE LoseCommand(d)
  BY <1>3, LoseCommandDoes DEF Happens
<1>4. CASE SendEcho(d) \/ SkipEcho(d) \/ Irq(d)
  BY <1>4, SendEchoDoes, SkipEchoDoes, IrqDoes DEF Happens
<1>5. CASE Unheard(d) \/ LoseReply(d)
  BY <1>5, TailDoes DEF Happens
<1>6. CASE TellSet(d) \/ Strike(d)
  BY <1>6, TellSetDoes, StrikeDoes DEF Happens
<1> QED
  BY <1>1, <1>2, <1>3, <1>4, <1>5, <1>6 DEF Steps

LEMMA InitTypes == Init => TypeOK
<1> SUFFICES ASSUME Init PROVE TypeOK
  OBVIOUS
<1>1. <<>> \in Seq(Command) /\ <<>> \in Seq(WireByte) /\ <<>> \in Seq(Byte)
  OBVIOUS
<1> QED
  BY <1>1 DEF Init, TypeOK, KbdRecord

LEMMA NextTypes == TypeOK /\ [Next]_vars => TypeOK'
<1> SUFFICES ASSUME TypeOK, [Next]_vars PROVE TypeOK'
  OBVIOUS
<1>1. CASE UNCHANGED vars
  BY <1>1 DEF TypeOK, vars
<1>2. CASE Next
  BY <1>2, StepDoes DEF Next, Steps
<1> QED
  BY <1>1, <1>2

(* Every variable has its type, of every keyboard; in particular a byte is *)
(* counted as a response at most once per command (ps2k.c:452-478).        *)
THEOREM TypeCorrect == Spec => []TypeOK
  BY InitTypes, NextTypes, PTL DEF Spec

-----------------------------------------------------------------------------
(* The replies on a wire that loses its first byte or gets one more.       *)

LEMMA TailReplies ==
    ASSUME NEW wire \in Seq(WireByte), wire # <<>>
    PROVE  /\ wire[1] = Head(wire) /\ 1 \in DOMAIN wire
           /\ RepliesOn(wire) \subseteq Nat \ {0}
           /\ \A i \in RepliesOn(Tail(wire)) :
                 /\ i \in Nat \ {0} /\ i + 1 \in RepliesOn(wire)
                 /\ Tail(wire)[i] = wire[i + 1]
           /\ \A i \in RepliesOn(wire) \ {1} : i - 1 \in RepliesOn(Tail(wire))
<1> DEFINE rest == Tail(wire)
<1>1. /\ Len(wire) \in Nat \ {0} /\ DOMAIN wire = 1..Len(wire)
      /\ DOMAIN rest = 1..(Len(wire) - 1) /\ wire[1] = Head(wire)
      /\ \A i \in 1..(Len(wire) - 1) : rest[i] = wire[i + 1]
  BY TailSeq, LenProperties
<1> HIDE DEF rest
<1>2. \A i \in RepliesOn(wire) \ {1} : i - 1 \in RepliesOn(rest)
  <2> SUFFICES ASSUME NEW i \in RepliesOn(wire) \ {1}
               PROVE  i - 1 \in RepliesOn(rest)
    OBVIOUS
  <2>1. i \in 2..Len(wire) /\ wire[i].from = "reply"
    BY <1>1 DEF RepliesOn
  <2>2. i - 1 \in 1..(Len(wire) - 1) /\ (i - 1) + 1 = i
    BY <1>1, <2>1
  <2>3. rest[i - 1] = wire[(i - 1) + 1]
    BY <1>1, <2>2
  <2> QED
    BY <1>1, <2>1, <2>2, <2>3 DEF RepliesOn
<1>3. \A i \in RepliesOn(rest) :
         i \in Nat \ {0} /\ i + 1 \in RepliesOn(wire) /\ rest[i] = wire[i + 1]
  BY <1>1 DEF RepliesOn
<1> QED
  BY <1>1, <1>2, <1>3 DEF RepliesOn, rest

LEMMA MoreReplies ==
    ASSUME NEW wire \in Seq(WireByte), NEW e \in WireByte
    PROVE  /\ Len(wire) \in Nat /\ RepliesOn(wire) \subseteq 1..Len(wire)
           /\ \A i \in RepliesOn(wire) : Append(wire, e)[i] = wire[i]
           /\ Append(wire, e)[Len(wire) + 1] = e
           /\ RepliesOn(Append(wire, e)) =
                 RepliesOn(wire) \cup (IF e.from = "reply" THEN {Len(wire) + 1} ELSE {})
<1> DEFINE w2 == Append(wire, e)
<1>1. /\ Len(wire) \in Nat /\ DOMAIN wire = 1..Len(wire)
      /\ DOMAIN w2 = 1..(Len(wire) + 1) /\ w2[Len(wire) + 1] = e
      /\ \A i \in 1..Len(wire) : w2[i] = wire[i]
  BY AppendSeq, LenProperties
<1> HIDE DEF w2
<1>2. RepliesOn(w2) =
         RepliesOn(wire) \cup (IF e.from = "reply" THEN {Len(wire) + 1} ELSE {})
  BY <1>1 DEF RepliesOn
<1> QED
  BY <1>1, <1>2 DEF RepliesOn, w2

-----------------------------------------------------------------------------
(* What the driver knows of the scancode set.                              *)

\* Only on_connect and the answer to the query touch what the driver knows
\* of the scancode set.
SameSet(k, k2) ==
    k2.scancodeSet = k.scancodeSet /\ k2.waitingSet = k.waitingSet

LEMMA SendKeepsSet ==
    ASSUME NEW k \in KbdRecord PROVE SameSet(k, Send(k))
  BY DEF Send, SameSet, KbdRecord

LEMMA SendCommandKeepsSet ==
    ASSUME NEW k \in KbdRecord PROVE SameSet(k, SendCommand(k))
<1> DEFINE k0 == [k EXCEPT !.respLen = 0]
<1>1. k0 \in KbdRecord /\ SameSet(k, k0)
  <2>1. 0 \in 0..1
    OBVIOUS
  <2>2. k0 \in KbdRecord
    BY <2>1, SetRespLen
  <2> QED
    BY <2>2 DEF KbdRecord, SameSet
<1>2. SendCommand(k) \in {k, Send(k0)}
  BY DEF SendCommand
<1> HIDE DEF k0
<1>3. SameSet(k0, Send(k0))
  BY <1>1, SendKeepsSet
<1> QED
  BY <1>1, <1>2, <1>3 DEF SameSet

LEMMA QueueCommandKeepsSet ==
    ASSUME NEW k \in KbdRecord, NEW c \in Command
    PROVE  SameSet(k, QueueCommand(k, c))
<1> DEFINE k0 == [k EXCEPT !.queue = Append(@, c)]
           kv == [k EXCEPT !.overrun = TRUE]
<1>0. SameSet(k, kv)
  BY SetOverrun DEF SameSet
<1>1. k0 \in KbdRecord /\ SameSet(k, k0)
  <2>1. Append(k.queue, c) \in Seq(Command)
    BY AppendSeq DEF KbdRecord
  <2>2. k0 = [k EXCEPT !.queue = Append(k.queue, c)]
    BY DEF KbdRecord
  <2> QED
    BY <2>1, <2>2, SetQueue DEF KbdRecord, SameSet
<1>2. QueueCommand(k, c) \in {kv, k0, SendCommand(k0)}
  BY DEF QueueCommand
<1> HIDE DEF k0, kv
<1>3. SameSet(k0, SendCommand(k0))
  BY <1>1, SendCommandKeepsSet
<1> QED
  BY <1>0, <1>1, <1>2, <1>3 DEF SameSet

LEMMA PopKeepsSet ==
    ASSUME NEW k \in KbdRecord PROVE SameSet(k, Pop(k))
<1> DEFINE p == [k EXCEPT !.queue = Tail(@), !.waiting = FALSE, !.respLen = 0]
<1>1. CASE k.queue # <<>>
  <2>1. p \in KbdRecord /\ SameSet(k, p)
    <3>1. Tail(k.queue) \in Seq(Command) /\ FALSE \in BOOLEAN /\ 0 \in 0..1
      BY <1>1, TailSeq DEF KbdRecord
    <3>2. p = [k EXCEPT !.queue = Tail(k.queue), !.waiting = FALSE, !.respLen = 0]
      BY DEF KbdRecord
    <3>3. p \in KbdRecord
      BY <3>1, <3>2, ResetQueue
    <3>4. p.scancodeSet = k.scancodeSet /\ p.waitingSet = k.waitingSet
      BY <3>2 DEF KbdRecord
    <3> QED
      BY <3>3, <3>4 DEF SameSet
  <2>2. Pop(k) = SendCommand(p)
    BY <1>1 DEF Pop
  <2> HIDE DEF p
  <2>3. SameSet(p, SendCommand(p))
    BY <2>1, SendCommandKeepsSet
  <2> QED
    BY <2>1, <2>2, <2>3 DEF SameSet
<1>2. CASE k.queue = <<>>
  BY <1>2 DEF Pop, SameSet
<1> QED
  BY <1>1, <1>2

LEMMA OnConnectAwaitsSet ==
    ASSUME NEW k \in KbdRecord
    PROVE  /\ OnConnect(k).waitingSet = TRUE
           /\ OnConnect(k).scancodeSet = k.scancodeSet
<1> DEFINE k0 == [k EXCEPT !.queue = <<>>, !.waiting = FALSE, !.waitingSet = TRUE]
           k1 == QueueCommand(k0, DISABLE)
           k2 == QueueCommand(k1, GETSET)
           k3 == QueueCommand(k2, ENABLE)
<1>0. /\ DISABLE \in Command /\ GETSET \in Command /\ ENABLE \in Command
      /\ <<>> \in Seq(Command) /\ TRUE \in BOOLEAN /\ FALSE \in BOOLEAN
  BY DEF Command
<1>1. k0 \in KbdRecord
  BY <1>0, ConnectQueue
<1>2. k0.waitingSet = TRUE /\ k0.scancodeSet = k.scancodeSet
  BY DEF KbdRecord
<1>3. OnConnect(k) = k3
  BY DEF OnConnect, QueueGetScancodeSet
<1> HIDE DEF k0, k1, k2, k3
<1>4. k1 \in KbdRecord /\ SameSet(k0, k1)
  BY <1>0, <1>1, QueueCommandType, QueueCommandKeepsSet DEF k1
<1>5. k2 \in KbdRecord /\ SameSet(k1, k2)
  BY <1>0, <1>4, QueueCommandType, QueueCommandKeepsSet DEF k2
<1>6. SameSet(k2, k3)
  BY <1>0, <1>5, QueueCommandKeepsSet DEF k3
<1> QED
  BY <1>2, <1>3, <1>4, <1>5, <1>6 DEF SameSet

-----------------------------------------------------------------------------
(* The shape of the queue.                                                 *)

LEMMA ConnectShape ==
    ASSUME NEW k \in KbdRecord, NEW o, o = OnConnect(k)
    PROVE  /\ o \in KbdRecord /\ QueueShape(o, TRUE)
           /\ o.queue # <<>> /\ o.queue[1] = DISABLE
           /\ o.respLen = 0 /\ o.port = k.port \o Bytes(DISABLE)
<1>1. /\ o \in KbdRecord /\ o.waiting /\ o.queue # <<>> /\ Len(o.queue) = 3
      /\ o.queue[1] = DISABLE /\ o.queue[2] = GETSET /\ o.queue[3] = ENABLE
      /\ o.respLen = 0 /\ o.port = k.port \o Bytes(DISABLE)
  BY OnConnectResult
<1>2. /\ DOMAIN o.queue = 1..3
      /\ DISABLE # GETSET /\ ENABLE # GETSET /\ ENABLE # DISABLE
  BY <1>1, LenProperties DEF KbdRecord, DISABLE, GETSET, ENABLE
<1>3. QueueShape(o, TRUE)
  BY <1>1, <1>2 DEF QueueShape
<1> QED
  BY <1>1, <1>3

\* An echo request goes behind whatever is queued, if there is room.
LEMMA EchoShape ==
    ASSUME NEW k \in KbdRecord, QueueShape(k, TRUE),
           ~(Len(k.queue) >= QueueSize), NEW o, o = QueueCommand(k, ECHO)
    PROVE  /\ o \in KbdRecord /\ QueueShape(o, TRUE) /\ o.queue # <<>>
           /\ k.queue = <<>> => /\ o.queue[1] = ECHO /\ o.respLen = 0
                                /\ o.port = k.port \o Bytes(ECHO)
           /\ k.queue # <<>> => /\ o.queue[1] = k.queue[1]
                                /\ o.respLen = k.respLen /\ o.port = k.port
<1>1. k.waiting <=> k.queue # <<>>
  BY DEF QueueShape
<1>2. ECHO \in Command /\ ECHO # GETSET /\ ECHO # DISABLE
  BY DEF Command, ECHO, GETSET, DISABLE
<1>3. /\ o \in KbdRecord /\ o.queue = Append(k.queue, ECHO) /\ o.waiting
      /\ o.respLen = IF k.queue = <<>> THEN 0 ELSE k.respLen
      /\ o.port = IF k.queue = <<>> THEN k.port \o Bytes(ECHO) ELSE k.port
  BY <1>1, <1>2, QueueCommandResult
<1>4. /\ o.queue # <<>> /\ Len(k.queue) \in Nat
      /\ DOMAIN o.queue = 1..(Len(k.queue) + 1)
      /\ DOMAIN k.queue = 1..Len(k.queue)
      /\ o.queue[Len(k.queue) + 1] = ECHO
      /\ \A i \in 1..Len(k.queue) : o.queue[i] = k.queue[i]
      /\ k.queue = <<>> <=> Len(k.queue) = 0
  BY <1>2, <1>3, AppendSeq, LenProperties, EmptySeq DEF KbdRecord
<1>5. /\ k.queue = <<>> => o.queue[1] = ECHO
      /\ k.queue # <<>> => o.queue[1] = k.queue[1]
  BY <1>4
<1>6. QueueShape(o, TRUE)
  BY <1>2, <1>3, <1>4, <1>5 DEF QueueShape
<1> QED
  BY <1>3, <1>4, <1>5, <1>6

\* Behind a command that is done there is no DISABLE, and a query only if
\* that command was its DISABLE.
LEMMA PopShape ==
    ASSUME NEW k \in KbdRecord, QueueShape(k, TRUE), k.queue # <<>>,
           NEW o, o = Pop(k)
    PROVE  /\ o \in KbdRecord /\ QueueShape(o, TRUE) /\ o.respLen = 0
           /\ o.queue = <<>> => o.port = k.port
           /\ o.queue # <<>> => /\ o.queue[1] \in Command
                                /\ o.queue[1] # DISABLE
                                /\ o.queue[1] = GETSET => k.queue[1] = DISABLE
                                /\ o.port = k.port \o Bytes(o.queue[1])
<1>1. /\ o \in KbdRecord /\ o.queue = Tail(k.queue)
      /\ o.waiting <=> o.queue # <<>>
      /\ o.respLen = 0
      /\ o.port = IF o.queue = <<>> THEN k.port ELSE k.port \o Bytes(k.queue[2])
  BY PopResult
<1>2. /\ Len(k.queue) \in Nat \ {0} /\ DOMAIN k.queue = 1..Len(k.queue)
      /\ Len(o.queue) = Len(k.queue) - 1 /\ DOMAIN o.queue = 1..(Len(k.queue) - 1)
      /\ \A i \in DOMAIN o.queue : o.queue[i] = k.queue[i + 1]
      /\ o.queue # <<>> => Len(o.queue) \in Nat \ {0}
  BY <1>1, TailSeq, LenProperties, EmptySeq DEF KbdRecord
<1>3. \A i \in DOMAIN o.queue :
         /\ o.queue[i] # DISABLE
         /\ o.queue[i] = GETSET => i = 1 /\ k.queue[1] = DISABLE
  <2> SUFFICES ASSUME NEW i \in DOMAIN o.queue
               PROVE  /\ o.queue[i] # DISABLE
                      /\ o.queue[i] = GETSET => i = 1 /\ k.queue[1] = DISABLE
    OBVIOUS
  <2>1. i \in Nat \ {0} /\ i + 1 \in DOMAIN k.queue /\ k.queue[i + 1] = o.queue[i]
    BY <1>2
  <2>2. /\ k.queue[i + 1] = DISABLE => i + 1 = 1
        /\ k.queue[i + 1] = GETSET =>
              i + 1 = 1 \/ (i + 1 = 2 /\ k.queue[1] = DISABLE)
    BY <2>1 DEF QueueShape
  <2>3. i + 1 # 1 /\ (i + 1 = 2 => i = 1)
    BY <2>1
  <2> QED
    BY <2>1, <2>2, <2>3
<1>4. QueueShape(o, TRUE)
  BY <1>1, <1>3 DEF QueueShape
<1>5. o.queue # <<>> => 1 \in DOMAIN o.queue /\ o.queue[1] = k.queue[2]
  BY <1>2
<1>6. o.queue # <<>> => o.queue[1] \in Command
  BY <1>1, TailSeq DEF KbdRecord
<1> QED
  BY <1>1, <1>3, <1>4, <1>5, <1>6

\* A command written on its own is on the wire byte by byte.
LEMMA WrittenAlone ==
    ASSUME NEW c \in Command, NEW p \in Seq(Byte), p = <<>>
    PROVE  p \o Bytes(c) = Bytes(c)
  BY BytesSeq

\* At the head of the wire a key is never claimed, if no query is pending
\* while keys are on the wire.
LEMMA KeyNotClaimed ==
    ASSUME NEW k \in KbdRecord, NEW wire \in Seq(WireByte), wire # <<>>,
           KeysAreKeys(wire), Head(wire).from = "key",
           k.queue # <<>> /\ k.queue[1] = GETSET => RepliesOn(wire) = DOMAIN wire
    PROVE  ~Claims(k, Head(wire).val)
<1>1. Head(wire) = wire[1] /\ 1 \in DOMAIN wire
  BY TailSeq, LenProperties
<1>2. wire[1].val \in KeyByte /\ 1 \notin RepliesOn(wire)
  BY <1>1 DEF KeysAreKeys, RepliesOn
<1>3. wire[1].val \notin {ACK, RESEND, ECHOED}
  BY <1>2, KeyByteAssumption
<1>4. k.queue # <<>> => Head(k.queue) = k.queue[1] /\ k.queue[1] # GETSET
  BY <1>1, <1>2, TailSeq DEF KbdRecord
<1> QED
  BY <1>1, <1>3, <1>4 DEF Claims, AwaitsSet, FinalReply

-----------------------------------------------------------------------------
(* One device, any keyboard: what each event does to Quiet.                *)

\* With the queue and the driver's other fields as they were, Quiet asks for
\* the rest only.
LEMMA QuietRest ==
    ASSUME NEW k, NEW k2, NEW conn, NEW scan, NEW owes, NEW set,
           NEW wire, NEW scan2, NEW owes2, NEW w2,
           Quiet(k, conn, scan, owes, set, wire),
           k2.queue = k.queue, k2.waiting = k.waiting, k2.respLen = k.respLen,
           k2.scancodeSet = k.scancodeSet,
           ~conn => Idle(k2, owes2, w2),
           k.queue # <<>> /\ k.queue[1] = DISABLE =>
               Disabling(k2, scan2, owes2, w2),
           k.queue # <<>> /\ k.queue[1] = GETSET => Asking(k2, scan2, set, w2),
           KeysAreKeys(w2)
    PROVE  Quiet(k2, conn, scan2, owes2, set, w2)
<1>1. QueueShape(k2, conn)
  BY DEF Quiet, QueueShape
<1> QED
  BY <1>1 DEF Quiet

\* Reading or losing the first byte of the wire disturbs nothing.
LEMMA TailQuiet ==
    ASSUME NEW k, NEW conn, NEW scan, NEW owes, NEW set,
           NEW wire \in Seq(WireByte), wire # <<>>,
           Quiet(k, conn, scan, owes, set, wire)
    PROVE  Quiet(k, conn, scan, owes, set, Tail(wire))
<1> DEFINE rest == Tail(wire)
<1>1. /\ Len(wire) \in Nat \ {0} /\ DOMAIN wire = 1..Len(wire)
      /\ Len(rest) = Len(wire) - 1 /\ DOMAIN rest = 1..(Len(wire) - 1)
      /\ \A i \in DOMAIN rest : rest[i] = wire[i + 1] /\ i + 1 \in DOMAIN wire
  BY TailSeq, LenProperties
<1> HIDE DEF rest
<1>2. \A i \in RepliesOn(rest) : i \in Nat /\ i + 1 \in RepliesOn(wire)
  BY <1>1 DEF RepliesOn
<1>3. ~conn => Idle(k, owes, rest)
  BY <1>2 DEF Quiet, Idle
<1>4. k.queue # <<>> /\ k.queue[1] = DISABLE => Disabling(k, scan, owes, rest)
  <2> SUFFICES ASSUME Disabling(k, scan, owes, wire)
               PROVE  Disabling(k, scan, owes, rest)
    BY DEF Quiet
  <2>1. \A i, j \in RepliesOn(rest) : i = j
    <3> SUFFICES ASSUME NEW i \in RepliesOn(rest), NEW j \in RepliesOn(rest)
                 PROVE  i = j
      OBVIOUS
    <3>1. i + 1 = j + 1 /\ i \in Nat /\ j \in Nat
      BY <1>2 DEF Disabling
    <3> QED
      BY <3>1
  <2>2. k.port # <<>> => RepliesOn(rest) = {}
    BY <1>2 DEF Disabling
  <2>3. \A i \in DOMAIN rest : rest[i] = Reply(ACK) => ~scan /\ i = Len(rest)
    BY <1>1 DEF Disabling
  <2> QED
    BY <2>1, <2>2, <2>3 DEF Disabling
<1>5. k.queue # <<>> /\ k.queue[1] = GETSET => Asking(k, scan, set, rest)
  BY <1>1 DEF Quiet, Asking
<1>6. KeysAreKeys(rest)
  BY <1>1 DEF Quiet, KeysAreKeys
<1>7. Quiet(k, conn, scan, owes, set, rest)
  BY <1>3, <1>4, <1>5, <1>6, QuietRest
<1> QED
  BY <1>7 DEF rest

\* The first connection starts when nothing is under way.
LEMMA ConnectQuiet ==
    ASSUME NEW k \in KbdRecord, NEW scan, NEW owes, NEW set,
           NEW wire \in Seq(WireByte), Quiet(k, FALSE, scan, owes, set, wire),
           NEW o, o = OnConnect(k)
    PROVE  Quiet(o, TRUE, scan, owes, set, wire)
<1>1. k.port = <<>> /\ ~owes /\ RepliesOn(wire) = {}
  BY DEF Quiet, Idle
<1>2. /\ QueueShape(o, TRUE) /\ o.queue[1] = DISABLE
      /\ o.port = k.port \o Bytes(DISABLE)
  BY ConnectShape
<1>3. o.port = <<DISABLE>> /\ DISABLE # GETSET
  <2>1. DISABLE \in Command /\ DISABLE # GETSET
    BY DEF Command, DISABLE, GETSET
  <2> QED
    BY <1>1, <1>2, <2>1, BytesSeq
<1>4. \A i \in DOMAIN wire : wire[i] # Reply(ACK)
  BY <1>1 DEF RepliesOn, Reply
<1>5. Disabling(o, scan, owes, wire)
  BY <1>1, <1>3, <1>4 DEF Disabling
<1>6. o.scancodeSet = k.scancodeSet
  BY OnConnectAwaitsSet
<1> QED
  BY <1>2, <1>3, <1>5, <1>6 DEF Quiet

LEMMA EchoQuiet ==
    ASSUME NEW k \in KbdRecord, NEW scan, NEW owes, NEW set,
           NEW wire \in Seq(WireByte), Quiet(k, TRUE, scan, owes, set, wire),
           NEW o, o = QueueCommand(k, ECHO)
    PROVE  Quiet(o, TRUE, scan, owes, set, wire)
<1>0. ECHO \in Command /\ ECHO # GETSET /\ ECHO # DISABLE
  BY DEF Command, ECHO, GETSET, DISABLE
<1>1. CASE Len(k.queue) >= QueueSize
  <2>1. /\ o.queue = k.queue /\ o.waiting = k.waiting /\ o.respLen = k.respLen
        /\ o.port = k.port /\ o.scancodeSet = k.scancodeSet
    BY <1>0, <1>1, QueueOverrun, SetOverrun
  <2> QED
    BY <2>1 DEF Quiet, QueueShape, Disabling, Asking
<1>2. CASE ~(Len(k.queue) >= QueueSize)
  <2>1. QueueShape(k, TRUE)
    BY DEF Quiet
  <2>2. /\ QueueShape(o, TRUE) /\ o.queue # <<>>
        /\ k.queue = <<>> => o.queue[1] = ECHO
        /\ k.queue # <<>> => o.queue[1] = k.queue[1] /\ o.port = k.port
    BY <1>2, <2>1, EchoShape
  <2>3. o.scancodeSet = k.scancodeSet
    BY <1>0, QueueCommandKeepsSet DEF SameSet
  <2>4. o.queue[1] = DISABLE => Disabling(o, scan, owes, wire)
    BY <1>0, <2>2 DEF Quiet, Disabling
  <2>5. o.queue[1] = GETSET => Asking(o, scan, set, wire)
    BY <1>0, <2>2 DEF Quiet, Asking
  <2> QED
    BY <2>2, <2>3, <2>4, <2>5 DEF Quiet
<1> QED
  BY <1>1, <1>2

\* The answer that ends DISABLE is the last byte on the wire; the query, if it
\* comes next, is written to a keyboard that is silent.
LEMMA PopQuiet ==
    ASSUME NEW k \in KbdRecord, NEW scan, NEW owes, NEW set,
           NEW wire \in Seq(WireByte), wire # <<>>,
           Quiet(k, TRUE, scan, owes, set, wire), k.queue # <<>>,
           k.queue[1] = DISABLE => wire[1] = Reply(ACK),
           NEW o, o = Pop(k)
    PROVE  Quiet(o, TRUE, scan, owes, set, Tail(wire))
<1> DEFINE rest == Tail(wire)
<1>1. QueueShape(k, TRUE)
  BY DEF Quiet
<1>2. /\ QueueShape(o, TRUE)
      /\ o.queue # <<>> => /\ o.queue[1] # DISABLE
                           /\ o.queue[1] = GETSET => k.queue[1] = DISABLE
                           /\ o.port = k.port \o Bytes(o.queue[1])
  BY <1>1, PopShape
<1>3. o.scancodeSet = k.scancodeSet
  BY PopKeepsSet DEF SameSet
<1>4. Quiet(k, TRUE, scan, owes, set, rest)
  BY TailQuiet
<1>5. ASSUME o.queue # <<>>, o.queue[1] = GETSET
      PROVE  Asking(o, scan, set, rest)
  <2>1. Disabling(k, scan, owes, wire) /\ wire[1] = Reply(ACK)
    BY <1>2, <1>5 DEF Quiet
  <2>2. 1 \in RepliesOn(wire) /\ 1 \in DOMAIN wire
    BY <2>1, TailReplies DEF RepliesOn, Reply
  <2>3. k.port = <<>> /\ ~scan /\ 1 = Len(wire)
    BY <2>1, <2>2 DEF Disabling
  <2>4. DOMAIN rest = {}
    <3>1. DOMAIN rest = 1..(Len(wire) - 1)
      BY TailSeq
    <3>2. Len(wire) = 1
      BY <2>3
    <3>3. 1..(Len(wire) - 1) = {}
      BY <3>2
    <3> QED
      BY <3>1, <3>3
  <2>5. GETSET \in Command /\ k.port \in Seq(Byte)
    BY DEF Command, KbdRecord
  <2>6. o.port = <<GETSET, ARGUMENT>>
    BY <1>2, <1>5, <2>3, <2>5, WrittenAlone, BytesSeq
  <2> QED
    BY <2>3, <2>4, <2>6 DEF Asking
<1> HIDE DEF rest
<1>6. Quiet(o, TRUE, scan, owes, set, rest)
  BY <1>2, <1>3, <1>4, <1>5 DEF Quiet
<1> QED
  BY <1>6 DEF rest

\* A byte the head command claims is a reply.
LEMMA ClaimedIsReply ==
    ASSUME NEW k \in KbdRecord, NEW scan, NEW owes, NEW set,
           NEW wire \in Seq(WireByte), wire # <<>>,
           Quiet(k, TRUE, scan, owes, set, wire), Claims(k, Head(wire).val)
    PROVE  /\ k.queue # <<>> /\ Head(k.queue) = k.queue[1]
           /\ wire[1] = Reply(Head(wire).val) /\ 1 \in RepliesOn(wire)
           /\ Head(wire).val \in 0..255
<1>1. k.queue # <<>> /\ Head(k.queue) = k.queue[1]
  BY TailSeq DEF Claims, KbdRecord
<1>2. Head(wire) = wire[1] /\ 1 \in DOMAIN wire /\ wire[1] \in WireByte
  BY TailReplies, TailSeq
<1>3. k.queue[1] = GETSET => RepliesOn(wire) = DOMAIN wire
  BY <1>1 DEF Quiet, Asking, RepliesOn
<1>4. Head(wire).from # "key"
  BY <1>3, KeyNotClaimed DEF Quiet
<1> QED
  BY <1>1, <1>2, <1>4 DEF WireByte, Reply, RepliesOn

\* The driver's handling of a claimed byte.
LEMMA ReceiveQuiet ==
    ASSUME NEW k \in KbdRecord, NEW scan, NEW owes, NEW set \in ScancodeSet,
           NEW wire \in Seq(WireByte), wire # <<>>,
           Quiet(k, TRUE, scan, owes, set, wire), Claims(k, Head(wire).val),
           NEW o, o = HandleReceive(k, Head(wire).val)
    PROVE  Quiet(o, TRUE, scan, owes, set, Tail(wire))
<1> DEFINE b == Head(wire).val
           rest == Tail(wire)
<1>1. /\ k.queue # <<>> /\ Head(k.queue) = k.queue[1]
      /\ wire[1] = Reply(b) /\ 1 \in RepliesOn(wire) /\ b \in 0..255
  BY ClaimedIsReply
<1>2. Quiet(k, TRUE, scan, owes, set, rest)
  BY TailQuiet
<1>3. k.respLen \in {0, 1} /\ k.port \in Seq(Byte)
  BY DEF KbdRecord
<1> HIDE DEF b
<1>4. CASE AwaitsSet(k)
  <2> DEFINE s == (b - 1) % 256
             l == [k EXCEPT !.scancodeSet = s, !.waitingSet = FALSE]
  <2>1. k.queue[1] = GETSET /\ GETSET # DISABLE
    BY <1>1, <1>4 DEF AwaitsSet, GETSET, DISABLE
  <2>2. b \in {ACK, RESEND, set}
    <3>1. Asking(k, scan, set, wire) /\ wire[1].val = b /\ 1 \in DOMAIN wire
      BY <1>1, <2>1, TailReplies DEF Quiet, Reply
    <3> QED
      BY <3>1 DEF Asking
  <2>3. s \in {0, set - 1, ACK - 1, RESEND - 1} /\ s \in 0..255
    BY <2>2 DEF ACK, RESEND, ScancodeSet
  <2>4. o = Pop(l)
    BY <1>4 DEF HandleReceive, b
  <2> HIDE DEF s
  <2>5. /\ l \in KbdRecord /\ l.queue = k.queue /\ l.waiting = k.waiting
        /\ l.respLen = k.respLen /\ l.port = k.port /\ l.scancodeSet = s
    BY <2>3 DEF KbdRecord
  <2> HIDE DEF l
  <2>6. Quiet(l, TRUE, scan, owes, set, wire)
    BY <2>3, <2>5 DEF Quiet, QueueShape, Asking, Disabling
  <2>7. l.queue # <<>> /\ l.queue[1] # DISABLE
    BY <1>1, <2>1, <2>5
  <2> QED
    BY <2>4, <2>5, <2>6, <2>7, PopQuiet
<1>5. CASE ~AwaitsSet(k) /\ b = RESEND
  <2>1. o = Send(k)
    BY <1>5 DEF HandleReceive, ACK, RESEND, b
  <2>2. /\ o.queue = k.queue /\ o.waiting /\ o.respLen = k.respLen
        /\ o.port = k.port \o Bytes(k.queue[1])
        /\ o.scancodeSet = k.scancodeSet
    BY <1>1, <2>1, SendResult, SendKeepsSet DEF SameSet
  <2>3. o.waiting = k.waiting
    <3>1. k.waiting /\ k.waiting \in BOOLEAN
      BY <1>1 DEF Claims, KbdRecord
    <3>2. o.waiting \in BOOLEAN
      BY <1>1, <2>1, SendResult DEF KbdRecord
    <3> QED
      BY <2>2, <3>1, <3>2
  <2>4. ASSUME k.queue[1] = DISABLE
        PROVE  Disabling(o, scan, owes, rest)
    <3>1. Disabling(k, scan, owes, wire) /\ Disabling(k, scan, owes, rest)
      BY <1>1, <1>2, <2>4 DEF Quiet
    <3>2. k.port = <<>>
      BY <1>1, <3>1 DEF Disabling
    <3>3. DISABLE \in Command /\ DISABLE # GETSET
      BY DEF Command, DISABLE, GETSET
    <3>4. o.port = <<DISABLE>>
      BY <1>3, <2>2, <2>4, <3>2, <3>3, WrittenAlone, BytesSeq
    <3>5. RepliesOn(rest) = {}
      <4>1. RepliesOn(wire) = {1}
        BY <1>1, <3>1 DEF Disabling
      <4>2. \A i \in RepliesOn(rest) : i \in Nat \ {0} /\ i + 1 \in RepliesOn(wire)
        BY TailReplies
      <4> QED
        BY <4>1, <4>2
    <3> QED
      BY <3>1, <3>4, <3>5 DEF Disabling
  <2>5. ASSUME k.queue[1] = GETSET
        PROVE  Asking(o, scan, set, rest)
    <3>1. Asking(k, scan, set, rest)
      BY <1>1, <1>2, <2>5 DEF Quiet
    <3>2. Bytes(GETSET) = <<GETSET, ARGUMENT>> /\ GETSET \in Byte /\ ARGUMENT \in Byte
      BY DEF Bytes, Byte, Command
    <3>3. o.port = k.port \o <<GETSET, ARGUMENT>>
      BY <2>2, <2>5, <3>2
    <3>4. \A i \in DOMAIN o.port : o.port[i] \in {GETSET, ARGUMENT}
      <4> DEFINE p == k.port
                 t == <<GETSET, ARGUMENT>>
      <4>1. /\ p \in Seq(Byte) /\ t \in Seq(Byte)
            /\ Len(t) = 2 /\ t[1] = GETSET /\ t[2] = ARGUMENT
        BY <1>3, <3>2
      <4>2. \A i \in 1..Len(p) : p[i] \in {GETSET, ARGUMENT}
        BY <1>3, <3>1, LenProperties DEF Asking
      <4>3. o.port = p \o t
        BY <3>3
      <4> HIDE DEF p, t
      <4>4. Len(p) \in Nat
        BY <4>1, LenProperties
      <4>5. /\ p \o t \in Seq(Byte) /\ Len(p \o t) = Len(p) + Len(t)
            /\ \A i \in 1..(Len(p) + Len(t)) :
                  (p \o t)[i] = IF i <= Len(p) THEN p[i] ELSE t[i - Len(p)]
        BY <4>1, ConcatProperties
      <4>6. DOMAIN (p \o t) = 1..(Len(p) + 2)
        BY <4>1, <4>5, LenProperties
      <4>7. ASSUME NEW i \in 1..(Len(p) + 2)
            PROVE  (p \o t)[i] \in {GETSET, ARGUMENT}
        <5>1. CASE i <= Len(p)
          BY <4>1, <4>2, <4>4, <4>5, <5>1
        <5>2. CASE ~(i <= Len(p))
          <6>1. i - Len(p) = 1 \/ i - Len(p) = 2
            BY <4>4, <5>2
          <6>2. (p \o t)[i] = t[i - Len(p)]
            BY <4>1, <4>5, <5>2
          <6> QED
            BY <4>1, <6>1, <6>2
        <5> QED
          BY <5>1, <5>2
      <4> QED
        BY <4>3, <4>6, <4>7
    <3> QED
      BY <3>1, <3>4 DEF Asking
  <2>6. KeysAreKeys(rest)
    BY <1>2 DEF Quiet
  <2> HIDE DEF rest
  <2>7. Quiet(o, TRUE, scan, owes, set, rest)
    BY <1>2, <2>2, <2>3, <2>4, <2>5, <2>6, QuietRest
  <2> QED
    BY <2>7 DEF rest
<1>6. CASE ~AwaitsSet(k) /\ b = ACK /\ k.queue[1] = GETSET
  <2>1. k.respLen = 0
    BY <1>1, <1>3, <1>6 DEF AwaitsSet
  <2>2. o = [k EXCEPT !.respLen = 1]
    BY <1>1, <1>6, <2>1 DEF HandleReceive, ACK, RESEND, AwaitsSet, b
  <2>3. /\ o.queue = k.queue /\ o.waiting = k.waiting /\ o.port = k.port
        /\ o.scancodeSet = k.scancodeSet /\ o.respLen = 1
    BY <2>2 DEF KbdRecord
  <2> HIDE DEF rest
  <2>4. QueueShape(o, TRUE)
    BY <1>1, <1>2, <1>6, <2>3 DEF Quiet, QueueShape
  <2>5. Quiet(o, TRUE, scan, owes, set, rest)
    BY <1>2, <2>3, <2>4 DEF Quiet, Disabling, Asking
  <2> QED
    BY <2>5 DEF rest
<1>7. CASE ~AwaitsSet(k) /\ b # RESEND /\ ~(b = ACK /\ k.queue[1] = GETSET)
  <2>1. o = Pop(k)
    BY <1>1, <1>7 DEF HandleReceive, b
  <2>2. k.queue[1] = DISABLE => wire[1] = Reply(ACK)
    BY <1>1, <1>7 DEF Claims, FinalReply, DISABLE, ECHO, b
  <2> QED
    BY <1>1, <2>1, <2>2, PopQuiet
<1> QED
  BY <1>4, <1>5, <1>6, <1>7

\* Taking a byte changes nothing else of the driver's record.
LEMMA TakenFields ==
    ASSUME NEW k \in KbdRecord, k.port # <<>>, NEW k2, k2 = Taken(k)
    PROVE  /\ k2 \in KbdRecord /\ k2.port = Tail(k.port)
           /\ k2.queue = k.queue /\ k2.waiting = k.waiting
           /\ k2.respLen = k.respLen /\ k2.overrun = k.overrun
           /\ k2.scancodeSet = k.scancodeSet /\ k2.waitingSet = k.waitingSet
<1>1. k2 \in KbdRecord /\ k2.port = Tail(k.port)
  BY TakenType
<1> DEFINE p == Tail(k.port)
<1>2. k2 = [k EXCEPT !.port = p]
  BY DEF Taken
<1> HIDE DEF p
<1> QED
  BY <1>1, <1>2 DEF KbdRecord

\* A byte of DISABLE or of the query that is taken, answered or not.
LEMMA TakenQuiet ==
    ASSUME NEW k \in KbdRecord, NEW conn, NEW scan, NEW owes, NEW set,
           NEW wire \in Seq(WireByte), Quiet(k, conn, scan, owes, set, wire),
           k.port # <<>>, NEW k2, k2 = Taken(k), NEW scan2, NEW owes2,
           NEW r, Reply(r) \in WireByte, NEW w2,
           w2 \in {wire, Append(wire, Reply(r))},
           k.queue # <<>> /\ k.queue[1] = DISABLE => ~owes2 /\ (r = ACK => ~scan2),
           k.queue # <<>> /\ k.queue[1] = GETSET => ~scan2 /\ r \in {ACK, RESEND}
    PROVE  Quiet(k2, conn, scan2, owes2, set, w2)
<1> DEFINE e == Reply(r)
<1>1. /\ k2.port = Tail(k.port) /\ k2.queue = k.queue /\ k2.waiting = k.waiting
      /\ k2.respLen = k.respLen /\ k2.scancodeSet = k.scancodeSet
  BY TakenFields
<1>2. e \in WireByte /\ e.from = "reply" /\ e.val = r
      /\ (e = Reply(ACK) => r = ACK)
  BY DEF Reply
<1>3. /\ Len(wire) \in Nat /\ DOMAIN wire = 1..Len(wire)
      /\ Len(Append(wire, e)) = Len(wire) + 1
      /\ DOMAIN Append(wire, e) = 1..(Len(wire) + 1)
      /\ Append(wire, e)[Len(wire) + 1] = e
      /\ \A i \in 1..Len(wire) : Append(wire, e)[i] = wire[i]
  BY <1>2, AppendSeq, LenProperties
<1>4. w2 = wire \/ w2 = Append(wire, e)
  OBVIOUS
<1> HIDE DEF e
<1>5. conn
  BY DEF Quiet, Idle
<1>6. ASSUME k.queue # <<>>, k.queue[1] = DISABLE
      PROVE  Disabling(k2, scan2, owes2, w2)
  <2>1. /\ Disabling(k, scan, owes, wire) /\ k.port = <<DISABLE>>
        /\ RepliesOn(wire) = {}
    BY <1>6 DEF Quiet, Disabling
  <2>2. k2.port = <<>>
    BY <1>1, <2>1
  <2>3. \A i \in RepliesOn(w2) : i = Len(wire) + 1 /\ Len(w2) = Len(wire) + 1
                                /\ w2[i] = e
    BY <1>3, <1>4, <2>1 DEF RepliesOn
  <2>4. \A i \in DOMAIN w2 : w2[i] = Reply(ACK) => ~scan2 /\ i = Len(w2)
    <3> SUFFICES ASSUME NEW i \in DOMAIN w2, w2[i] = Reply(ACK)
                 PROVE  ~scan2 /\ i = Len(w2)
      OBVIOUS
    <3>1. i \in RepliesOn(w2)
      BY DEF RepliesOn, Reply
    <3> QED
      BY <1>2, <1>6, <2>3, <3>1
  <2> QED
    BY <1>6, <2>2, <2>3, <2>4 DEF Disabling
<1>7. ASSUME k.queue # <<>>, k.queue[1] = GETSET
      PROVE  Asking(k2, scan2, set, w2)
  <2>1. Asking(k, scan, set, wire)
    BY <1>7 DEF Quiet
  <2>2. \A i \in DOMAIN k2.port : k2.port[i] \in {GETSET, ARGUMENT}
    <3>1. /\ DOMAIN k2.port = 1..(Len(k.port) - 1) /\ Len(k.port) \in Nat
          /\ \A i \in 1..(Len(k.port) - 1) : k2.port[i] = k.port[i + 1]
          /\ DOMAIN k.port = 1..Len(k.port)
      BY <1>1, TailSeq, LenProperties DEF KbdRecord
    <3>2. \A i \in 1..(Len(k.port) - 1) : i + 1 \in DOMAIN k.port
      BY <3>1
    <3> QED
      BY <2>1, <3>1, <3>2 DEF Asking
  <2>3. \A i \in DOMAIN w2 :
           w2[i].from = "reply" /\ w2[i].val \in {ACK, RESEND, set}
    BY <1>2, <1>3, <1>4, <1>7, <2>1 DEF Asking
  <2> QED
    BY <1>7, <2>2, <2>3 DEF Asking
<1>8. KeysAreKeys(w2)
  BY <1>2, <1>3, <1>4 DEF Quiet, KeysAreKeys
<1> QED
  BY <1>1, <1>5, <1>6, <1>7, <1>8, QuietRest

\* The set comes when the query waits for it, or behind everything.
LEMMA TellSetQuiet ==
    ASSUME NEW k, NEW conn, NEW scan, NEW set,
           NEW wire \in Seq(WireByte), Quiet(k, conn, scan, TRUE, set, wire),
           Reply(set) \in WireByte
    PROVE  Quiet(k, conn, scan, FALSE, set, Append(wire, Reply(set)))
<1> DEFINE e == Reply(set)
           w2 == Append(wire, e)
<1>1. e \in WireByte /\ e.from = "reply" /\ e.val = set
  BY DEF Reply
<1> HIDE DEF e
<1>2. /\ Len(wire) \in Nat /\ DOMAIN wire = 1..Len(wire)
      /\ DOMAIN w2 = 1..(Len(wire) + 1) /\ w2[Len(wire) + 1] = e
      /\ \A i \in 1..Len(wire) : w2[i] = wire[i]
  BY <1>1, AppendSeq, LenProperties
<1> HIDE DEF w2
<1>3. conn /\ ~(k.queue # <<>> /\ k.queue[1] = DISABLE)
  BY DEF Quiet, Idle, Disabling
<1>4. k.queue # <<>> /\ k.queue[1] = GETSET => Asking(k, scan, set, w2)
  BY <1>1, <1>2 DEF Quiet, Asking
<1>5. KeysAreKeys(w2)
  BY <1>1, <1>2 DEF Quiet, KeysAreKeys
<1>6. Quiet(k, conn, scan, FALSE, set, w2)
  BY <1>3, <1>4, <1>5, QuietRest
<1> QED
  BY <1>6 DEF w2, e

\* A key is struck only while the keyboard scans.
LEMMA StrikeQuiet ==
    ASSUME NEW k, NEW conn, NEW owes, NEW set,
           NEW wire \in Seq(WireByte), Quiet(k, conn, TRUE, owes, set, wire),
           NEW b \in KeyByte
    PROVE  Quiet(k, conn, TRUE, owes, set, Append(wire, Key(b)))
<1> DEFINE e == Key(b)
           w2 == Append(wire, e)
<1>1. e \in WireByte /\ e.from = "key" /\ e.val = b /\ e # Reply(ACK)
  BY KeyByteAssumption DEF Reply, WireByte, Key
<1> HIDE DEF e
<1>2. /\ Len(wire) \in Nat /\ DOMAIN wire = 1..Len(wire)
      /\ DOMAIN w2 = 1..(Len(wire) + 1) /\ w2[Len(wire) + 1] = e
      /\ \A i \in 1..Len(wire) : w2[i] = wire[i]
  BY <1>1, AppendSeq, LenProperties
<1> HIDE DEF w2
<1>3. RepliesOn(w2) = RepliesOn(wire)
  BY <1>1, <1>2 DEF RepliesOn
<1>4. ~conn => Idle(k, owes, w2)
  BY <1>3 DEF Quiet, Idle
<1>5. k.queue # <<>> /\ k.queue[1] = DISABLE => Disabling(k, TRUE, owes, w2)
  BY <1>1, <1>2, <1>3 DEF Quiet, Disabling
<1>6. ~(k.queue # <<>> /\ k.queue[1] = GETSET)
  BY DEF Quiet, Asking
<1>7. KeysAreKeys(w2)
  BY <1>1, <1>2 DEF Quiet, KeysAreKeys
<1>8. Quiet(k, conn, TRUE, owes, set, w2)
  BY <1>4, <1>5, <1>6, <1>7, QuietRest
<1> QED
  BY <1>8 DEF w2, e

-----------------------------------------------------------------------------
(* QuietInv is inductive.                                                  *)

\* What the invariant says of the device that takes a step.
LEMMA QuietState ==
    ASSUME QuietInv, NEW d \in Device
    PROVE  /\ TypeOK
           /\ Quiet(kbd[d], connected[d], scanning[d], owesSet[d], devSet[d],
                    toHost[d])
           /\ Quiet(Selected(d), TRUE, scanning[d], owesSet[d], devSet[d],
                    toHost[d])
<1>1. /\ TypeOK
      /\ Quiet(kbd[d], connected[d], scanning[d], owesSet[d], devSet[d],
               toHost[d])
  BY DEF QuietInv
<1>2. CASE connected[d]
  BY <1>1, <1>2, DeviceTypes DEF Selected
<1>3. CASE ~connected[d]
  <2>1. Selected(d) = OnConnect(kbd[d]) /\ connected[d] = FALSE
    BY <1>1, <1>3, DeviceTypes DEF Selected
  <2> QED
    BY <1>1, <2>1, DeviceTypes, ConnectQuiet
<1> QED
  BY <1>1, <1>2, <1>3

QuietNext(d) ==
    Quiet(kbd'[d], connected'[d], scanning'[d], owesSet'[d], devSet[d], toHost'[d])

LEMMA BecomesQuiet ==
    ASSUME NEW d, NEW k2, NEW conn2, NEW scan2, NEW owes2, NEW w2,
           Happens(d, k2, conn2, scan2, owes2, w2),
           Quiet(k2, conn2, scan2, owes2, devSet[d], w2)
    PROVE  QuietNext(d)
  BY DEF Happens, Becomes, QuietNext

\* The keyboard takes a byte: an answer, if it gives one, is of the kind that
\* Quiet allows.
LEMMA AnsweredQuiet ==
    ASSUME QuietInv, NEW d \in Device, kbd[d].port # <<>>,
           NEW r, Reply(r) \in WireByte, NEW scan2, NEW owes2,
           Answered(d, r, scan2, owes2),
           kbd[d].queue # <<>> /\ kbd[d].queue[1] = DISABLE =>
               ~owes2 /\ (r = ACK => ~scan2),
           kbd[d].queue # <<>> /\ kbd[d].queue[1] = GETSET =>
               ~scan2 /\ r \in {ACK, RESEND}
    PROVE  QuietNext(d)
<1> DEFINE k == kbd[d]
           wire == toHost[d]
<1>1. /\ k \in KbdRecord /\ wire \in Seq(WireByte)
      /\ Quiet(k, connected[d], scanning[d], owesSet[d], devSet[d], wire)
  BY QuietState, DeviceTypes
<1>2. /\ k.port # <<>>
      /\ k.queue # <<>> /\ k.queue[1] = DISABLE => ~owes2 /\ (r = ACK => ~scan2)
      /\ k.queue # <<>> /\ k.queue[1] = GETSET => ~scan2 /\ r \in {ACK, RESEND}
  OBVIOUS
<1>3. ASSUME NEW w2 \in {wire, Append(wire, Reply(r))}, NEW k2, k2 = Taken(k)
      PROVE  Quiet(k2, connected[d], scan2, owes2, devSet[d], w2)
  <2> HIDE DEF k, wire
  <2> QED
    BY <1>1, <1>2, <1>3, TakenQuiet
<1> QED
  BY <1>3, BecomesQuiet DEF Answered

LEMMA StepQuiet ==
    ASSUME QuietInv, NEW d \in Device, Steps(d)
    PROVE  QuietNext(d)
<1> DEFINE k == kbd[d]
           s == Selected(d)
           wire == toHost[d]
<1>1. /\ TypeOK /\ k \in KbdRecord /\ s \in KbdRecord
      /\ wire \in Seq(WireByte) /\ devSet[d] \in ScancodeSet
      /\ Quiet(k, connected[d], scanning[d], owesSet[d], devSet[d], wire)
      /\ Quiet(s, TRUE, scanning[d], owesSet[d], devSet[d], wire)
  BY QuietState, DeviceTypes
<1>2. CASE SendEcho(d)
  BY <1>1, <1>2, SendEchoDoes, EchoQuiet, BecomesQuiet
<1>3. CASE SkipEcho(d)
  BY <1>1, <1>3, SkipEchoDoes, BecomesQuiet
<1>4. CASE Irq(d)
  <2> DEFINE r == Reads(s, Head(wire).val)
  <2>1. wire # <<>> /\ Happens(d, r, TRUE, scanning[d], owesSet[d], Tail(wire))
    BY <1>1, <1>4, IrqDoes
  <2>2. Quiet(r, TRUE, scanning[d], owesSet[d], devSet[d], Tail(wire))
    <3>1. CASE Claims(s, Head(wire).val)
      BY <1>1, <2>1, <3>1, ReceiveQuiet DEF Reads
    <3>2. CASE ~Claims(s, Head(wire).val)
      BY <1>1, <2>1, <3>2, TailQuiet DEF Reads
    <3> QED
      BY <3>1, <3>2
  <2> QED
    BY <2>1, <2>2, BecomesQuiet
<1>5. CASE Unheard(d) \/ LoseReply(d)
  BY <1>1, <1>5, TailDoes, TailQuiet, BecomesQuiet
<1>6. CASE \E c \in Byte : Execute(d, c)
  <2>1. PICK c \in Byte : Execute(d, c)
    BY <1>6
  <2> DEFINE s2 == c = ENABLE \/ (scanning[d] /\ c # DISABLE)
  <2>2. /\ k.port # <<>> /\ Head(k.port) = c /\ Reply(FinalReply(c)) \in WireByte
        /\ Answered(d, FinalReply(c), s2, c = ARGUMENT)
    BY <1>1, <2>1, ExecuteDoes
  <2>3. k.port[1] = c /\ 1 \in DOMAIN k.port
    BY <1>1, <2>2, TailSeq, LenProperties DEF KbdRecord
  <2>4. k.queue # <<>> /\ k.queue[1] = DISABLE => ~(c = ARGUMENT) /\ ~s2
    BY <1>1, <2>2, <2>3
       DEF Quiet, Disabling, DISABLE, ARGUMENT, ENABLE
  <2>5. k.queue # <<>> /\ k.queue[1] = GETSET => ~s2 /\ FinalReply(c) = ACK
    BY <1>1, <2>3
       DEF Quiet, Asking, GETSET, ARGUMENT, ENABLE, ECHO, FinalReply
  <2> QED
    BY <2>2, <2>4, <2>5, AnsweredQuiet
<1>7. CASE AskResend(d) \/ Reject(d)
  <2>1. /\ k.port # <<>> /\ Reply(RESEND) \in WireByte
        /\ Answered(d, RESEND, scanning[d], owesSet[d])
    BY <1>1, <1>7, RefuseDoes
  <2>2. k.queue # <<>> /\ k.queue[1] = DISABLE => ~owesSet[d] /\ RESEND # ACK
    BY <1>1 DEF Quiet, Disabling, ACK, RESEND
  <2>3. k.queue # <<>> /\ k.queue[1] = GETSET => ~scanning[d]
    BY <1>1 DEF Quiet, Asking
  <2> QED
    BY <2>1, <2>2, <2>3, AnsweredQuiet
<1>8. CASE LoseCommand(d)
  <2>1. /\ k.port # <<>>
        /\ Happens(d, Taken(k), connected[d], scanning[d], owesSet[d], wire)
    BY <1>1, <1>8, LoseCommandDoes
  <2>2. k.queue # <<>> /\ k.queue[1] = DISABLE => ~owesSet[d] /\ RESEND # ACK
    BY <1>1 DEF Quiet, Disabling, ACK, RESEND
  <2>3. k.queue # <<>> /\ k.queue[1] = GETSET => ~scanning[d]
    BY <1>1 DEF Quiet, Asking
  <2>4. Reply(RESEND) \in WireByte /\ wire \in {wire, Append(wire, Reply(RESEND))}
    BY DEF Reply, WireByte, RESEND
  <2>5. Quiet(Taken(k), connected[d], scanning[d], owesSet[d], devSet[d], wire)
    BY <1>1, <2>1, <2>2, <2>3, <2>4, TakenQuiet
  <2> QED
    BY <2>1, <2>5, BecomesQuiet
<1>9. CASE TellSet(d)
  BY <1>1, <1>9, TellSetDoes, TellSetQuiet, BecomesQuiet
<1>10. CASE Strike(d)
  <2>1. scanning[d] = TRUE
    BY <1>1, <1>10, StrikeDoes
  <2>2. PICK b \in KeyByte :
           Happens(d, k, connected[d], TRUE, owesSet[d], Append(wire, Key(b)))
    BY <1>1, <1>10, <2>1, StrikeDoes
  <2> QED
    BY <1>1, <2>1, <2>2, StrikeQuiet, BecomesQuiet
<1> QED
  BY <1>2, <1>3, <1>4, <1>5, <1>6, <1>7, <1>8, <1>9, <1>10 DEF Steps

LEMMA InitQuiet == Init => QuietInv
<1> SUFFICES ASSUME Init, NEW d \in Device
             PROVE  Quiet(kbd[d], connected[d], scanning[d], owesSet[d],
                          devSet[d], toHost[d])
  BY InitTypes DEF QuietInv
<1>1. /\ kbd[d].queue = <<>> /\ ~kbd[d].waiting /\ kbd[d].respLen = 0
      /\ kbd[d].scancodeSet = 0 /\ kbd[d].port = <<>> /\ ~owesSet[d]
      /\ toHost[d] = <<>>
  BY DEF Init
<1> QED
  BY <1>1 DEF Quiet, QueueShape, Idle, KeysAreKeys, RepliesOn

LEMMA NextQuiet == QuietInv /\ [Next]_vars => QuietInv'
<1> SUFFICES ASSUME QuietInv, [Next]_vars, NEW d \in Device
             PROVE  Quiet(kbd'[d], connected'[d], scanning'[d], owesSet'[d],
                          devSet'[d], toHost'[d])
  BY NextTypes DEF QuietInv
<1>1. CASE UNCHANGED vars
  BY <1>1 DEF vars, QuietInv
<1>2. CASE Next
  <2>1. PICK e \in Device : Steps(e)
    BY <1>2 DEF Next, Steps
  <2>2. /\ TypeOK' /\ devSet' = devSet
        /\ \A f \in Device \ {e} : Untouched(f)
    BY <2>1, StepDoes DEF QuietInv
  <2>3. CASE e = d
    BY <2>1, <2>2, <2>3, StepQuiet DEF QuietNext
  <2>4. CASE e # d
    BY <2>2, <2>4 DEF Untouched, Becomes, QuietInv
  <2> QED
    BY <2>2, <2>3, <2>4
<1> QED
  BY <1>1, <1>2

(* Of every keyboard, prompt or not, whatever is lost: DISABLE is written   *)
(* when nothing else is under way, and while the query is at the head of    *)
(* the queue only answers to its bytes come (ps2k.c:316-331, 447-478).      *)
THEOREM QuietAlways == Spec => []QuietInv
  BY InitQuiet, NextQuiet, PTL DEF Spec

(* No key is taken for a command's answer (ps2k.c:272-278), in particular   *)
(* not for the scancode set, for which any byte will do (ps2k.c:453-458).   *)
THEOREM KeysAreParsed == Spec => []KeysReachParser
<1>1. QuietInv => KeysReachParser
  <2> SUFFICES ASSUME QuietInv, NEW d \in Device, toHost[d] # <<>>,
                      Head(toHost[d]).from = "key"
               PROVE  ~Claims(Selected(d), Head(toHost[d]).val)
    BY DEF KeysReachParser
  <2>1. /\ Selected(d) \in KbdRecord /\ toHost[d] \in Seq(WireByte)
        /\ Quiet(Selected(d), TRUE, scanning[d], owesSet[d], devSet[d], toHost[d])
    BY QuietState, DeviceTypes
  <2>2. Selected(d).queue # <<>> /\ Selected(d).queue[1] = GETSET =>
           RepliesOn(toHost[d]) = DOMAIN toHost[d]
    BY <2>1 DEF Quiet, Asking, RepliesOn
  <2> QED
    BY <2>1, <2>2, KeyNotClaimed DEF Quiet
<1> QED
  BY <1>1, QuietAlways, PTL

(* Whatever answers the query gets, the driver parses keys, which it does   *)
(* for set 2 only (ps2k.c:248), in no other set than the keyboard's: the    *)
(* byte it stores (ps2k.c:454) is the set, an ACK or a request to resend.   *)
THEOREM ParsedInSet == Spec => []ParsedInItsSet
<1>1. QuietInv => ParsedInItsSet
  <2> SUFFICES ASSUME QuietInv, NEW d \in Device, kbd[d].scancodeSet = 1
               PROVE  devSet[d] = 2
    BY DEF ParsedInItsSet
  <2>1. devSet[d] \in 1..3
    BY QuietState, DeviceTypes DEF ScancodeSet
  <2>2. kbd[d].scancodeSet \in {0, devSet[d] - 1, ACK - 1, RESEND - 1}
    BY QuietState DEF Quiet
  <2> QED
    BY <2>1, <2>2 DEF ACK, RESEND
<1> QED
  BY <1>1, QuietAlways, PTL

-----------------------------------------------------------------------------
(* The stall.                                                              *)

Freezes(d) ==
    Stalled(d) => \/ kbd'[d].overrun
                  \/ Stalled(d)' /\ Head(kbd'[d].queue) = Head(kbd[d].queue)

\* A device whose driver and command state a step leaves alone stays stalled.
LEMMA FreezeFrame ==
    ASSUME NEW d \in Device, kbd'[d] = kbd[d], owesSet'[d] = owesSet[d],
           Replies(d) = {} => RepliesOn(toHost'[d]) = {}
    PROVE  Freezes(d)
  BY DEF Freezes, Stalled, Replies

\* In a stall the driver has been selected and its queue is not empty.
LEMMA StalledState ==
    ASSUME QuietInv, NEW d \in Device, Stalled(d)
    PROVE  /\ kbd[d] \in KbdRecord /\ kbd[d].queue # <<>> /\ kbd[d].waiting
           /\ kbd[d].port = <<>> /\ RepliesOn(toHost[d]) = {} /\ ~owesSet[d]
           /\ connected[d] /\ Selected(d) = kbd[d]
           /\ toHost[d] \in Seq(WireByte) /\ QueueShape(kbd[d], TRUE)
           /\ Quiet(kbd[d], TRUE, scanning[d], owesSet[d], devSet[d], toHost[d])
<1>1. /\ kbd[d].waiting /\ QueueShape(kbd[d], connected[d])
      /\ kbd[d] \in KbdRecord /\ toHost[d] \in Seq(WireByte)
      /\ connected[d] \in BOOLEAN
      /\ Quiet(Selected(d), TRUE, scanning[d], owesSet[d], devSet[d], toHost[d])
  BY QuietState, DeviceTypes DEF Quiet, Stalled
<1>2. kbd[d].queue # <<>> /\ connected[d] = TRUE
  BY <1>1 DEF QueueShape
<1> QED
  BY <1>1, <1>2 DEF Stalled, Replies, Selected

LEMMA SendEchoFreezes ==
    ASSUME QuietInv, NEW d \in Device, SendEcho(d)
    PROVE  Freezes(d)
<1> SUFFICES ASSUME Stalled(d) PROVE Freezes(d)
  BY DEF Freezes
<1> DEFINE q == QueueCommand(kbd[d], ECHO)
<1>1. /\ kbd[d] \in KbdRecord /\ kbd[d].queue # <<>> /\ kbd[d].waiting
      /\ kbd[d].port = <<>> /\ RepliesOn(toHost[d]) = {} /\ ~owesSet[d]
      /\ Selected(d) = kbd[d] /\ QueueShape(kbd[d], TRUE)
  BY StalledState
<1>2. kbd'[d] = q /\ toHost'[d] = toHost[d] /\ owesSet'[d] = owesSet[d]
  BY <1>1, QuietState, SendEchoDoes DEF Happens, Becomes
<1>3. ECHO \in Command
  BY DEF Command
<1>4. CASE Len(kbd[d].queue) >= QueueSize
  <2>1. q.overrun
    BY <1>1, <1>3, <1>4, QueueOverrun, SetOverrun
  <2> QED
    BY <1>2, <2>1 DEF Freezes
<1>5. CASE ~(Len(kbd[d].queue) >= QueueSize)
  <2>1. /\ q.queue # <<>> /\ q.queue[1] = kbd[d].queue[1] /\ q.port = <<>>
        /\ q \in KbdRecord /\ QueueShape(q, TRUE)
    BY <1>1, <1>5, EchoShape
  <2>2. q.waiting /\ Head(q.queue) = Head(kbd[d].queue)
    BY <1>1, <2>1, TailSeq DEF QueueShape, KbdRecord
  <2> QED
    BY <1>1, <1>2, <2>1, <2>2 DEF Freezes, Stalled, Replies
<1> QED
  BY <1>4, <1>5

LEMMA IrqFreezes ==
    ASSUME QuietInv, NEW d \in Device, Irq(d)
    PROVE  Freezes(d)
<1> SUFFICES ASSUME Stalled(d) PROVE Freezes(d)
  BY DEF Freezes
<1>1. /\ kbd[d] \in KbdRecord /\ Selected(d) = kbd[d]
      /\ RepliesOn(toHost[d]) = {} /\ toHost[d] \in Seq(WireByte)
      /\ Quiet(kbd[d], TRUE, scanning[d], owesSet[d], devSet[d], toHost[d])
  BY StalledState
<1>2. /\ toHost[d] # <<>> /\ kbd'[d] = Reads(kbd[d], Head(toHost[d]).val)
      /\ owesSet'[d] = owesSet[d] /\ toHost'[d] = Tail(toHost[d])
  BY <1>1, QuietState, IrqDoes DEF Happens, Becomes
<1>3. ~Claims(kbd[d], Head(toHost[d]).val)
  <2>1. Claims(kbd[d], Head(toHost[d]).val) => 1 \in RepliesOn(toHost[d])
    BY <1>1, <1>2, ClaimedIsReply
  <2> QED
    BY <1>1, <2>1
<1>4. RepliesOn(Tail(toHost[d])) = {}
  BY <1>1, <1>2, TailReplies
<1> QED
  BY <1>2, <1>3, <1>4, FreezeFrame DEF Reads

\* A keyboard that has nothing to take and nothing to answer only sends keys.
LEMMA DeviceFreezes ==
    ASSUME QuietInv, NEW d \in Device, Steps(d), ~SendEcho(d), ~Irq(d)
    PROVE  Freezes(d)
<1> SUFFICES ASSUME Stalled(d) PROVE Freezes(d)
  BY DEF Freezes
<1>1. /\ kbd[d].port = <<>> /\ RepliesOn(toHost[d]) = {} /\ ~owesSet[d]
      /\ toHost[d] \in Seq(WireByte) /\ connected[d] /\ Selected(d) = kbd[d]
  BY StalledState
<1>2. ~((\E c \in Byte : Execute(d, c)) \/ AskResend(d) \/ Reject(d)
        \/ LoseCommand(d) \/ TellSet(d) \/ Unheard(d))
  BY <1>1 DEF Execute, TellSet, AskResend, Reject, LoseCommand, Answer, Take,
              Unheard
<1>3. ~LoseReply(d)
  <2>1. toHost[d] # <<>> => /\ Head(toHost[d]) = toHost[d][1]
                            /\ 1 \in DOMAIN toHost[d]
    BY <1>1, TailReplies
  <2> QED
    BY <1>1, <2>1 DEF LoseReply, RepliesOn
<1>4. CASE SkipEcho(d)
  <2>1. /\ kbd'[d] = kbd[d] /\ owesSet'[d] = owesSet[d]
        /\ toHost'[d] = toHost[d]
    BY <1>1, <1>4, QuietState, SkipEchoDoes DEF Happens, Becomes
  <2> QED
    BY <2>1, FreezeFrame DEF Replies
<1>5. CASE Strike(d)
  <2>1. PICK b \in KeyByte :
           /\ Key(b) \in WireByte /\ Key(b).from # "reply"
           /\ kbd'[d] = kbd[d] /\ owesSet'[d] = owesSet[d]
           /\ toHost'[d] = Append(toHost[d], Key(b))
    BY <1>5, QuietState, StrikeDoes DEF Happens, Becomes
  <2>2. RepliesOn(Append(toHost[d], Key(b))) = {}
    BY <1>1, <2>1, MoreReplies
  <2> QED
    BY <2>1, <2>2, FreezeFrame
<1> QED
  BY <1>2, <1>3, <1>4, <1>5 DEF Steps

(* Once the answer to the head command is lost the driver stays stalled,   *)
(* whatever the keys, the echo requests and the interrupts do: the command *)
(* is neither removed nor written again (the TODO of ps2k.c:9-11), until   *)
(* echo requests overrun the queue.                                        *)
THEOREM NoWayBack == Spec => StallsForEver
<1>1. QuietInv /\ [Next]_vars =>
         [\A d \in Device : Stalled(d) =>
             \/ kbd'[d].overrun
             \/ /\ Stalled(d)'
                /\ Head(kbd'[d].queue) = Head(kbd[d].queue)]_vars
  <2> SUFFICES ASSUME QuietInv, Next, NEW d \in Device
               PROVE  Freezes(d)
    BY DEF Freezes
  <2>1. PICK e \in Device : Steps(e)
    BY DEF Next, Steps
  <2>2. CASE e = d
    BY <2>1, <2>2, SendEchoFreezes, IrqFreezes, DeviceFreezes
  <2>3. CASE e # d
    <3>1. Untouched(d)
      BY <2>1, <2>3, StepDoes DEF QuietInv
    <3> QED
      BY <3>1, FreezeFrame DEF Untouched, Becomes, Replies
  <2> QED
    BY <2>2, <2>3
<1> QED
  BY <1>1, QuietAlways, PTL DEF Spec, StallsForEver

-----------------------------------------------------------------------------
(* One device: what each event does to Orderly.                            *)

\* Reading or losing the first byte of the wire disturbs nothing.
LEMMA TailOrderly ==
    ASSUME NEW k \in KbdRecord, NEW conn \in BOOLEAN, NEW scan \in BOOLEAN,
           NEW owes \in BOOLEAN, NEW wire \in Seq(WireByte), wire # <<>>,
           Orderly(k, conn, scan, owes, wire)
    PROVE  Orderly(k, conn, scan, owes, Tail(wire))
<1> DEFINE rest == Tail(wire)
<1>1. /\ Len(wire) \in Nat \ {0} /\ DOMAIN wire = 1..Len(wire)
      /\ Len(rest) = Len(wire) - 1 /\ DOMAIN rest = 1..(Len(wire) - 1)
      /\ \A i \in DOMAIN rest : rest[i] = wire[i + 1] /\ i + 1 \in DOMAIN wire
  BY TailSeq, LenProperties
<1> HIDE DEF rest
<1>2. \A i \in RepliesOn(rest) :
         i \in Nat /\ i + 1 \in RepliesOn(wire) /\ rest[i] = wire[i + 1]
  BY <1>1 DEF RepliesOn
<1>3. Silent(k, scan, rest)
  BY <1>1, <1>2 DEF Orderly, Silent, RepliesOn
<1>4. Outstanding(k, owes, rest)
  BY <1>1, <1>2 DEF Orderly, Outstanding
<1>5. KeysAreKeys(rest)
  BY <1>1 DEF Orderly, KeysAreKeys
<1> QED
  BY <1>3, <1>4, <1>5 DEF Orderly, rest

\* The first connection starts on a driver that has nothing under way.
LEMMA ConnectOrderly ==
    ASSUME NEW k \in KbdRecord, NEW scan \in BOOLEAN,
           NEW owes \in BOOLEAN, NEW wire \in Seq(WireByte),
           Orderly(k, FALSE, scan, owes, wire)
    PROVE  Orderly(OnConnect(k), TRUE, scan, owes, wire)
<1> DEFINE o == OnConnect(k)
<1>1. k.queue = <<>> /\ k.port = <<>> /\ ~owes /\ RepliesOn(wire) = {}
  BY DEF Orderly, QueueShape, Outstanding
<1>2. /\ o \in KbdRecord /\ QueueShape(o, TRUE)
      /\ o.queue # <<>> /\ o.queue[1] = DISABLE
      /\ o.respLen = 0 /\ o.port = k.port \o Bytes(DISABLE)
  BY ConnectShape
<1>3. o.port = Bytes(o.queue[1]) /\ DISABLE # GETSET
  <2>1. DISABLE \in Command /\ k.port \in Seq(Byte)
    BY DEF Command, KbdRecord
  <2> QED
    BY <1>1, <1>2, <2>1, WrittenAlone DEF DISABLE, GETSET
<1> HIDE DEF o
<1>5. Silent(o, scan, wire)
  BY <1>1, <1>2, <1>3 DEF Silent, RepliesOn, Reply
<1>6. Outstanding(o, owes, wire)
  BY <1>1, <1>2, <1>3 DEF Outstanding
<1> QED
  BY <1>2, <1>5, <1>6 DEF Orderly, o

\* An echo request goes to the end of the queue, if there is room.
LEMMA RoomOrderly ==
    ASSUME NEW k \in KbdRecord, NEW scan \in BOOLEAN,
           NEW owes \in BOOLEAN, NEW wire \in Seq(WireByte),
           Orderly(k, TRUE, scan, owes, wire), ~(Len(k.queue) >= QueueSize)
    PROVE  /\ QueueCommand(k, ECHO) \in KbdRecord
           /\ Orderly(QueueCommand(k, ECHO), TRUE, scan, owes, wire)
<1> DEFINE o == QueueCommand(k, ECHO)
<1>1. /\ o \in KbdRecord /\ QueueShape(o, TRUE) /\ o.queue # <<>>
      /\ k.queue = <<>> => /\ o.queue[1] = ECHO /\ o.respLen = 0
                           /\ o.port = k.port \o Bytes(ECHO)
      /\ k.queue # <<>> => /\ o.queue[1] = k.queue[1]
                           /\ o.respLen = k.respLen /\ o.port = k.port
  BY EchoShape DEF Orderly
<1>2. ECHO \in Command /\ ECHO # GETSET /\ ECHO # DISABLE
  BY DEF Command, ECHO, GETSET, DISABLE
<1> HIDE DEF o
<1>3. Silent(o, scan, wire)
  BY <1>1, <1>2 DEF Orderly, Silent
<1>4. Outstanding(o, owes, wire)
  <2>1. CASE k.queue = <<>>
    <3>1. k.port = <<>> /\ ~owes /\ RepliesOn(wire) = {} /\ k.port \in Seq(Byte)
      BY <2>1 DEF Orderly, Outstanding, KbdRecord
    <3>2. o.port = Bytes(o.queue[1]) /\ o.respLen = 0
      BY <1>1, <1>2, <2>1, <3>1, WrittenAlone
    <3> QED
      BY <1>1, <3>1, <3>2 DEF Outstanding
  <2>2. CASE k.queue # <<>>
    BY <1>1, <2>2 DEF Orderly, Outstanding
  <2> QED
    BY <2>1, <2>2
<1> QED
  BY <1>1, <1>3, <1>4 DEF Orderly, o

\* Nothing the invariant speaks of is touched by an overrun.
LEMMA OverrunOrderly ==
    ASSUME NEW k \in KbdRecord, NEW scan \in BOOLEAN, NEW conn \in BOOLEAN,
           NEW owes \in BOOLEAN, NEW wire \in Seq(WireByte),
           Orderly(k, conn, scan, owes, wire)
    PROVE  Orderly([k EXCEPT !.overrun = TRUE], conn, scan, owes, wire)
<1> DEFINE o == [k EXCEPT !.overrun = TRUE]
<1>1. /\ o.queue = k.queue /\ o.waiting = k.waiting /\ o.respLen = k.respLen
      /\ o.port = k.port
  BY SetOverrun
<1> HIDE DEF o
<1>2. Orderly(o, conn, scan, owes, wire)
  BY <1>1 DEF Orderly, QueueShape, Silent, Outstanding
<1> QED
  BY <1>2 DEF o

LEMMA EchoOrderly ==
    ASSUME NEW k \in KbdRecord, NEW scan \in BOOLEAN,
           NEW owes \in BOOLEAN, NEW wire \in Seq(WireByte),
           Orderly(k, TRUE, scan, owes, wire)
    PROVE  /\ QueueCommand(k, ECHO) \in KbdRecord
           /\ Orderly(QueueCommand(k, ECHO), TRUE, scan, owes, wire)
<1>1. CASE Len(k.queue) >= QueueSize
  <2>1. ECHO \in Command /\ TRUE \in BOOLEAN
    BY DEF Command
  <2>2. QueueCommand(k, ECHO) = [k EXCEPT !.overrun = TRUE]
    BY <1>1, <2>1, QueueOverrun
  <2> QED
    BY <2>1, <2>2, SetOverrun, OverrunOrderly
<1>2. CASE ~(Len(k.queue) >= QueueSize)
  BY <1>2, RoomOrderly
<1> QED
  BY <1>1, <1>2

\* The first byte of the wire answers the head command: it asks for the
\* command again, or it is a query's ACK, or nothing else is under way.
AnswersHead(k, owes, wire) ==
    /\ k.queue # <<>> /\ Head(k.queue) = k.queue[1] /\ k.port = <<>>
    /\ AwaitsSet(k) <=> k.respLen = 1
    /\ wire[1] = Reply(Head(wire).val) /\ 1 \in RepliesOn(wire)
    /\ \/ /\ Head(wire).val = ACK /\ k.queue[1] = GETSET /\ k.respLen = 0
          /\ \A i \in RepliesOn(wire) \ {1} :
                wire[i].val \in ScancodeSet /\ ~owes
       \/ RepliesOn(wire) = {1} /\ ~owes

LEMMA ClaimedByte ==
    ASSUME NEW k \in KbdRecord, NEW scan \in BOOLEAN,
           NEW owes \in BOOLEAN, NEW wire \in Seq(WireByte), wire # <<>>,
           Orderly(k, TRUE, scan, owes, wire), Claims(k, Head(wire).val)
    PROVE  AnswersHead(k, owes, wire)
<1>1. Head(wire) = wire[1] /\ 1 \in DOMAIN wire /\ wire[1] \in WireByte
      /\ DOMAIN wire = 1..Len(wire) /\ Len(wire) \in Nat
  BY TailSeq, LenProperties
<1>2. k.queue # <<>> /\ Head(k.queue) = k.queue[1] /\ k.respLen \in {0, 1}
  BY TailSeq DEF Claims, KbdRecord
<1>3. wire[1].from = "reply"
  <2>1. ASSUME wire[1].from = "key" PROVE FALSE
    <3>1. /\ KeysAreKeys(wire) /\ Head(wire).from = "key"
          /\ k.queue # <<>> /\ k.queue[1] = GETSET =>
                RepliesOn(wire) = DOMAIN wire
      BY <1>1, <2>1 DEF Orderly, Silent
    <3> QED
      BY <3>1, KeyNotClaimed
  <2> QED
    BY <1>1, <2>1 DEF WireByte
<1>4. wire[1] = Reply(wire[1].val) /\ 1 \in RepliesOn(wire)
  BY <1>1, <1>3 DEF WireByte, Reply, RepliesOn
<1>5. k.port = <<>>
  BY <1>4 DEF Orderly, Outstanding
<1>6. AwaitsSet(k) <=> k.respLen = 1
  BY <1>2 DEF Orderly, QueueShape, AwaitsSet
<1>7. RepliesOn(wire) \subseteq Nat \ {0}
  BY <1>1 DEF RepliesOn
<1>8. CASE wire[1].val = ACK /\ k.queue[1] = GETSET /\ k.respLen = 0
  <2>1. \A i \in RepliesOn(wire) \ {1} : wire[i].val \in ScancodeSet
    BY <1>4, <1>7 DEF Orderly, Outstanding
  <2>2. \A i \in RepliesOn(wire) \ {1} : ~owes
    BY <2>1 DEF Orderly, Outstanding, ScancodeSet, ACK
  <2> QED
    BY <1>1, <1>2, <1>4, <1>5, <1>6, <1>8, <2>1, <2>2 DEF AnswersHead
<1>9. CASE ~(wire[1].val = ACK /\ k.queue[1] = GETSET /\ k.respLen = 0)
  <2>1. \A i \in RepliesOn(wire) : i = 1
    BY <1>4, <1>7, <1>9
       DEF Orderly, Outstanding, QueueShape, ScancodeSet, ACK, RESEND
  <2>2. ~owes
    BY <1>4, <1>9 DEF Orderly, Outstanding
  <2> QED
    BY <1>1, <1>2, <1>4, <1>5, <1>6, <2>1, <2>2 DEF AnswersHead
<1> QED
  BY <1>8, <1>9

\* The answer that ends a command is read with nothing behind it; the next
\* command is written, and if that is the query the keyboard is silent.
LEMMA PopOrderly ==
    ASSUME NEW k \in KbdRecord, NEW scan \in BOOLEAN,
           NEW owes \in BOOLEAN, NEW wire \in Seq(WireByte), wire # <<>>,
           Orderly(k, TRUE, scan, owes, wire), k.queue # <<>>, k.port = <<>>,
           RepliesOn(wire) = {1}, ~owes,
           k.queue[1] = DISABLE => wire[1] = Reply(ACK)
    PROVE  Orderly(Pop(k), TRUE, scan, owes, Tail(wire))
<1> DEFINE o == Pop(k)
           rest == Tail(wire)
<1>1. /\ Len(wire) \in Nat \ {0} /\ DOMAIN wire = 1..Len(wire)
      /\ rest \in Seq(WireByte)
      /\ Len(rest) = Len(wire) - 1 /\ DOMAIN rest = 1..(Len(wire) - 1)
      /\ \A i \in DOMAIN rest : rest[i] = wire[i + 1] /\ i + 1 \in DOMAIN wire
  BY TailSeq, LenProperties
<1>2. /\ o \in KbdRecord /\ QueueShape(o, TRUE) /\ o.respLen = 0
      /\ o.queue = <<>> => o.port = <<>>
      /\ o.queue # <<>> => /\ o.queue[1] \in Command
                           /\ o.queue[1] # DISABLE
                           /\ o.queue[1] = GETSET => k.queue[1] = DISABLE
                           /\ o.port = Bytes(o.queue[1])
  BY PopShape, WrittenAlone DEF Orderly, KbdRecord
<1> HIDE DEF o, rest
<1>5. RepliesOn(rest) = {}
  BY <1>1 DEF RepliesOn
<1>7. Silent(o, scan, rest)
  <2>1. ASSUME o.queue # <<>>, o.queue[1] = GETSET
        PROVE  ~scan /\ RepliesOn(rest) = DOMAIN rest
    <3>1. k.queue[1] = DISABLE
      BY <1>2, <2>1
    <3>2. ~scan /\ Len(wire) = 1
      BY <1>1, <3>1 DEF Orderly, Silent
    <3> QED
      BY <1>1, <1>5, <3>2
  <2> QED
    BY <1>2, <1>5, <2>1 DEF Silent, RepliesOn, Reply
<1>8. Outstanding(o, owes, rest)
  BY <1>2, <1>5 DEF Outstanding
<1>9. KeysAreKeys(rest)
  BY <1>1 DEF Orderly, KeysAreKeys
<1> QED
  BY <1>2, <1>7, <1>8, <1>9 DEF Orderly, o, rest

\* The command at the head is written once more.
LEMMA SendOrderly ==
    ASSUME NEW k \in KbdRecord, NEW scan \in BOOLEAN,
           NEW owes \in BOOLEAN, NEW wire \in Seq(WireByte), wire # <<>>,
           Orderly(k, TRUE, scan, owes, wire), k.queue # <<>>, k.port = <<>>,
           RepliesOn(wire) = {1}, ~owes, k.respLen = 0
    PROVE  Orderly(Send(k), TRUE, scan, owes, Tail(wire))
<1> DEFINE o == Send(k)
           rest == Tail(wire)
<1>1. Orderly(k, TRUE, scan, owes, rest)
  <2>1. TRUE \in BOOLEAN
    OBVIOUS
  <2> QED
    BY <2>1, TailOrderly
<1>2. RepliesOn(rest) = {}
  <2>1. Len(wire) \in Nat /\ DOMAIN wire = 1..Len(wire)
        /\ DOMAIN rest = 1..(Len(wire) - 1)
        /\ \A i \in DOMAIN rest : rest[i] = wire[i + 1]
    BY TailSeq, LenProperties
  <2> QED
    BY <2>1 DEF RepliesOn
<1>3. /\ o \in KbdRecord /\ o.queue = k.queue /\ o.waiting /\ o.respLen = 0
      /\ o.port = <<>> \o Bytes(k.queue[1])
  BY SendResult
<1>4. o.port = Bytes(k.queue[1])
  <2>1. k.queue[1] \in Command
    BY TailSeq DEF KbdRecord
  <2> QED
    BY <1>3, <2>1, BytesSeq
<1> HIDE DEF o, rest
<1>5. QueueShape(o, TRUE)
  BY <1>1, <1>3 DEF Orderly, QueueShape
<1>6. Silent(o, scan, rest)
  BY <1>1, <1>3 DEF Orderly, Silent
<1>7. Outstanding(o, owes, rest)
  BY <1>2, <1>3, <1>4 DEF Outstanding
<1> QED
  BY <1>1, <1>5, <1>6, <1>7 DEF Orderly, o, rest

\* The driver's handling of a claimed byte.
LEMMA ReceiveOrderly ==
    ASSUME NEW k \in KbdRecord, NEW scan \in BOOLEAN,
           NEW owes \in BOOLEAN, NEW wire \in Seq(WireByte), wire # <<>>,
           Orderly(k, TRUE, scan, owes, wire), Claims(k, Head(wire).val)
    PROVE  /\ HandleReceive(k, Head(wire).val) \in KbdRecord
           /\ Orderly(HandleReceive(k, Head(wire).val), TRUE, scan, owes, Tail(wire))
<1> DEFINE b == Head(wire).val
           o == HandleReceive(k, b)
<1>1. /\ k.queue # <<>> /\ Head(k.queue) = k.queue[1] /\ k.port = <<>>
      /\ AwaitsSet(k) <=> k.respLen = 1
      /\ wire[1] = Reply(b) /\ 1 \in RepliesOn(wire)
      /\ \/ /\ b = ACK /\ k.queue[1] = GETSET /\ k.respLen = 0
            /\ \A i \in RepliesOn(wire) \ {1} :
                  wire[i].val \in ScancodeSet /\ ~owes
         \/ RepliesOn(wire) = {1} /\ ~owes
  <2>1. AnswersHead(k, owes, wire)
    BY ClaimedByte
  <2> QED
    BY <2>1 DEF AnswersHead
<1>2. b \in 0..255 /\ wire[1].val = b
  <2>1. Head(wire) = wire[1] /\ Head(wire) \in WireByte
    BY TailSeq
  <2> QED
    BY <2>1 DEF WireByte
<1>3. k.respLen \in {0, 1}
  BY DEF KbdRecord
<1> HIDE DEF b
<1>4. CASE AwaitsSet(k)
  <2> DEFINE s == (b - 1) % 256
             l == [k EXCEPT !.scancodeSet = s, !.waitingSet = FALSE]
  <2>1. s \in 0..255 /\ FALSE \in BOOLEAN
    BY <1>2
  <2>2. o = Pop(l)
    BY <1>4 DEF HandleReceive
  <2> HIDE DEF s
  <2>3. /\ l \in KbdRecord /\ l.queue = k.queue /\ l.waiting = k.waiting
        /\ l.respLen = k.respLen /\ l.port = k.port
    BY <2>1 DEF KbdRecord
  <2> HIDE DEF l
  <2>4. Orderly(l, TRUE, scan, owes, wire)
    BY <2>3 DEF Orderly, QueueShape, Silent, Outstanding
  <2>5. k.queue[1] # DISABLE /\ RepliesOn(wire) = {1} /\ ~owes
    BY <1>1, <1>4 DEF AwaitsSet, GETSET, DISABLE
  <2> QED
    BY <1>1, <2>2, <2>3, <2>4, <2>5, PopResult, PopOrderly DEF b
<1>5. CASE ~AwaitsSet(k) /\ b = RESEND
  <2>1. o = Send(k)
    BY <1>5 DEF HandleReceive, ACK, RESEND
  <2>2. RepliesOn(wire) = {1} /\ ~owes /\ k.respLen = 0
    BY <1>1, <1>3, <1>5 DEF ACK, RESEND
  <2> QED
    BY <1>1, <2>1, <2>2, SendResult, SendOrderly DEF b
<1>6. CASE ~AwaitsSet(k) /\ b = ACK /\ k.queue[1] = GETSET
  <2> DEFINE l == [k EXCEPT !.respLen = 1]
             rest == Tail(wire)
  <2>1. k.respLen = 0
    BY <1>1, <1>3, <1>6
  <2>2. o = l
    BY <1>1, <1>6, <2>1 DEF HandleReceive, ACK, RESEND, AwaitsSet
  <2>3. 1 \in 0..1
    OBVIOUS
  <2>4. /\ l \in KbdRecord /\ l.queue = k.queue /\ l.waiting = k.waiting
        /\ l.respLen = 1 /\ l.port = k.port
    BY <2>3, SetRespLen DEF KbdRecord
  <2> HIDE DEF l
  <2>5. Orderly(k, TRUE, scan, owes, rest)
    BY TailOrderly
  <2>6. \A i \in RepliesOn(rest) : rest[i].val \in ScancodeSet /\ ~owes
    <3>1. Len(wire) \in Nat /\ DOMAIN wire = 1..Len(wire)
          /\ DOMAIN rest = 1..(Len(wire) - 1)
          /\ \A i \in DOMAIN rest : rest[i] = wire[i + 1]
      BY TailSeq, LenProperties
    <3>2. \A i \in RepliesOn(rest) :
             rest[i] = wire[i + 1] /\ i + 1 \in RepliesOn(wire) \ {1}
      BY <3>1 DEF RepliesOn
    <3> QED
      BY <1>1, <3>2
  <2> HIDE DEF rest
  <2>7. QueueShape(l, TRUE)
    BY <1>1, <1>6, <2>4, <2>5 DEF Orderly, QueueShape
  <2>8. Silent(l, scan, rest)
    BY <2>4, <2>5 DEF Orderly, Silent
  <2>9. Outstanding(l, owes, rest)
    BY <1>1, <1>6, <2>4, <2>5, <2>6 DEF Orderly, Outstanding
  <2> QED
    BY <2>2, <2>4, <2>5, <2>7, <2>8, <2>9 DEF Orderly, b, rest
<1>7. CASE ~AwaitsSet(k) /\ b # RESEND /\ ~(b = ACK /\ k.queue[1] = GETSET)
  <2>1. o = Pop(k)
    BY <1>1, <1>7 DEF HandleReceive
  <2>2. RepliesOn(wire) = {1} /\ ~owes
    BY <1>1, <1>7
  <2>3. k.queue[1] = DISABLE => wire[1] = Reply(ACK)
    BY <1>1, <1>7 DEF Claims, FinalReply, DISABLE, ECHO, b
  <2> QED
    BY <1>1, <2>1, <2>2, <2>3, PopResult, PopOrderly DEF b
<1> QED
  BY <1>4, <1>5, <1>6, <1>7

\* The keyboard takes a byte of the head command; with nothing else under
\* way, the driver's record differs from before in the port only.  The last
\* byte is alone; in front of another one there is only the query's first.
TakesByte(k, k2, owes, wire) ==
    /\ k2 \in KbdRecord
    /\ k2.queue = k.queue /\ k2.waiting = k.waiting /\ k2.respLen = 0
    /\ k.queue # <<>> /\ k.queue[1] \in Command
    /\ k.respLen = 0 /\ ~owes /\ RepliesOn(wire) = {}
    /\ \/ /\ Len(k.port) = 1 /\ k2.port = <<>>
          /\ Head(k.port) = IF k.queue[1] = GETSET THEN ARGUMENT ELSE k.queue[1]
       \/ /\ Len(k.port) # 1 /\ k2.port = Tail(Bytes(k.queue[1]))
          /\ k.queue[1] = GETSET /\ Head(k.port) = GETSET

LEMMA ByteTaken ==
    ASSUME NEW k \in KbdRecord, NEW conn \in BOOLEAN, NEW scan \in BOOLEAN,
           NEW owes \in BOOLEAN, NEW wire \in Seq(WireByte),
           Orderly(k, conn, scan, owes, wire), k.port # <<>>,
           NEW k2, k2 = [k EXCEPT !.port = Tail(k.port)]
    PROVE  TakesByte(k, k2, owes, wire)
<1>1. /\ k.queue # <<>>
      /\ k.port \in {Bytes(k.queue[1]), Tail(Bytes(k.queue[1]))}
      /\ k.respLen = 0 /\ ~owes /\ RepliesOn(wire) = {}
  BY DEF Orderly, Outstanding
<1>2. k.queue[1] \in Command
  BY <1>1, TailSeq DEF KbdRecord
<1>3. k.port \in Seq(Byte) /\ Tail(k.port) \in Seq(Byte)
  BY TailSeq DEF KbdRecord
<1> DEFINE p == Tail(k.port)
<1> HIDE DEF p
<1>4. /\ [k EXCEPT !.port = p] \in KbdRecord
      /\ [k EXCEPT !.port = p].port = p
      /\ [k EXCEPT !.port = p].queue = k.queue
      /\ [k EXCEPT !.port = p].waiting = k.waiting
      /\ [k EXCEPT !.port = p].respLen = k.respLen
  BY <1>3 DEF KbdRecord, p
<1>5. CASE k.port = <<GETSET, ARGUMENT>> /\ k.queue[1] = GETSET
  <2>1. Len(k.port) # 1 /\ Head(k.port) = GETSET
    BY <1>5
  <2>2. Tail(k.port) = Tail(Bytes(k.queue[1]))
    BY <1>2, <1>5, BytesSeq
  <2> QED
    BY <1>1, <1>2, <1>4, <1>5, <2>1, <2>2 DEF TakesByte, p
<1>6. CASE k.port = <<ARGUMENT>> /\ k.queue[1] = GETSET
  BY <1>1, <1>2, <1>4, <1>6 DEF TakesByte, p
<1>7. CASE k.port = <<k.queue[1]>> /\ k.queue[1] # GETSET
  BY <1>1, <1>2, <1>4, <1>7 DEF TakesByte, p
<1> QED
  BY <1>1, <1>2, <1>5, <1>6, <1>7, BytesSeq

\* A byte at the end of a wire that carries no reply.
OneReply(wire, b, w2) ==
    /\ w2 \in Seq(WireByte) /\ Len(w2) = Len(wire) + 1
    /\ Len(wire) \in Nat /\ DOMAIN w2 = 1..(Len(wire) + 1)
    /\ RepliesOn(w2) = {Len(w2)} /\ w2[Len(w2)] = b
    /\ \A i \in DOMAIN wire : w2[i] = wire[i]
    /\ DOMAIN wire = 1..Len(wire)

LEMMA FirstReply ==
    ASSUME NEW wire \in Seq(WireByte), NEW b \in WireByte,
           b.from = "reply", RepliesOn(wire) = {},
           NEW w2, w2 = Append(wire, b)
    PROVE  OneReply(wire, b, w2)
<1>1. w2 = Append(wire, b)
  OBVIOUS
<1>2. /\ Append(wire, b) \in Seq(WireByte)
      /\ Len(Append(wire, b)) = Len(wire) + 1
      /\ Len(wire) \in Nat /\ DOMAIN wire = 1..Len(wire)
      /\ DOMAIN Append(wire, b) = 1..(Len(wire) + 1)
      /\ Append(wire, b)[Len(wire) + 1] = b
      /\ \A i \in 1..Len(wire) : Append(wire, b)[i] = wire[i]
  BY AppendSeq, LenProperties
<1> QED
  BY <1>1, <1>2 DEF RepliesOn, OneReply

\* A well-typed device in order.
InOrder(k, conn, scan, owes, wire) ==
    /\ k \in KbdRecord /\ wire \in Seq(WireByte)
    /\ Orderly(k, conn, scan, owes, wire)

\* What obeying byte c does to the keyboard's scanning and owesSet.
Executes(c, scan, scan2, owes2) ==
    /\ scan2 \in BOOLEAN /\ owes2 \in BOOLEAN
    /\ scan2 <=> (c = ENABLE \/ (scan /\ c # DISABLE))
    /\ owes2 <=> c = ARGUMENT

LEMMA ExecuteOrderly ==
    ASSUME NEW k \in KbdRecord, NEW conn \in BOOLEAN, NEW scan \in BOOLEAN,
           NEW owes \in BOOLEAN, NEW wire \in Seq(WireByte),
           Orderly(k, conn, scan, owes, wire), Len(k.port) = 1,
           NEW k2, k2 = [k EXCEPT !.port = Tail(k.port)],
           NEW e, e = Head(k.port),
           NEW w2, w2 = Append(wire, Reply(FinalReply(e))),
           NEW scan2, NEW owes2, Executes(e, scan, scan2, owes2)
    PROVE  InOrder(k2, conn, scan2, owes2, w2)
<1> DEFINE c == k.queue[1]
<1>1. TakesByte(k, k2, owes, wire) /\ k2.port = <<>>
  <2>1. k.port # <<>>
    BY EmptySeq
  <2>2. TakesByte(k, k2, owes, wire)
    BY <2>1, ByteTaken
  <2> QED
    BY <2>2 DEF TakesByte
<1>2. c = k.queue[1] /\ c \in Command
  BY <1>1 DEF TakesByte
<1>F. FinalReply(e) = FinalReply(c) /\ (e = ARGUMENT <=> c = GETSET)
      /\ (e = ENABLE <=> c = ENABLE) /\ (e = DISABLE <=> c = DISABLE)
  BY <1>1, <1>2
     DEF TakesByte, FinalReply, Command, ECHO, ENABLE, DISABLE, GETSET, ARGUMENT
<1> HIDE DEF c
<1>E. /\ scan2 \in BOOLEAN /\ owes2 \in BOOLEAN
      /\ scan2 <=> (c = ENABLE \/ (scan /\ c # DISABLE))
      /\ owes2 <=> c = GETSET
  BY <1>F DEF Executes
<1> DEFINE b == Reply(FinalReply(c))
<1>3. b \in WireByte /\ b.from = "reply" /\ b.val = FinalReply(c)
  BY DEF Reply, WireByte, FinalReply, ACK, ECHOED
<1>T. w2 = Append(wire, b)
  BY <1>F
<1>R. RepliesOn(wire) = {}
  BY <1>1 DEF TakesByte
<1> HIDE DEF b
<1>4. /\ w2 \in Seq(WireByte) /\ Len(w2) = Len(wire) + 1
      /\ Len(wire) \in Nat /\ DOMAIN w2 = 1..(Len(wire) + 1)
      /\ RepliesOn(w2) = {Len(w2)} /\ w2[Len(w2)] = b
      /\ \A i \in DOMAIN wire : w2[i] = wire[i]
      /\ DOMAIN wire = 1..Len(wire)
  <2>1. OneReply(wire, b, w2)
    BY <1>3, <1>T, <1>R, FirstReply
  <2> QED
    BY <2>1 DEF OneReply
<1>5. QueueShape(k2, conn)
  BY <1>1 DEF Orderly, QueueShape, TakesByte
<1>6. Silent(k2, scan2, w2)
  <2>1. ASSUME c = GETSET
        PROVE  ~scan2 /\ RepliesOn(w2) = DOMAIN w2
    <3>1. ~scan /\ DOMAIN wire = {}
      BY <1>1, <1>2, <2>1 DEF Orderly, Silent, TakesByte
    <3> QED
      BY <1>4, <1>E, <2>1, <3>1 DEF GETSET, ENABLE
  <2>2. ASSUME c = DISABLE, NEW i \in DOMAIN w2, w2[i] = Reply(ACK)
        PROVE  ~scan2 /\ i = Len(w2)
    <3>1. ~scan2
      BY <1>E, <2>2 DEF DISABLE, ENABLE
    <3>2. i \in RepliesOn(w2)
      BY <2>2 DEF RepliesOn, Reply
    <3> QED
      BY <1>4, <3>1, <3>2
  <2> QED
    BY <1>1, <1>2, <2>1, <2>2 DEF Silent, TakesByte
<1>7. Outstanding(k2, owes2, w2)
  <2>1. c = GETSET => FinalReply(c) = ACK
    BY DEF FinalReply, GETSET, ECHO
  <2>2. \A i \in RepliesOn(w2) : w2[i].val = FinalReply(c)
    BY <1>3, <1>4
  <2>3. k2.queue # <<>> /\ k2.queue[1] = c /\ k2.respLen = 0 /\ k2.port = <<>>
    BY <1>1, <1>2 DEF TakesByte
  <2>4. owes2 =>
          /\ k2.queue # <<>> /\ k2.queue[1] = GETSET
          /\ \A i \in RepliesOn(w2) : w2[i].val = ACK /\ k2.respLen = 0
    BY <1>E, <2>1, <2>2, <2>3
  <2>5. \A i \in RepliesOn(w2) :
          /\ k2.queue # <<>>
          /\ w2[i].val \in {RESEND, FinalReply(k2.queue[1])} /\ k2.respLen = 0
    BY <2>2, <2>3
  <2>6. \A i, j \in RepliesOn(w2) : ~(i < j)
    BY <1>4
  <2> QED
    BY <2>3, <2>4, <2>5, <2>6 DEF Outstanding
<1>8. KeysAreKeys(w2)
  BY <1>3, <1>4 DEF Orderly, KeysAreKeys
<1> QED
  BY <1>1, <1>4, <1>5, <1>6, <1>7, <1>8 DEF InOrder, Orderly, TakesByte

LEMMA AskResendOrderly ==
    ASSUME NEW k \in KbdRecord, NEW conn \in BOOLEAN, NEW scan \in BOOLEAN,
           NEW owes \in BOOLEAN, NEW wire \in Seq(WireByte),
           Orderly(k, conn, scan, owes, wire), Len(k.port) = 1,
           NEW k2, k2 = [k EXCEPT !.port = Tail(k.port)],
           NEW w2, w2 = Append(wire, Reply(RESEND))
    PROVE  InOrder(k2, conn, scan, owes, w2)
<1>1. TakesByte(k, k2, owes, wire) /\ k2.port = <<>>
  <2>1. ASSUME k.port = <<>> PROVE FALSE
    <3>1. Len(<<>>) = 1
      BY <2>1
    <3> QED
      BY <3>1, EmptySeq
  <2>2. TakesByte(k, k2, owes, wire)
    BY <2>1, ByteTaken
  <2> QED
    BY <2>2 DEF TakesByte
<1> DEFINE b == Reply(RESEND)
<1>3. b \in WireByte /\ b.from = "reply" /\ b.val = RESEND /\ b # Reply(ACK)
  BY DEF Reply, WireByte, RESEND, ACK
<1>T. w2 = Append(wire, b)
  OBVIOUS
<1>R. RepliesOn(wire) = {}
  BY <1>1 DEF TakesByte
<1> HIDE DEF b
<1>4. /\ w2 \in Seq(WireByte) /\ Len(w2) = Len(wire) + 1
      /\ Len(wire) \in Nat /\ DOMAIN w2 = 1..(Len(wire) + 1)
      /\ RepliesOn(w2) = {Len(w2)} /\ w2[Len(w2)] = b
      /\ \A i \in DOMAIN wire : w2[i] = wire[i]
      /\ DOMAIN wire = 1..Len(wire)
  <2>1. OneReply(wire, b, w2)
    BY <1>3, <1>T, <1>R, FirstReply
  <2> QED
    BY <2>1 DEF OneReply
<1>5. QueueShape(k2, conn)
  BY <1>1 DEF Orderly, QueueShape, TakesByte
<1>6. Silent(k2, scan, w2)
  <2>1. ASSUME k.queue[1] = GETSET
        PROVE  ~scan /\ RepliesOn(w2) = DOMAIN w2
    <3>1. ~scan /\ DOMAIN wire = {}
      BY <1>1, <2>1 DEF Orderly, Silent, TakesByte
    <3> QED
      BY <1>4, <3>1
  <2>2. \A i \in DOMAIN w2 : w2[i] # Reply(ACK)
    BY <1>3, <1>4 DEF RepliesOn, Reply
  <2> QED
    BY <1>1, <2>1, <2>2 DEF Silent, TakesByte
<1>7. Outstanding(k2, owes, w2)
  BY <1>1, <1>3, <1>4 DEF Outstanding, TakesByte
<1>8. KeysAreKeys(w2)
  BY <1>3, <1>4 DEF Orderly, KeysAreKeys
<1> QED
  BY <1>1, <1>4, <1>5, <1>6, <1>7, <1>8 DEF InOrder, Orderly, TakesByte

\* A byte that is taken and not answered leaves the rest of its command.
LEMMA LoseCommandOrderly ==
    ASSUME NEW k \in KbdRecord, NEW conn \in BOOLEAN, NEW scan \in BOOLEAN,
           NEW owes \in BOOLEAN, NEW wire \in Seq(WireByte),
           Orderly(k, conn, scan, owes, wire), k.port # <<>>,
           NEW k2, k2 = [k EXCEPT !.port = Tail(k.port)]
    PROVE  k2 \in KbdRecord /\ Orderly(k2, conn, scan, owes, wire)
<1>1. TakesByte(k, k2, owes, wire)
  BY ByteTaken
<1> QED
  BY <1>1 DEF Orderly, QueueShape, Silent, Outstanding, TakesByte

\* The set follows the ACK, or comes alone when the ACK is read or lost.
LEMMA TellSetOrderly ==
    ASSUME NEW k \in KbdRecord, NEW conn \in BOOLEAN, NEW scan \in BOOLEAN,
           NEW wire \in Seq(WireByte), NEW s \in ScancodeSet,
           Orderly(k, conn, scan, TRUE, wire)
    PROVE  /\ Append(wire, Reply(s)) \in Seq(WireByte)
           /\ Orderly(k, conn, scan, FALSE, Append(wire, Reply(s)))
<1> DEFINE b == Reply(s)
           w2 == Append(wire, b)
<1>1. b \in WireByte /\ b.from = "reply" /\ b.val = s
  BY DEF Reply, WireByte, ScancodeSet
<1> HIDE DEF b
<1>2. /\ w2 \in Seq(WireByte) /\ Len(w2) = Len(wire) + 1 /\ Len(wire) \in Nat
      /\ DOMAIN w2 = 1..(Len(wire) + 1) /\ DOMAIN wire = 1..Len(wire)
      /\ w2[Len(w2)] = b /\ \A i \in DOMAIN wire : w2[i] = wire[i]
  BY <1>1, AppendSeq, LenProperties
<1> HIDE DEF w2
<1>3. RepliesOn(w2) = RepliesOn(wire) \cup {Len(w2)}
      /\ RepliesOn(wire) \subseteq 1..Len(wire)
  BY <1>1, <1>2 DEF RepliesOn
<1>4. /\ k.queue # <<>> /\ k.queue[1] = GETSET /\ k.port = <<>>
      /\ \A i \in RepliesOn(wire) : wire[i].val = ACK /\ k.respLen = 0
  BY DEF Orderly, Outstanding
<1>5. Silent(k, scan, w2)
  BY <1>2, <1>3, <1>4 DEF Orderly, Silent, GETSET, DISABLE
<1>6. Outstanding(k, FALSE, w2)
  <2>1. \A i \in RepliesOn(wire) :
           w2[i].val = ACK /\ k.respLen = 0 /\ i < Len(w2)
    BY <1>2, <1>3, <1>4
  <2>2. w2[Len(w2)].val \in ScancodeSet
    BY <1>1, <1>2
  <2>3. \A i, j \in RepliesOn(wire) : ~(i < j)
    BY <1>3, <1>4 DEF Orderly, Outstanding, ScancodeSet, ACK
  <2> QED
    BY <1>2, <1>3, <1>4, <2>1, <2>2, <2>3
       DEF Outstanding, FinalReply, GETSET, ECHO
<1>7. KeysAreKeys(w2)
  BY <1>1, <1>2 DEF Orderly, KeysAreKeys
<1> QED
  BY <1>2, <1>5, <1>6, <1>7 DEF Orderly, b, w2

\* Keys come only while no query is at the head of the queue.
LEMMA StrikeOrderly ==
    ASSUME NEW k \in KbdRecord, NEW conn \in BOOLEAN,
           NEW owes \in BOOLEAN, NEW wire \in Seq(WireByte), NEW b \in KeyByte,
           Orderly(k, conn, TRUE, owes, wire)
    PROVE  /\ Append(wire, Key(b)) \in Seq(WireByte)
           /\ Orderly(k, conn, TRUE, owes, Append(wire, Key(b)))
<1> DEFINE e == Key(b)
           w2 == Append(wire, e)
<1>1. e \in WireByte /\ e.from = "key" /\ e.val = b /\ e # Reply(ACK)
  BY KeyByteAssumption DEF Reply, WireByte, Key
<1> HIDE DEF e
<1>2. /\ w2 \in Seq(WireByte) /\ Len(w2) = Len(wire) + 1 /\ Len(wire) \in Nat
      /\ DOMAIN w2 = 1..(Len(wire) + 1) /\ DOMAIN wire = 1..Len(wire)
      /\ w2[Len(w2)] = e /\ \A i \in DOMAIN wire : w2[i] = wire[i]
  BY <1>1, AppendSeq, LenProperties
<1> HIDE DEF w2
<1>3. RepliesOn(w2) = RepliesOn(wire)
      /\ RepliesOn(wire) \subseteq DOMAIN wire
  BY <1>1, <1>2 DEF RepliesOn
<1>4. Silent(k, TRUE, w2)
  BY <1>1, <1>2 DEF Orderly, Silent
<1>5. Outstanding(k, owes, w2)
  BY <1>2, <1>3 DEF Orderly, Outstanding
<1>6. KeysAreKeys(w2)
  BY <1>1, <1>2 DEF Orderly, KeysAreKeys
<1> QED
  BY <1>2, <1>4, <1>5, <1>6 DEF Orderly, e, w2

-----------------------------------------------------------------------------
(* IInv is inductive for keyboards that are not prompt.                    *)

\* What the invariant says of the device that takes a step.
LEMMA DeviceState ==
    ASSUME IInv, NEW d \in Device
    PROVE  /\ TypeOK
           /\ Orderly(kbd[d], connected[d], scanning[d], owesSet[d], toHost[d])
           /\ Orderly(Selected(d), TRUE, scanning[d], owesSet[d], toHost[d])
<1>1. /\ TypeOK
      /\ Orderly(kbd[d], connected[d], scanning[d], owesSet[d], toHost[d])
  BY DEF IInv
<1>2. CASE connected[d]
  BY <1>1, <1>2, DeviceTypes DEF Selected
<1>3. CASE ~connected[d]
  <2>1. Selected(d) = OnConnect(kbd[d]) /\ connected[d] = FALSE
    BY <1>1, <1>3, DeviceTypes DEF Selected
  <2> QED
    BY <1>1, <2>1, DeviceTypes, ConnectOrderly
<1> QED
  BY <1>1, <1>2, <1>3

OrderlyNext(d) ==
    Orderly(kbd'[d], connected'[d], scanning'[d], owesSet'[d], toHost'[d])

LEMMA BecomesOrderly ==
    ASSUME NEW d, NEW k2, NEW conn2, NEW scan2, NEW owes2, NEW w2,
           Happens(d, k2, conn2, scan2, owes2, w2),
           Orderly(k2, conn2, scan2, owes2, w2)
    PROVE  OrderlyNext(d)
  BY DEF Happens, Becomes, OrderlyNext

\* The keyboard takes a byte: the last one of a command is alone and is
\* answered, the one before it is not.
LEMMA AnsweredOrderly ==
    ASSUME ~Prompt, IInv, NEW d \in Device, kbd[d].port # <<>>,
           NEW r, NEW scan2, NEW owes2, Answered(d, r, scan2, owes2),
           NEW k2, k2 = Taken(kbd[d]),
           Len(kbd[d].port) = 1 =>
              Orderly(k2, connected[d], scan2, owes2, Append(toHost[d], Reply(r))),
           Len(kbd[d].port) # 1 => scan2 = scanning[d] /\ owes2 = owesSet[d]
    PROVE  OrderlyNext(d)
<1>1. /\ kbd[d] \in KbdRecord /\ toHost[d] \in Seq(WireByte)
      /\ connected[d] \in BOOLEAN /\ scanning[d] \in BOOLEAN
      /\ owesSet[d] \in BOOLEAN
      /\ Orderly(kbd[d], connected[d], scanning[d], owesSet[d], toHost[d])
  BY DeviceState, DeviceTypes
<1>2. CASE Len(kbd[d].port) = 1
  BY <1>2, BecomesOrderly DEF Answered
<1>3. CASE Len(kbd[d].port) # 1
  <2>1. k2 = [kbd[d] EXCEPT !.port = Tail(kbd[d].port)]
    BY DEF Taken
  <2>2. Orderly(k2, connected[d], scanning[d], owesSet[d], toHost[d])
    BY <1>1, <2>1, LoseCommandOrderly
  <2>3. Happens(d, k2, connected[d], scanning[d], owesSet[d], toHost[d])
    BY <1>3 DEF Answered
  <2> QED
    BY <2>2, <2>3, BecomesOrderly
<1> QED
  BY <1>2, <1>3

LEMMA ExecuteStep ==
    ASSUME ~Prompt, IInv, NEW d \in Device, NEW c \in Byte, Execute(d, c)
    PROVE  OrderlyNext(d)
<1> DEFINE k == kbd[d]
           k2 == Taken(k)
           s2 == c = ENABLE \/ (scanning[d] /\ c # DISABLE)
           o2 == c = ARGUMENT
           w2 == Append(toHost[d], Reply(FinalReply(c)))
<1>1. /\ k \in KbdRecord /\ toHost[d] \in Seq(WireByte)
      /\ connected[d] \in BOOLEAN /\ scanning[d] \in BOOLEAN
      /\ owesSet[d] \in BOOLEAN
      /\ Orderly(k, connected[d], scanning[d], owesSet[d], toHost[d])
  BY DeviceState, DeviceTypes
<1>2. /\ k.port # <<>> /\ c = Head(k.port)
      /\ Answered(d, FinalReply(c), s2, o2)
  BY DeviceState, ExecuteDoes
<1>3. /\ k2 = [k EXCEPT !.port = Tail(k.port)] /\ w2 = Append(toHost[d], Reply(FinalReply(c)))
      /\ Executes(c, scanning[d], s2, o2)
  BY DEF Taken, Executes
<1>4. TakesByte(k, k2, owesSet[d], toHost[d])
  <2> HIDE DEF k, k2
  <2> QED
    BY <1>1, <1>2, <1>3, ByteTaken
<1>5. Len(k.port) # 1 => s2 = scanning[d] /\ o2 = owesSet[d]
  <2> SUFFICES ASSUME Len(k.port) # 1
               PROVE  s2 = scanning[d] /\ o2 = owesSet[d]
    OBVIOUS
  <2>1. c = GETSET /\ ~owesSet[d]
    BY <1>2, <1>4 DEF TakesByte
  <2>2. (s2 <=> scanning[d]) /\ (o2 <=> owesSet[d])
    BY <2>1 DEF GETSET, ENABLE, DISABLE, ARGUMENT
  <2> QED
    BY <1>1, <2>2
<1>6. Len(k.port) = 1 => Orderly(k2, connected[d], s2, o2, w2)
  <2> HIDE DEF k, k2, s2, o2, w2
  <2>1. ASSUME Len(k.port) = 1
        PROVE  InOrder(k2, connected[d], s2, o2, w2)
    BY <1>1, <1>2, <1>3, <2>1, ExecuteOrderly
  <2> QED
    BY <2>1 DEF InOrder
<1> HIDE DEF s2, o2, k2
<1> QED
  BY <1>2, <1>5, <1>6, AnsweredOrderly DEF k2

LEMMA RefuseStep ==
    ASSUME ~Prompt, IInv, NEW d \in Device, AskResend(d) \/ Reject(d)
    PROVE  OrderlyNext(d)
<1> DEFINE k == kbd[d]
           k2 == Taken(k)
           w2 == Append(toHost[d], Reply(RESEND))
<1>1. /\ k \in KbdRecord /\ toHost[d] \in Seq(WireByte)
      /\ connected[d] \in BOOLEAN /\ scanning[d] \in BOOLEAN
      /\ owesSet[d] \in BOOLEAN
      /\ Orderly(k, connected[d], scanning[d], owesSet[d], toHost[d])
  BY DeviceState, DeviceTypes
<1>2. /\ k.port # <<>> /\ Answered(d, RESEND, scanning[d], owesSet[d])
  BY DeviceState, RefuseDoes
<1>3. k2 = [k EXCEPT !.port = Tail(k.port)] /\ w2 = Append(toHost[d], Reply(RESEND))
  BY DEF Taken
<1>4. Len(k.port) = 1 => Orderly(k2, connected[d], scanning[d], owesSet[d], w2)
  <2> HIDE DEF k, k2, w2
  <2> QED
    BY <1>1, <1>3, AskResendOrderly DEF InOrder
<1> QED
  BY <1>2, <1>4, AnsweredOrderly

LEMMA StepOrderly ==
    ASSUME ~Prompt, IInv, NEW d \in Device, Steps(d)
    PROVE  OrderlyNext(d)
<1> DEFINE k == kbd[d]
           s == Selected(d)
           wire == toHost[d]
<1>1. /\ TypeOK /\ k \in KbdRecord /\ s \in KbdRecord
      /\ wire \in Seq(WireByte) /\ connected[d] \in BOOLEAN
      /\ scanning[d] \in BOOLEAN /\ owesSet[d] \in BOOLEAN
      /\ devSet[d] \in ScancodeSet /\ TRUE \in BOOLEAN
      /\ Orderly(k, connected[d], scanning[d], owesSet[d], wire)
      /\ Orderly(s, TRUE, scanning[d], owesSet[d], wire)
  BY DeviceState, DeviceTypes
<1>2. CASE SendEcho(d)
  <2>1. Orderly(QueueCommand(s, ECHO), TRUE, scanning[d], owesSet[d], wire)
    BY <1>1, EchoOrderly
  <2> QED
    BY <1>1, <1>2, <2>1, SendEchoDoes, BecomesOrderly
<1>3. CASE SkipEcho(d)
  BY <1>1, <1>3, SkipEchoDoes, BecomesOrderly
<1>4. CASE Irq(d)
  <2> DEFINE r == Reads(s, Head(wire).val)
  <2>1. wire # <<>> /\ Happens(d, r, TRUE, scanning[d], owesSet[d], Tail(wire))
    BY <1>1, <1>4, IrqDoes
  <2>2. Orderly(r, TRUE, scanning[d], owesSet[d], Tail(wire))
    <3>1. CASE Claims(s, Head(wire).val)
      BY <1>1, <2>1, <3>1, ReceiveOrderly DEF Reads
    <3>2. CASE ~Claims(s, Head(wire).val)
      BY <1>1, <2>1, <3>2, TailOrderly DEF Reads
    <3> QED
      BY <3>1, <3>2
  <2> QED
    BY <2>1, <2>2, BecomesOrderly
<1>5. CASE Unheard(d) \/ LoseReply(d)
  BY <1>1, <1>5, TailDoes, TailOrderly, BecomesOrderly
<1>6. CASE \E c \in Byte : Execute(d, c)
  BY <1>6, ExecuteStep
<1>7. CASE AskResend(d) \/ Reject(d)
  BY <1>7, RefuseStep
<1>8. CASE LoseCommand(d)
  <2>1. /\ k.port # <<>>
        /\ Happens(d, Taken(k), connected[d], scanning[d], owesSet[d], wire)
    BY <1>1, <1>8, LoseCommandDoes
  <2>2. Orderly(Taken(k), connected[d], scanning[d], owesSet[d], wire)
    BY <1>1, <2>1, LoseCommandOrderly DEF Taken
  <2> QED
    BY <2>1, <2>2, BecomesOrderly
<1>9. CASE TellSet(d)
  <2> DEFINE w2 == Append(wire, Reply(devSet[d]))
  <2>1. owesSet[d] = TRUE /\ Happens(d, k, connected[d], scanning[d], FALSE, w2)
    BY <1>1, <1>9, TellSetDoes
  <2>2. Orderly(k, connected[d], scanning[d], TRUE, wire)
    BY <1>1, <2>1
  <2>3. Orderly(k, connected[d], scanning[d], FALSE, w2)
    <3> HIDE DEF k, wire
    <3> QED
      BY <1>1, <2>2, TellSetOrderly
  <2> QED
    BY <2>1, <2>3, BecomesOrderly
<1>10. CASE Strike(d)
  <2>1. scanning[d] = TRUE
    BY <1>1, <1>10, StrikeDoes
  <2>2. PICK b \in KeyByte :
           Happens(d, k, connected[d], TRUE, owesSet[d], Append(wire, Key(b)))
    BY <1>1, <1>10, <2>1, StrikeDoes
  <2>3. Orderly(k, connected[d], TRUE, owesSet[d], wire)
    BY <1>1, <2>1
  <2>4. Orderly(k, connected[d], TRUE, owesSet[d], Append(wire, Key(b)))
    <3> HIDE DEF k, wire
    <3> QED
      BY <1>1, <2>3, StrikeOrderly
  <2> QED
    BY <2>2, <2>4, BecomesOrderly
<1> QED
  BY <1>2, <1>3, <1>4, <1>5, <1>6, <1>7, <1>8, <1>9, <1>10 DEF Steps

LEMMA InitIInv == Init => IInv
<1> SUFFICES ASSUME Init, NEW d \in Device
             PROVE  Orderly(kbd[d], connected[d], scanning[d], owesSet[d], toHost[d])
  BY InitTypes DEF IInv
<1>1. /\ kbd[d].queue = <<>> /\ ~kbd[d].waiting /\ kbd[d].respLen = 0
      /\ kbd[d].port = <<>> /\ ~owesSet[d] /\ toHost[d] = <<>>
  BY DEF Init
<1> QED
  BY <1>1 DEF Orderly, QueueShape, Silent, Outstanding, KeysAreKeys, RepliesOn

LEMMA NextIInv ==
    ASSUME ~Prompt PROVE IInv /\ [Next]_vars => IInv'
<1> SUFFICES ASSUME IInv, [Next]_vars, NEW d \in Device
             PROVE  Orderly(kbd'[d], connected'[d], scanning'[d], owesSet'[d], toHost'[d])
  BY NextTypes DEF IInv
<1>1. CASE UNCHANGED vars
  BY <1>1 DEF vars, IInv
<1>2. CASE Next
  <2>1. PICK e \in Device : Steps(e)
    BY <1>2 DEF Next, Steps
  <2>2. \A f \in Device \ {e} : Untouched(f)
    BY <2>1, StepDoes DEF IInv
  <2>3. CASE e = d
    BY <2>1, <2>3, StepOrderly DEF OrderlyNext
  <2>4. CASE e # d
    BY <2>2, <2>4 DEF Untouched, Becomes, IInv
  <2> QED
    BY <2>3, <2>4
<1> QED
  BY <1>1, <1>2

(* The invariant of a keyboard that answers only the last of the bytes it  *)
(* is sent, whatever gets lost on the way: of the head command at most one  *)
(* byte, or for a query the ACK and the set, is under way, and a query      *)
(* finds the keyboard silent (ps2k.c:316-331, 422-445).                     *)
THEOREM Invariance == ~Prompt => (Spec => []IInv)
<1> SUFFICES ASSUME ~Prompt PROVE Spec => []IInv
  OBVIOUS
<1>1. IInv /\ [Next]_vars => IInv'
  BY NextIInv
<1> QED
  BY <1>1, InitIInv, PTL DEF Spec

(* The driver writes no command before the answer to the last byte of the   *)
(* one before it has been read, if that byte is the only one of the query   *)
(* that the keyboard answers (ps2k.c:267-280, 373-381, 447-451).            *)
THEOREM OneAtATime == ~Prompt => (Spec => []StopAndWait)
<1> SUFFICES ASSUME ~Prompt PROVE Spec => []StopAndWait
  OBVIOUS
<1>1. IInv => StopAndWait
  <2> SUFFICES ASSUME IInv, NEW d \in Device
               PROVE  /\ kbd[d].port # <<>> =>
                            /\ kbd[d].queue # <<>> /\ kbd[d].waiting
                            /\ kbd[d].port \in {Bytes(Head(kbd[d].queue)),
                                                Tail(Bytes(Head(kbd[d].queue)))}
                            /\ Replies(d) = {} /\ ~owesSet[d]
                      /\ Replies(d) # {} \/ owesSet[d] =>
                            kbd[d].queue # <<>> /\ kbd[d].waiting
    BY DEF StopAndWait
  <2>1. /\ kbd[d] \in KbdRecord
        /\ Orderly(kbd[d], connected[d], scanning[d], owesSet[d], toHost[d])
    BY DeviceState, DeviceTypes
  <2>2. kbd[d].queue # <<>> => Head(kbd[d].queue) = kbd[d].queue[1]
    BY <2>1, TailSeq DEF KbdRecord
  <2> QED
    BY <2>1, <2>2 DEF Orderly, QueueShape, Outstanding, Replies
<1> QED
  BY <1>1, Invariance, PTL

\* A device without a driver has no command and no reply under way.
LEMMA Unconnected ==
    ASSUME NEW k \in KbdRecord, NEW scan, NEW owes \in BOOLEAN, NEW wire,
           Orderly(k, FALSE, scan, owes, wire)
    PROVE  /\ k.queue = <<>> /\ k.respLen = 0 /\ k.port = <<>>
           /\ ~owes /\ RepliesOn(wire) = {}
<1>1. k.queue = <<>> /\ k.respLen # 1 /\ k.respLen \in 0..1
  BY DEF Orderly, QueueShape, KbdRecord
<1> QED
  BY <1>1 DEF Orderly, Outstanding

\* A byte that a keyboard takes which is not prompt: nothing else was under way.
LEMMA ByteDoes ==
    ASSUME ~Prompt, IInv, NEW d \in Device,
           \/ \E c \in Byte : Execute(d, c)
           \/ AskResend(d) \/ Reject(d) \/ LoseCommand(d)
    PROVE  /\ TakesByte(kbd[d], Taken(kbd[d]), owesSet[d], toHost[d])
           /\ \E scan2, owes2 \in BOOLEAN :
                 \/ /\ ~owes2
                    /\ Happens(d, Taken(kbd[d]), connected[d], scan2, owes2,
                               toHost[d])
                 \/ \E v \in {RESEND, ACK, ECHOED} :
                       Happens(d, Taken(kbd[d]), connected[d], scan2, owes2,
                               Append(toHost[d], Reply(v)))
<1>1. /\ TypeOK /\ kbd[d] \in KbdRecord /\ toHost[d] \in Seq(WireByte)
      /\ connected[d] \in BOOLEAN /\ scanning[d] \in BOOLEAN
      /\ owesSet[d] \in BOOLEAN
      /\ Orderly(kbd[d], connected[d], scanning[d], owesSet[d], toHost[d])
  BY DeviceState, DeviceTypes
<1>2. kbd[d].port # <<>>
  BY <1>1, ExecuteDoes, RefuseDoes, LoseCommandDoes
<1>3. TakesByte(kbd[d], Taken(kbd[d]), owesSet[d], toHost[d])
  BY <1>1, <1>2, ByteTaken DEF Taken
<1>4. owesSet[d] = FALSE /\ FALSE \in BOOLEAN
  BY <1>1, <1>3 DEF TakesByte
<1>5. CASE \E c \in Byte : Execute(d, c)
  <2>1. PICK c \in Byte : Execute(d, c)
    BY <1>5
  <2> DEFINE s2 == c = ENABLE \/ (scanning[d] /\ c # DISABLE)
             o2 == c = ARGUMENT
  <2>2. c = Head(kbd[d].port) /\ Answered(d, FinalReply(c), s2, o2)
    BY <1>1, <2>1, ExecuteDoes
  <2>3. FinalReply(c) \in {RESEND, ACK, ECHOED} /\ s2 \in BOOLEAN /\ o2 \in BOOLEAN
    BY DEF FinalReply
  <2>4. Len(kbd[d].port) # 1 => ~o2
    BY <1>3, <2>2 DEF TakesByte, GETSET, ARGUMENT
  <2> HIDE DEF s2, o2
  <2> QED
    BY <1>3, <2>2, <2>3, <2>4 DEF Answered
<1>6. CASE AskResend(d) \/ Reject(d)
  <2>1. Answered(d, RESEND, scanning[d], owesSet[d])
    BY <1>1, <1>6, RefuseDoes
  <2> QED
    BY <1>1, <1>3, <1>4, <2>1 DEF Answered
<1>7. CASE LoseCommand(d)
  BY <1>1, <1>3, <1>4, <1>7, LoseCommandDoes
<1> QED
  BY <1>5, <1>6, <1>7

-----------------------------------------------------------------------------
(* The scancode set.                                                       *)

\* What is known of the set in use: every set on the wire is the keyboard's,
\* and so is the driver's unless it still waits for one.
Learned(k, conn, wire, set) ==
    /\ conn /\ ~k.waitingSet => k.scancodeSet = set - 1
    /\ \A i \in RepliesOn(wire) :
          wire[i].val \in ScancodeSet => wire[i].val = set

\* Reading: the answer to the query is taken from the one reply on the wire.
LEMMA ReadsLearned ==
    ASSUME NEW k \in KbdRecord, NEW scan \in BOOLEAN, NEW owes \in BOOLEAN,
           NEW wire \in Seq(WireByte), wire # <<>>, NEW set \in ScancodeSet,
           Orderly(k, TRUE, scan, owes, wire), Learned(k, TRUE, wire, set)
    PROVE  Learned(Reads(k, Head(wire).val), TRUE, Tail(wire), set)
<1> DEFINE b == Head(wire).val
           r == Reads(k, b)
<1>1. \A i \in RepliesOn(Tail(wire)) :
         Tail(wire)[i].val \in ScancodeSet => Tail(wire)[i].val = set
  <2> SUFFICES ASSUME NEW i \in RepliesOn(Tail(wire))
               PROVE  Tail(wire)[i].val \in ScancodeSet => Tail(wire)[i].val = set
    OBVIOUS
  <2>1. i + 1 \in RepliesOn(wire) /\ Tail(wire)[i] = wire[i + 1]
    BY TailReplies
  <2> QED
    BY <2>1 DEF Learned
<1>2. ASSUME ~r.waitingSet PROVE r.scancodeSet = set - 1
  <2>1. CASE ~Claims(k, b)
    BY <1>2, <2>1 DEF Reads, Learned
  <2>2. CASE Claims(k, b)
    <3>1. AnswersHead(k, owes, wire)
      BY <2>2, ClaimedByte
    <3>2. r = HandleReceive(k, b)
      BY <2>2 DEF Reads
    <3>3. k.respLen \in {0, 1}
      BY DEF KbdRecord
    <3>4. CASE AwaitsSet(k)
      <4> DEFINE l == [k EXCEPT !.scancodeSet = (b - 1) % 256, !.waitingSet = FALSE]
      <4>1. r = Pop(l)
        BY <3>2, <3>4 DEF HandleReceive
      <4>2. wire[1].val = b /\ wire[1].val \in ScancodeSet
        <5>1. 1 \in RepliesOn(wire) /\ k.respLen = 1 /\ wire[1] = Head(wire)
          BY <3>1, <3>4, TailReplies DEF AnswersHead
        <5> QED
          BY <5>1 DEF Orderly, Outstanding
      <4>3. b = set
        BY <3>1, <4>2 DEF Learned, AnswersHead
      <4>4. (b - 1) % 256 = set - 1 /\ set - 1 \in 0..255
        BY <4>3 DEF ScancodeSet
      <4>5. l \in KbdRecord /\ l.scancodeSet = set - 1
        BY <4>4 DEF KbdRecord
      <4> HIDE DEF l
      <4>6. SameSet(l, Pop(l))
        BY <4>5, PopKeepsSet
      <4> QED
        BY <4>1, <4>5, <4>6 DEF SameSet
    <3>5. CASE ~AwaitsSet(k)
      <4>1. SameSet(k, r)
        <5>1. r \in {Send(k), [k EXCEPT !.respLen = @ + 1], Pop(k)}
          <6>1. CASE b = RESEND
            BY <3>2, <3>5, <6>1 DEF HandleReceive, ACK, RESEND
          <6>2. CASE b = ACK /\ Head(k.queue) = GETSET
            BY <3>2, <3>5, <6>2 DEF HandleReceive, ACK, RESEND
          <6>3. CASE b # RESEND /\ ~(b = ACK /\ Head(k.queue) = GETSET)
            BY <3>2, <3>5, <6>3 DEF HandleReceive
          <6> QED
            BY <6>1, <6>2, <6>3
        <5>2. SameSet(k, [k EXCEPT !.respLen = @ + 1])
          BY DEF SameSet, KbdRecord
        <5> QED
          BY <5>1, <5>2, SendKeepsSet, PopKeepsSet
      <4> QED
        BY <1>2, <4>1 DEF SameSet, Learned
    <3> QED
      BY <3>4, <3>5
  <2> QED
    BY <2>1, <2>2
<1> QED
  BY <1>1, <1>2 DEF Learned

\* A byte more or less on the wire, with the same set in the record.
LEMMA AppendLearned ==
    ASSUME NEW k, NEW k2, SameSet(k, k2), NEW conn, NEW set,
           NEW wire \in Seq(WireByte), NEW e \in WireByte,
           Learned(k, conn, wire, set),
           e.from = "reply" /\ e.val \in ScancodeSet => e.val = set
    PROVE  Learned(k2, conn, Append(wire, e), set)
<1> DEFINE w2 == Append(wire, e)
<1>1. \A i \in RepliesOn(w2) :
         \/ i \in RepliesOn(wire) /\ w2[i] = wire[i]
         \/ w2[i] = e /\ e.from = "reply"
  BY MoreReplies
<1> HIDE DEF w2
<1>2. \A i \in RepliesOn(w2) : w2[i].val \in ScancodeSet => w2[i].val = set
  BY <1>1 DEF Learned
<1> QED
  BY <1>2 DEF Learned, SameSet, w2

LEMMA TailLearned ==
    ASSUME NEW k, NEW conn, NEW set,
           NEW wire \in Seq(WireByte), wire # <<>>, Learned(k, conn, wire, set)
    PROVE  Learned(k, conn, Tail(wire), set)
<1> SUFFICES ASSUME NEW i \in RepliesOn(Tail(wire))
             PROVE  Tail(wire)[i].val \in ScancodeSet => Tail(wire)[i].val = set
  BY DEF Learned
<1>1. i + 1 \in RepliesOn(wire) /\ Tail(wire)[i] = wire[i + 1]
  BY TailReplies
<1> QED
  BY <1>1 DEF Learned

\* The invariant behind ScancodeSetLearned.
AllLearned ==
    \A d \in Device : Learned(kbd[d], connected[d], toHost[d], devSet[d])

LEMMA SelectedLearned ==
    ASSUME IInv, AllLearned, NEW d \in Device
    PROVE  Learned(Selected(d), TRUE, toHost[d], devSet[d])
<1>1. CASE connected[d]
  BY <1>1 DEF Selected, AllLearned, Learned
<1>2. CASE ~connected[d]
  BY <1>2, DeviceTypes, OnConnectAwaitsSet
     DEF IInv, Selected, AllLearned, Learned
<1> QED
  BY <1>1, <1>2

LearnedNext(d) == Learned(kbd'[d], connected'[d], toHost'[d], devSet[d])

LEMMA BecomesLearned ==
    ASSUME NEW d, NEW k2, NEW conn2, NEW scan2, NEW owes2, NEW w2,
           Happens(d, k2, conn2, scan2, owes2, w2),
           Learned(k2, conn2, w2, devSet[d])
    PROVE  LearnedNext(d)
  BY DEF Happens, Becomes, LearnedNext

LEMMA StepLearned ==
    ASSUME ~Prompt, IInv, AllLearned, NEW d \in Device, Steps(d)
    PROVE  LearnedNext(d)
<1> DEFINE k == kbd[d]
           s == Selected(d)
           wire == toHost[d]
<1>0. /\ TypeOK /\ k \in KbdRecord /\ wire \in Seq(WireByte)
      /\ scanning[d] \in BOOLEAN /\ owesSet[d] \in BOOLEAN
      /\ devSet[d] \in ScancodeSet /\ s \in KbdRecord
      /\ Learned(k, connected[d], wire, devSet[d])
      /\ Orderly(s, TRUE, scanning[d], owesSet[d], wire)
      /\ Learned(s, TRUE, wire, devSet[d])
      /\ SameSet(k, k)
  BY DeviceState, DeviceTypes, SelectedLearned DEF AllLearned, SameSet
<1>1. CASE SendEcho(d)
  <2>1. SameSet(s, QueueCommand(s, ECHO))
    BY <1>0, QueueCommandKeepsSet DEF Command
  <2>2. Learned(QueueCommand(s, ECHO), TRUE, wire, devSet[d])
    BY <1>0, <2>1 DEF Learned, SameSet
  <2> QED
    BY <1>0, <1>1, <2>2, SendEchoDoes, BecomesLearned
<1>2. CASE SkipEcho(d)
  BY <1>0, <1>2, SkipEchoDoes, BecomesLearned
<1>3. CASE Irq(d)
  <2> DEFINE r == Reads(s, Head(wire).val)
  <2>1. wire # <<>> /\ Happens(d, r, TRUE, scanning[d], owesSet[d], Tail(wire))
    BY <1>0, <1>3, IrqDoes
  <2>2. Learned(r, TRUE, Tail(wire), devSet[d])
    BY <1>0, <2>1, ReadsLearned
  <2> QED
    BY <2>1, <2>2, BecomesLearned
<1>4. CASE Unheard(d) \/ LoseReply(d)
  <2>1. /\ wire # <<>>
        /\ Happens(d, k, connected[d], scanning[d], owesSet[d], Tail(wire))
    BY <1>0, <1>4, TailDoes
  <2>2. Learned(k, connected[d], Tail(wire), devSet[d])
    BY <1>0, <2>1, TailLearned
  <2> QED
    BY <2>1, <2>2, BecomesLearned
<1>5. CASE \/ \E c \in Byte : Execute(d, c)
           \/ AskResend(d) \/ Reject(d) \/ LoseCommand(d)
  <2>1. SameSet(k, Taken(k))
    BY <1>0 DEF SameSet, Taken, KbdRecord
  <2>2. PICK scan2, owes2 \in BOOLEAN :
           \/ Happens(d, Taken(k), connected[d], scan2, owes2, wire)
           \/ \E v \in {RESEND, ACK, ECHOED} :
                 Happens(d, Taken(k), connected[d], scan2, owes2,
                         Append(wire, Reply(v)))
    BY <1>5, ByteDoes
  <2>3. CASE Happens(d, Taken(k), connected[d], scan2, owes2, wire)
    <3>1. Learned(Taken(k), connected[d], wire, devSet[d])
      BY <1>0, <2>1 DEF Learned, SameSet
    <3> QED
      BY <2>3, <3>1, BecomesLearned
  <2>4. ASSUME NEW v \in {RESEND, ACK, ECHOED},
               Happens(d, Taken(k), connected[d], scan2, owes2,
                       Append(wire, Reply(v)))
        PROVE  LearnedNext(d)
    <3> DEFINE e == Reply(v)
    <3>1. e \in WireByte /\ e.val \notin ScancodeSet
      BY DEF Reply, WireByte, RESEND, ACK, ECHOED, ScancodeSet
    <3> HIDE DEF e
    <3>2. Learned(Taken(k), connected[d], Append(wire, e), devSet[d])
      BY <1>0, <2>1, <3>1, AppendLearned
    <3> QED
      BY <2>4, <3>2, BecomesLearned DEF e
  <2> QED
    BY <2>2, <2>3, <2>4
<1>6. CASE TellSet(d)
  <2> DEFINE e == Reply(devSet[d])
  <2>1. e \in WireByte /\ e.val = devSet[d]
    BY <1>0 DEF Reply, WireByte, ScancodeSet
  <2>2. Happens(d, k, connected[d], scanning[d], FALSE, Append(wire, e))
    BY <1>0, <1>6, TellSetDoes
  <2> HIDE DEF e
  <2>3. Learned(k, connected[d], Append(wire, e), devSet[d])
    BY <1>0, <2>1, AppendLearned
  <2> QED
    BY <2>2, <2>3, BecomesLearned
<1>7. CASE Strike(d)
  <2>1. PICK b \in KeyByte :
           /\ Key(b) \in WireByte /\ Key(b).from # "reply"
           /\ Happens(d, k, connected[d], scanning[d], owesSet[d],
                      Append(wire, Key(b)))
    BY <1>0, <1>7, StrikeDoes
  <2>2. Learned(k, connected[d], Append(wire, Key(b)), devSet[d])
    BY <1>0, <2>1, AppendLearned
  <2> QED
    BY <2>1, <2>2, BecomesLearned
<1> QED
  BY <1>1, <1>2, <1>3, <1>4, <1>5, <1>6, <1>7 DEF Steps

LEMMA NextLearned ==
    ASSUME ~Prompt
    PROVE  IInv /\ AllLearned /\ [Next]_vars => AllLearned'
<1> SUFFICES ASSUME IInv, AllLearned, [Next]_vars, NEW d \in Device
             PROVE  Learned(kbd'[d], connected'[d], toHost'[d], devSet'[d])
  BY DEF AllLearned
<1>1. CASE UNCHANGED vars
  BY <1>1 DEF vars, AllLearned
<1>2. CASE Next
  <2>1. PICK e \in Device : Steps(e)
    BY <1>2 DEF Next, Steps
  <2>2. devSet' = devSet /\ \A f \in Device \ {e} : Untouched(f)
    BY <2>1, StepDoes DEF IInv
  <2>3. CASE e = d
    BY <2>1, <2>2, <2>3, StepLearned DEF LearnedNext
  <2>4. CASE e # d
    BY <2>2, <2>4 DEF Untouched, Becomes, AllLearned
  <2> QED
    BY <2>3, <2>4
<1> QED
  BY <1>1, <1>2

(* Once the driver has stopped waiting for the keyboard's scancode set     *)
(* (ps2k.c:453-456), it parses with the set the keyboard uses, whatever    *)
(* was lost before, if the keyboard answers only the last of the query's    *)
(* two bytes: the byte that handler takes can then only be the set.         *)
THEOREM RightSet == ~Prompt => (Spec => []ScancodeSetLearned)
<1> SUFFICES ASSUME ~Prompt PROVE Spec => []ScancodeSetLearned
  OBVIOUS
<1>1. Init => AllLearned
  <2> SUFFICES ASSUME Init, NEW d \in Device
               PROVE  Learned(kbd[d], connected[d], toHost[d], devSet[d])
    BY DEF AllLearned
  <2>1. connected[d] = FALSE /\ toHost[d] = <<>>
    BY DEF Init
  <2> QED
    BY <2>1 DEF Learned, RepliesOn
<1>2. AllLearned => ScancodeSetLearned
  BY DEF AllLearned, Learned, ScancodeSetLearned
<1>3. IInv /\ AllLearned /\ [Next]_vars => AllLearned'
  BY NextLearned
<1> QED
  BY <1>1, <1>2, <1>3, Invariance, PTL DEF Spec

-----------------------------------------------------------------------------
(* Without losses the scancode set comes behind its ACK.                   *)

\* The keyboard still owes the set only while the ACK is under way or has
\* been counted, and the set itself is never the first answer to be read.
AckFirst(k, owes, wire) ==
    /\ owes => k.respLen = 1 \/ RepliesOn(wire) # {}
    /\ \A i \in RepliesOn(wire) :
          wire[i].val \in ScancodeSet =>
              k.respLen = 1 \/ \E j \in RepliesOn(wire) : j < i

\* The invariant behind RepliesReachCommand.
AcksFirst == \A d \in Device : AckFirst(kbd[d], owesSet[d], toHost[d])

\* With no reply under way and none to come there is nothing to show.
LEMMA NothingOwed ==
    ASSUME NEW k, NEW owes, ~owes, NEW wire, RepliesOn(wire) = {}
    PROVE  AckFirst(k, owes, wire)
  BY DEF AckFirst

LEMMA SelectedAckFirst ==
    ASSUME IInv, AcksFirst, NEW d \in Device
    PROVE  AckFirst(Selected(d), owesSet[d], toHost[d])
<1>1. CASE connected[d]
  BY <1>1 DEF Selected, AcksFirst
<1>2. CASE ~connected[d]
  <2>1. /\ kbd[d] \in KbdRecord /\ scanning[d] \in BOOLEAN
        /\ owesSet[d] \in BOOLEAN /\ connected[d] = FALSE
    BY <1>2, DeviceTypes DEF IInv
  <2>2. Orderly(kbd[d], FALSE, scanning[d], owesSet[d], toHost[d])
    BY <2>1 DEF IInv
  <2> QED
    BY <2>1, <2>2, Unconnected, NothingOwed
<1> QED
  BY <1>1, <1>2

\* A reply at the head of the wire is claimed.
LEMMA ReplyClaimed ==
    ASSUME NEW k \in KbdRecord, NEW scan \in BOOLEAN, NEW owes \in BOOLEAN,
           NEW wire \in Seq(WireByte), wire # <<>>,
           Orderly(k, TRUE, scan, owes, wire), AckFirst(k, owes, wire),
           Head(wire).from = "reply"
    PROVE  Claims(k, Head(wire).val)
<1>1. wire[1] = Head(wire) /\ 1 \in RepliesOn(wire)
      /\ RepliesOn(wire) \subseteq Nat \ {0}
  BY TailReplies DEF RepliesOn
<1>2. k.queue # <<>> /\ k.waiting /\ Head(k.queue) = k.queue[1]
  BY <1>1, TailSeq DEF Orderly, Outstanding, QueueShape, KbdRecord
<1>3. CASE wire[1].val \in {RESEND, FinalReply(k.queue[1])}
  BY <1>1, <1>2, <1>3 DEF Claims
<1>4. CASE wire[1].val \notin {RESEND, FinalReply(k.queue[1])}
  <2>1. k.queue[1] = GETSET /\ wire[1].val \in ScancodeSet
    BY <1>1, <1>4 DEF Orderly, Outstanding
  <2>2. k.respLen = 1
    BY <1>1, <2>1 DEF AckFirst
  <2> QED
    BY <1>2, <2>1, <2>2 DEF Claims, AwaitsSet
<1> QED
  BY <1>3, <1>4

\* What becomes of the head command when its answer is read: it has one byte
\* of its answer, it is written again, or it is done.
Outcome(k, owes, wire, r) ==
    /\ k.queue # <<>> /\ 1 \in RepliesOn(wire)
    /\ \/ /\ r.queue = k.queue /\ r.respLen = 1
          /\ k.respLen = 0 /\ wire[1].val = ACK
       \/ /\ RepliesOn(wire) = {1} /\ ~owes /\ r.respLen = 0
          /\ \/ /\ r.queue = k.queue /\ k.respLen = 0
                /\ wire[1].val = RESEND
             \/ /\ r.queue = Tail(k.queue)
                /\ k.respLen = 1 \/ wire[1].val # RESEND

LEMMA ReadCases ==
    ASSUME NEW k \in KbdRecord, NEW scan \in BOOLEAN, NEW owes \in BOOLEAN,
           NEW wire \in Seq(WireByte), wire # <<>>,
           Orderly(k, TRUE, scan, owes, wire), Claims(k, Head(wire).val),
           NEW r, r = HandleReceive(k, Head(wire).val)
    PROVE  Outcome(k, owes, wire, r)
<1> DEFINE b == Head(wire).val
<1>1. AnswersHead(k, owes, wire)
  BY ClaimedByte
<1>2. /\ k.queue # <<>> /\ Head(k.queue) = k.queue[1]
      /\ AwaitsSet(k) <=> k.respLen = 1
      /\ wire[1].val = b /\ 1 \in RepliesOn(wire)
      /\ \/ b = ACK /\ k.queue[1] = GETSET /\ k.respLen = 0
         \/ RepliesOn(wire) = {1} /\ ~owes
  BY <1>1, TailReplies DEF AnswersHead
<1>3. k.respLen \in {0, 1}
  BY DEF KbdRecord
<1>T. ACK # RESEND
  BY DEF ACK, RESEND
<1> HIDE DEF b
<1>4. CASE AwaitsSet(k)
  <2> DEFINE s == (b - 1) % 256
             l == [k EXCEPT !.scancodeSet = s, !.waitingSet = FALSE]
  <2>1. s \in 0..255
    <3>1. Head(wire) = wire[1] /\ Head(wire) \in WireByte
      BY TailSeq
    <3>2. b \in 0..255
      BY <3>1 DEF WireByte, b
    <3> QED
      BY <3>2
  <2>2. r = Pop(l)
    BY <1>4 DEF HandleReceive, b
  <2> HIDE DEF s
  <2>3. l \in KbdRecord /\ l.queue = k.queue
    BY <2>1 DEF KbdRecord
  <2> HIDE DEF l
  <2>4. r.queue = Tail(k.queue) /\ r.respLen = 0
    BY <1>2, <2>2, <2>3, PopResult
  <2> QED
    BY <1>2, <1>4, <2>4 DEF Outcome
<1>5. CASE ~AwaitsSet(k) /\ b = RESEND
  <2>1. r = Send(k)
    BY <1>5 DEF HandleReceive, ACK, RESEND, b
  <2>2. r.queue = k.queue /\ r.respLen = k.respLen
    BY <1>2, <2>1, SendResult
  <2> QED
    BY <1>2, <1>3, <1>5, <1>T, <2>2 DEF Outcome
<1>6. CASE ~AwaitsSet(k) /\ b = ACK /\ k.queue[1] = GETSET
  <2>1. k.respLen = 0
    BY <1>2, <1>3, <1>6
  <2>2. r = [k EXCEPT !.respLen = 1]
    BY <1>2, <1>6, <2>1 DEF HandleReceive, ACK, RESEND, b
  <2>3. r.queue = k.queue /\ r.respLen = 1
    BY <2>2 DEF KbdRecord
  <2> QED
    BY <1>2, <1>6, <2>1, <2>3 DEF Outcome
<1>7. CASE ~AwaitsSet(k) /\ b # RESEND /\ ~(b = ACK /\ k.queue[1] = GETSET)
  <2>1. r = Pop(k)
    BY <1>2, <1>7 DEF HandleReceive, b
  <2>2. r.queue = Tail(k.queue) /\ r.respLen = 0
    BY <1>2, <2>1, PopResult
  <2> QED
    BY <1>2, <1>7, <2>2 DEF Outcome
<1> QED
  BY <1>4, <1>5, <1>6, <1>7

LEMMA ReadsAckFirst ==
    ASSUME NEW k \in KbdRecord, NEW scan \in BOOLEAN, NEW owes \in BOOLEAN,
           NEW wire \in Seq(WireByte), wire # <<>>,
           Orderly(k, TRUE, scan, owes, wire), AckFirst(k, owes, wire)
    PROVE  AckFirst(Reads(k, Head(wire).val), owes, Tail(wire))
<1>0. /\ \A i \in RepliesOn(Tail(wire)) :
            i \in Nat \ {0} /\ i + 1 \in RepliesOn(wire) /\ Tail(wire)[i] = wire[i + 1]
      /\ \A i \in RepliesOn(wire) \ {1} : i - 1 \in RepliesOn(Tail(wire))
      /\ RepliesOn(wire) \subseteq Nat \ {0}
  BY TailReplies
<1>1. CASE Claims(k, Head(wire).val)
  <2> DEFINE r == HandleReceive(k, Head(wire).val)
  <2>2. Reads(k, Head(wire).val) = r
    BY <1>1 DEF Reads
  <2>0. r = HandleReceive(k, Head(wire).val)
    OBVIOUS
  <2> HIDE DEF r
  <2>1. Outcome(k, owes, wire, r)
    BY <1>1, <2>0, ReadCases
  <2>3. RepliesOn(wire) = {1} => RepliesOn(Tail(wire)) = {}
    BY <1>0
  <2> QED
    BY <2>1, <2>2, <2>3 DEF AckFirst, Outcome
<1>2. CASE ~Claims(k, Head(wire).val)
  <2>1. 1 \notin RepliesOn(wire)
    BY <1>2, ReplyClaimed, TailReplies DEF RepliesOn
  <2>2. owes => k.respLen = 1 \/ RepliesOn(Tail(wire)) # {}
    BY <1>0, <2>1 DEF AckFirst
  <2>3. ASSUME NEW i \in RepliesOn(Tail(wire)), Tail(wire)[i].val \in ScancodeSet,
               k.respLen # 1
        PROVE  \E j \in RepliesOn(Tail(wire)) : j < i
    <3>1. i + 1 \in RepliesOn(wire) /\ wire[i + 1].val \in ScancodeSet /\ i \in Nat
      BY <1>0, <2>3
    <3>2. PICK j \in RepliesOn(wire) : j < i + 1
      BY <2>3, <3>1 DEF AckFirst
    <3>3. j \in Nat \ {0, 1} /\ j - 1 \in RepliesOn(Tail(wire)) /\ j - 1 < i
      BY <1>0, <2>1, <3>1, <3>2
    <3> QED
      BY <3>3
  <2>4. Reads(k, Head(wire).val) = k
    BY <1>2 DEF Reads
  <2> QED
    BY <2>2, <2>3, <2>4 DEF AckFirst
<1> QED
  BY <1>1, <1>2

\* One more byte on the wire: a key, or an answer that is not the set, or a
\* set that was owed.
LEMMA AppendAckFirst ==
    ASSUME NEW k, NEW owes, NEW owes2,
           NEW wire \in Seq(WireByte), NEW e \in WireByte,
           AckFirst(k, owes, wire),
           owes2 => owes \/ e.from = "reply",
           e.from = "reply" /\ e.val \in ScancodeSet => owes
    PROVE  AckFirst(k, owes2, Append(wire, e))
<1> DEFINE w2 == Append(wire, e)
<1>1. /\ Len(wire) \in Nat /\ RepliesOn(wire) \subseteq 1..Len(wire)
      /\ \A i \in RepliesOn(wire) : w2[i] = wire[i]
      /\ w2[Len(wire) + 1] = e
      /\ RepliesOn(w2) =
            RepliesOn(wire) \cup (IF e.from = "reply" THEN {Len(wire) + 1} ELSE {})
  BY MoreReplies
<1> HIDE DEF w2
<1>2. owes2 => k.respLen = 1 \/ RepliesOn(w2) # {}
  BY <1>1 DEF AckFirst
<1>3. ASSUME NEW i \in RepliesOn(w2), w2[i].val \in ScancodeSet, k.respLen # 1
      PROVE  \E j \in RepliesOn(w2) : j < i
  <2>1. CASE i \in RepliesOn(wire)
    BY <1>1, <1>3, <2>1 DEF AckFirst
  <2>2. CASE i \notin RepliesOn(wire)
    <3>1. i = Len(wire) + 1 /\ owes
      BY <1>1, <1>3, <2>2
    <3>2. PICK j \in RepliesOn(wire) : TRUE
      BY <1>3, <3>1 DEF AckFirst
    <3> QED
      BY <1>1, <3>1, <3>2
  <2> QED
    BY <2>1, <2>2
<1> QED
  BY <1>2, <1>3 DEF AckFirst, w2

AckFirstNext(d) == AckFirst(kbd'[d], owesSet'[d], toHost'[d])

LEMMA BecomesAckFirst ==
    ASSUME NEW d, NEW k2, NEW conn2, NEW scan2, NEW owes2, NEW w2,
           Happens(d, k2, conn2, scan2, owes2, w2), AckFirst(k2, owes2, w2)
    PROVE  AckFirstNext(d)
  BY DEF Happens, Becomes, AckFirstNext

LEMMA StepAckFirst ==
    ASSUME ~Prompt, ~Lossy, IInv, AcksFirst, NEW d \in Device, Steps(d)
    PROVE  AckFirstNext(d)
<1> DEFINE k == kbd[d]
           s == Selected(d)
           wire == toHost[d]
<1>0. /\ TypeOK /\ k \in KbdRecord /\ wire \in Seq(WireByte)
      /\ scanning[d] \in BOOLEAN /\ owesSet[d] \in BOOLEAN
      /\ devSet[d] \in ScancodeSet /\ connected[d] \in BOOLEAN
      /\ AckFirst(k, owesSet[d], wire)
      /\ Orderly(k, connected[d], scanning[d], owesSet[d], wire)
      /\ s \in KbdRecord
      /\ Orderly(s, TRUE, scanning[d], owesSet[d], wire)
      /\ AckFirst(s, owesSet[d], wire)
  BY DeviceState, DeviceTypes, SelectedAckFirst DEF AcksFirst
<1>1. CASE SendEcho(d)
  <2> DEFINE o == QueueCommand(s, ECHO)
  <2>1. Happens(d, o, TRUE, scanning[d], owesSet[d], wire)
    BY <1>0, <1>1, SendEchoDoes
  <2>2. CASE s.queue = <<>>
    <3>1. ~owesSet[d] /\ RepliesOn(wire) = {}
      BY <1>0, <2>2 DEF Orderly, Outstanding
    <3> QED
      BY <2>1, <3>1, NothingOwed, BecomesAckFirst
  <2>3. CASE s.queue # <<>>
    <3> HIDE DEF s
    <3>1. o.respLen = s.respLen
      <4>1. CASE Len(s.queue) >= QueueSize
        BY <1>0, <4>1, QueueOverrun, SetOverrun DEF Command
      <4>2. CASE ~(Len(s.queue) >= QueueSize)
        BY <1>0, <2>3, <4>2, EchoShape DEF Orderly
      <4> QED
        BY <4>1, <4>2
    <3>2. AckFirst(o, owesSet[d], wire)
      BY <1>0, <3>1 DEF AckFirst
    <3> QED
      BY <2>1, <3>2, BecomesAckFirst
  <2> QED
    BY <2>2, <2>3
<1>2. CASE SkipEcho(d)
  BY <1>0, <1>2, SkipEchoDoes, BecomesAckFirst
<1>3. CASE Irq(d)
  <2> DEFINE r == Reads(s, Head(wire).val)
  <2>1. wire # <<>> /\ Happens(d, r, TRUE, scanning[d], owesSet[d], Tail(wire))
    BY <1>0, <1>3, IrqDoes
  <2>2. AckFirst(r, owesSet[d], Tail(wire))
    BY <1>0, <2>1, ReadsAckFirst
  <2> QED
    BY <2>1, <2>2, BecomesAckFirst
<1>4. CASE Unheard(d)
  <2>1. /\ wire # <<>> /\ connected[d] = FALSE
        /\ Happens(d, k, connected[d], scanning[d], owesSet[d], Tail(wire))
    BY <1>0, <1>4, TailDoes DEF Unheard
  <2>2. Orderly(k, FALSE, scanning[d], owesSet[d], wire)
    BY <1>0, <2>1
  <2>3. ~owesSet[d] /\ RepliesOn(wire) = {}
    BY <1>0, <2>2, Unconnected
  <2>4. RepliesOn(Tail(wire)) = {}
    BY <1>0, <2>1, <2>3, TailReplies
  <2>5. AckFirst(k, owesSet[d], Tail(wire))
    BY <2>3, <2>4, NothingOwed
  <2> QED
    BY <2>1, <2>5, BecomesAckFirst
<1>5. CASE (\E c \in Byte : Execute(d, c)) \/ AskResend(d) \/ Reject(d)
  <2>1. TakesByte(k, Taken(k), owesSet[d], wire)
    BY <1>5, ByteDoes
  <2>2. PICK scan2, owes2 \in BOOLEAN :
           \/ ~owes2 /\ Happens(d, Taken(k), connected[d], scan2, owes2, wire)
           \/ \E v \in {RESEND, ACK, ECHOED} :
                 Happens(d, Taken(k), connected[d], scan2, owes2,
                         Append(wire, Reply(v)))
    BY <1>5, ByteDoes
  <2>3. CASE ~owes2 /\ Happens(d, Taken(k), connected[d], scan2, owes2, wire)
    BY <2>1, <2>3, NothingOwed, BecomesAckFirst DEF TakesByte
  <2>4. ASSUME NEW v \in {RESEND, ACK, ECHOED},
               Happens(d, Taken(k), connected[d], scan2, owes2,
                       Append(wire, Reply(v)))
        PROVE  AckFirstNext(d)
    <3> DEFINE e == Reply(v)
    <3>1. e \in WireByte /\ e.from = "reply" /\ e.val \notin ScancodeSet
      BY DEF Reply, WireByte, RESEND, ACK, ECHOED, ScancodeSet
    <3> HIDE DEF e
    <3>2. AckFirst(Taken(k), owesSet[d], wire)
      BY <2>1, NothingOwed DEF TakesByte
    <3>3. AckFirst(Taken(k), owes2, Append(wire, e))
      BY <1>0, <3>1, <3>2, AppendAckFirst
    <3> QED
      BY <2>4, <3>3, BecomesAckFirst DEF e
  <2> QED
    BY <2>2, <2>3, <2>4
<1>6. CASE TellSet(d)
  <2> DEFINE e == Reply(devSet[d])
  <2>1. /\ e \in WireByte /\ owesSet[d]
        /\ Happens(d, k, connected[d], scanning[d], FALSE, Append(wire, e))
    BY <1>0, <1>6, TellSetDoes
  <2> HIDE DEF e
  <2>2. AckFirst(k, FALSE, Append(wire, e))
    BY <1>0, <2>1, AppendAckFirst
  <2> QED
    BY <2>1, <2>2, BecomesAckFirst
<1>7. CASE Strike(d)
  <2>1. PICK b \in KeyByte :
           /\ Key(b) \in WireByte /\ Key(b).from # "reply"
           /\ Happens(d, k, connected[d], scanning[d], owesSet[d],
                      Append(wire, Key(b)))
    BY <1>0, <1>7, StrikeDoes
  <2>2. AckFirst(k, owesSet[d], Append(wire, Key(b)))
    BY <1>0, <2>1, AppendAckFirst
  <2> QED
    BY <2>1, <2>2, BecomesAckFirst
<1>8. ~LoseCommand(d) /\ ~LoseReply(d)
  BY DEF LoseCommand, LoseReply
<1> QED
  BY <1>1, <1>2, <1>3, <1>4, <1>5, <1>6, <1>7, <1>8 DEF Steps

LEMMA NextAcksFirst ==
    ASSUME ~Prompt, ~Lossy
    PROVE  IInv /\ AcksFirst /\ [Next]_vars => AcksFirst'
<1> SUFFICES ASSUME IInv, AcksFirst, [Next]_vars, NEW d \in Device
             PROVE  AckFirst(kbd'[d], owesSet'[d], toHost'[d])
  BY DEF AcksFirst
<1>1. CASE UNCHANGED vars
  BY <1>1 DEF vars, AcksFirst
<1>2. CASE Next
  <2>1. PICK e \in Device : Steps(e)
    BY <1>2 DEF Next, Steps
  <2>2. \A f \in Device \ {e} : Untouched(f)
    BY <2>1, StepDoes DEF IInv
  <2>3. CASE e = d
    BY <2>1, <2>3, StepAckFirst DEF AckFirstNext
  <2>4. CASE e # d
    BY <2>2, <2>4 DEF Untouched, Becomes, AcksFirst
  <2> QED
    BY <2>3, <2>4
<1> QED
  BY <1>1, <1>2

LEMMA InitAcksFirst == Init => AcksFirst
<1> SUFFICES ASSUME Init, NEW d \in Device
             PROVE  AckFirst(kbd[d], owesSet[d], toHost[d])
  BY DEF AcksFirst
<1>1. ~owesSet[d] /\ toHost[d] = <<>>
  BY DEF Init
<1> QED
  BY <1>1 DEF AckFirst, RepliesOn

LEMMA AcksFirstAlways == ~Prompt /\ ~Lossy => (Spec => []AcksFirst)
<1> SUFFICES ASSUME ~Prompt, ~Lossy PROVE Spec => []AcksFirst
  OBVIOUS
<1>1. IInv /\ AcksFirst /\ [Next]_vars => AcksFirst'
  BY NextAcksFirst
<1> QED
  BY <1>1, InitAcksFirst, Invariance, PTL DEF Spec

(* When nothing is lost, every answer of a keyboard that is not prompt is  *)
(* taken by the command it answers (ps2k.c:272-278): none is parsed as a   *)
(* scancode.                                                               *)
THEOREM AllAnswersClaimed ==
    ~Prompt /\ ~Lossy => (Spec => []RepliesReachCommand)
<1> SUFFICES ASSUME ~Prompt, ~Lossy PROVE Spec => []RepliesReachCommand
  OBVIOUS
<1>1. IInv /\ AcksFirst => RepliesReachCommand
  <2> SUFFICES ASSUME IInv, AcksFirst, NEW d \in Device, toHost[d] # <<>>,
                      Head(toHost[d]).from = "reply"
               PROVE  Claims(Selected(d), Head(toHost[d]).val)
    BY DEF RepliesReachCommand
  <2>1. /\ toHost[d] \in Seq(WireByte)
        /\ scanning[d] \in BOOLEAN /\ owesSet[d] \in BOOLEAN
        /\ Selected(d) \in KbdRecord
        /\ Orderly(Selected(d), TRUE, scanning[d], owesSet[d], toHost[d])
        /\ AckFirst(Selected(d), owesSet[d], toHost[d])
    BY DeviceState, DeviceTypes, SelectedAckFirst
  <2> QED
    BY <2>1, ReplyClaimed
<1> QED
  BY <1>1, AcksFirstAlways, Invariance, PTL

-----------------------------------------------------------------------------
(* The driver, the wire and the keyboard implement CommandPipe.            *)

\* HeadExecuted, and the abstract queue and register, of one device.
Done(k, wire) ==
    k.respLen = 1 \/ \E i \in RepliesOn(wire) : wire[i].val # RESEND

BacklogOf(k, wire)  == IF Done(k, wire) THEN Tail(k.queue) ELSE k.queue
ExecutedOf(k, wire) == IF Done(k, wire) THEN <<Head(k.queue)>> ELSE <<>>

Batches == {<<ECHO>>, Query, Append(Query, ECHO)}

\* What a step of CommandPipe does to one device, or nothing.
Moves(b, x, b2, x2) ==
    \/ b2 = b /\ x2 = x
    \/ x2 = x /\ \E cs \in Batches : b2 = b \o cs
    \/ b # <<>> /\ x = <<>> /\ x2 = <<Head(b)>> /\ b2 = Tail(b)
    \/ x # <<>> /\ x2 = <<>> /\ b2 = b

DeviceMoves(k, wire, k2, w2) ==
    Moves(BacklogOf(k, wire), ExecutedOf(k, wire),
          BacklogOf(k2, w2), ExecutedOf(k2, w2))

\* A step that changes neither the queue nor whether its head is executed.
LEMMA NothingMoves ==
    ASSUME NEW k, NEW wire, NEW k2, NEW w2,
           k2.queue = k.queue, Done(k2, w2) <=> Done(k, wire)
    PROVE  DeviceMoves(k, wire, k2, w2)
  BY DEF DeviceMoves, Moves, BacklogOf, ExecutedOf

\* Commands are executed only from a queue that is not empty.
LEMMA DoneQueue ==
    ASSUME NEW k \in KbdRecord, NEW conn, NEW scan, NEW owes, NEW wire,
           Orderly(k, conn, scan, owes, wire), Done(k, wire)
    PROVE  k.queue # <<>>
  BY DEF Done, Orderly, QueueShape, Outstanding

LEMMA ConnectQueues ==
    ASSUME NEW k \in KbdRecord
    PROVE  OnConnect(k).queue = Query
<1> DEFINE q == OnConnect(k).queue
<1>1. /\ Len(q) = 3 /\ q[1] = DISABLE /\ q[2] = GETSET /\ q[3] = ENABLE
      /\ q \in Seq(Command)
  BY OnConnectResult DEF KbdRecord
<1> HIDE DEF q
<1>2. Query \in Seq(Command) /\ Len(Query) = 3 /\ Query[1] = DISABLE
      /\ Query[2] = GETSET /\ Query[3] = ENABLE
  BY DEF Query, Command
<1>3. \A i \in 1..3 : q[i] = Query[i]
  BY <1>1, <1>2
<1>4. q = Query
  BY <1>1, <1>2, <1>3, SeqEqual
<1> QED
  BY <1>4 DEF q

\* A caller's command goes behind those that wait, if there is room.
LEMMA EchoMoves ==
    ASSUME NEW k \in KbdRecord, NEW scan, NEW owes, NEW wire,
           Orderly(k, TRUE, scan, owes, wire), ~(Len(k.queue) >= QueueSize)
    PROVE  LET o == QueueCommand(k, ECHO) IN
           /\ BacklogOf(o, wire) = Append(BacklogOf(k, wire), ECHO)
           /\ ExecutedOf(o, wire) = ExecutedOf(k, wire)
<1> DEFINE o == QueueCommand(k, ECHO)
<1>1. k.waiting <=> k.queue # <<>>
  BY DEF Orderly, QueueShape
<1>2. ECHO \in Command /\ k.queue \in Seq(Command)
  BY DEF Command, KbdRecord
<1>3. /\ o.queue = Append(k.queue, ECHO)
      /\ o.respLen = IF k.queue = <<>> THEN 0 ELSE k.respLen
  BY <1>1, <1>2, QueueCommandResult
<1> HIDE DEF o
<1>4. Done(o, wire) <=> Done(k, wire)
  <2>1. CASE k.queue = <<>>
    <3>1. ~Done(k, wire)
      BY <2>1, DoneQueue
    <3> QED
      BY <1>3, <2>1, <3>1 DEF Done
  <2>2. CASE k.queue # <<>>
    BY <1>3, <2>2 DEF Done
  <2> QED
    BY <2>1, <2>2
<1>5. k.queue # <<>> =>
         /\ Tail(o.queue) = Append(Tail(k.queue), ECHO)
         /\ Head(o.queue) = Head(k.queue)
  <2>1. /\ Head(o.queue) = IF k.queue = <<>> THEN ECHO ELSE Head(k.queue)
        /\ Tail(o.queue) = IF k.queue = <<>> THEN <<>> ELSE Append(Tail(k.queue), ECHO)
    BY <1>2, <1>3, HeadTailAppend
  <2> QED
    BY <2>1
<1>6. Done(k, wire) => k.queue # <<>>
  BY DoneQueue
<1>7. /\ BacklogOf(o, wire) = Append(BacklogOf(k, wire), ECHO)
      /\ ExecutedOf(o, wire) = ExecutedOf(k, wire)
  BY <1>3, <1>4, <1>5, <1>6 DEF BacklogOf, ExecutedOf
<1> QED
  BY <1>7 DEF o

\* The record a device without a driver gets has the query to execute.
LEMMA ConnectMoves ==
    ASSUME NEW k \in KbdRecord, NEW scan, NEW owes \in BOOLEAN, NEW wire,
           Orderly(k, FALSE, scan, owes, wire)
    PROVE  /\ BacklogOf(k, wire) = <<>> /\ ExecutedOf(k, wire) = <<>>
           /\ BacklogOf(OnConnect(k), wire) = Query
           /\ ExecutedOf(OnConnect(k), wire) = <<>>
<1>1. k.queue = <<>> /\ k.respLen = 0 /\ RepliesOn(wire) = {}
  BY Unconnected
<1>2. OnConnect(k).respLen = 0 /\ OnConnect(k).queue = Query
  BY OnConnectResult, ConnectQueues
<1> QED
  BY <1>1, <1>2 DEF BacklogOf, ExecutedOf, Done

\* The answer to the head command retires it, unless it asks for the command
\* again or is the first of a query's two.
LEMMA ReadMoves ==
    ASSUME NEW k \in KbdRecord, NEW scan \in BOOLEAN, NEW owes \in BOOLEAN,
           NEW wire \in Seq(WireByte), wire # <<>>,
           Orderly(k, TRUE, scan, owes, wire), AckFirst(k, owes, wire)
    PROVE  DeviceMoves(k, wire, Reads(k, Head(wire).val), Tail(wire))
<1> DEFINE rest == Tail(wire)
<1>0. /\ wire[1] = Head(wire) /\ 1 \in DOMAIN wire
      /\ RepliesOn(wire) \subseteq Nat \ {0}
      /\ \A i \in RepliesOn(rest) :
            i \in Nat \ {0} /\ i + 1 \in RepliesOn(wire) /\ rest[i] = wire[i + 1]
      /\ \A i \in RepliesOn(wire) \ {1} : i - 1 \in RepliesOn(rest)
  BY TailReplies
<1> HIDE DEF rest
<1>1. CASE ~Claims(k, Head(wire).val)
  <2>1. 1 \notin RepliesOn(wire)
    BY <1>0, <1>1, ReplyClaimed DEF RepliesOn
  <2>2. \A i \in RepliesOn(wire) :
           i - 1 \in RepliesOn(rest) /\ rest[i - 1] = wire[i]
    <3> SUFFICES ASSUME NEW i \in RepliesOn(wire)
                 PROVE  i - 1 \in RepliesOn(rest) /\ rest[i - 1] = wire[i]
      OBVIOUS
    <3>1. i - 1 \in RepliesOn(rest) /\ (i - 1) + 1 = i
      BY <1>0, <2>1
    <3>2. rest[i - 1] = wire[(i - 1) + 1]
      BY <1>0, <3>1
    <3> QED
      BY <3>1, <3>2
  <2>3. Done(k, rest) <=> Done(k, wire)
    BY <1>0, <2>2 DEF Done
  <2>4. Reads(k, Head(wire).val) = k
    BY <1>1 DEF Reads
  <2> QED
    BY <2>3, <2>4, NothingMoves DEF rest
<1>2. CASE Claims(k, Head(wire).val)
  <2> DEFINE r == HandleReceive(k, Head(wire).val)
  <2>1. Reads(k, Head(wire).val) = r /\ r = HandleReceive(k, Head(wire).val)
    BY <1>2 DEF Reads
  <2> HIDE DEF r
  <2>2. Outcome(k, owes, wire, r)
    BY <1>2, <2>1, ReadCases
  <2>3. CASE r.queue = k.queue /\ r.respLen = 1 /\ wire[1].val = ACK
    <3>1. Done(k, wire) /\ Done(r, rest)
      BY <2>2, <2>3 DEF Outcome, Done, ACK, RESEND
    <3> QED
      BY <2>1, <2>3, <3>1, NothingMoves DEF rest
  <2>4. CASE RepliesOn(wire) = {1} /\ r.respLen = 0
    <3>1. ~Done(r, rest)
      <4>1. RepliesOn(rest) = {}
        BY <1>0, <2>4
      <4> QED
        BY <2>4, <4>1 DEF Done
    <3>2. CASE r.queue = k.queue /\ k.respLen = 0 /\ wire[1].val = RESEND
      <4>1. ~Done(k, wire)
        BY <2>4, <3>2 DEF Done
      <4> QED
        BY <2>1, <3>1, <3>2, <4>1, NothingMoves DEF rest
    <3>3. CASE /\ r.queue = Tail(k.queue)
               /\ k.respLen = 1 \/ wire[1].val # RESEND
      <4>1. Done(k, wire)
        BY <2>4, <3>3 DEF Done
      <4>2. /\ BacklogOf(k, wire) = Tail(k.queue)
            /\ ExecutedOf(k, wire) = <<Head(k.queue)>>
            /\ BacklogOf(r, rest) = Tail(k.queue) /\ ExecutedOf(r, rest) = <<>>
        BY <3>1, <3>3, <4>1 DEF BacklogOf, ExecutedOf
      <4> QED
        BY <2>1, <4>2 DEF DeviceMoves, Moves, rest
    <3> QED
      BY <2>2, <2>4, <3>2, <3>3 DEF Outcome
  <2> QED
    BY <2>2, <2>3, <2>4 DEF Outcome
<1> QED
  BY <1>1, <1>2

\* The keyboard answers a byte: it obeys it or asks for it again.
LEMMA TakenMoves ==
    ASSUME NEW k \in KbdRecord, NEW k2, NEW owes, NEW wire \in Seq(WireByte),
           TakesByte(k, k2, owes, wire), NEW v \in {RESEND, ACK, ECHOED}
    PROVE  DeviceMoves(k, wire, k2, Append(wire, Reply(v)))
<1> DEFINE e == Reply(v)
           w2 == Append(wire, e)
<1>1. e \in WireByte /\ e.from = "reply" /\ e.val = v
  BY DEF Reply, WireByte, RESEND, ACK, ECHOED
<1> HIDE DEF e
<1>2. RepliesOn(w2) = {Len(wire) + 1} /\ w2[Len(wire) + 1] = e
  BY <1>1, MoreReplies DEF TakesByte
<1> HIDE DEF w2
<1>3. k2.queue = k.queue /\ k2.respLen = 0 /\ ~Done(k, wire) /\ k.queue # <<>>
  BY DEF TakesByte, Done
<1>4. CASE v = RESEND
  <2>1. ~Done(k2, w2)
    BY <1>1, <1>2, <1>3, <1>4 DEF Done
  <2> QED
    BY <1>3, <2>1, NothingMoves DEF w2, e
<1>5. CASE v # RESEND
  <2>1. Done(k2, w2)
    BY <1>1, <1>2, <1>3, <1>5 DEF Done
  <2>2. /\ BacklogOf(k, wire) = k.queue /\ ExecutedOf(k, wire) = <<>>
        /\ BacklogOf(k2, w2) = Tail(k.queue)
        /\ ExecutedOf(k2, w2) = <<Head(k.queue)>>
    BY <1>3, <2>1 DEF BacklogOf, ExecutedOf
  <2> QED
    BY <1>3, <2>2 DEF DeviceMoves, Moves, w2, e
<1> QED
  BY <1>4, <1>5

\* Every step of a device is a step of CommandPipe or leaves it alone.
LEMMA BecomesMoves ==
    ASSUME NEW d, NEW k2, NEW conn2, NEW scan2, NEW owes2, NEW w2,
           Happens(d, k2, conn2, scan2, owes2, w2),
           DeviceMoves(kbd[d], toHost[d], k2, w2)
    PROVE  DeviceMoves(kbd[d], toHost[d], kbd'[d], toHost'[d])
  BY DEF Happens, Becomes

LEMMA StepMoves ==
    ASSUME ~Prompt, ~Lossy, IInv, AcksFirst, NEW d \in Device, Steps(d)
    PROVE  DeviceMoves(kbd[d], toHost[d], kbd'[d], toHost'[d])
<1> DEFINE k == kbd[d]
           wire == toHost[d]
<1>0. /\ k \in KbdRecord /\ wire \in Seq(WireByte)
      /\ scanning[d] \in BOOLEAN /\ owesSet[d] \in BOOLEAN
      /\ devSet[d] \in ScancodeSet /\ connected[d] \in BOOLEAN
      /\ AckFirst(k, owesSet[d], wire)
      /\ Orderly(k, connected[d], scanning[d], owesSet[d], wire)
      /\ Selected(d) = IF connected[d] THEN k ELSE OnConnect(k)
      /\ Selected(d) \in KbdRecord
      /\ Orderly(Selected(d), TRUE, scanning[d], owesSet[d], wire)
      /\ TypeOK
  BY DeviceState, DeviceTypes DEF AcksFirst, Selected
<1> HIDE DEF k, wire
<1>K. kbd[d] = k /\ toHost[d] = wire
  BY DEF k, wire
<1>C. ~connected[d] =>
         /\ BacklogOf(k, wire) = <<>> /\ ExecutedOf(k, wire) = <<>>
         /\ BacklogOf(OnConnect(k), wire) = Query
         /\ ExecutedOf(OnConnect(k), wire) = <<>>
         /\ ~owesSet[d] /\ RepliesOn(wire) = {}
  <2> SUFFICES ASSUME ~connected[d]
               PROVE  /\ BacklogOf(k, wire) = <<>> /\ ExecutedOf(k, wire) = <<>>
                      /\ BacklogOf(OnConnect(k), wire) = Query
                      /\ ExecutedOf(OnConnect(k), wire) = <<>>
                      /\ ~owesSet[d] /\ RepliesOn(wire) = {}
    OBVIOUS
  <2>1. Orderly(k, FALSE, scanning[d], owesSet[d], wire)
    <3>1. connected[d] = FALSE
      BY <1>0
    <3> QED
      BY <1>0, <3>1
  <2> QED
    BY <1>0, <2>1, ConnectMoves, Unconnected
<1>Q. Query \in Batches /\ Append(Query, ECHO) \in Batches
      /\ <<ECHO>> \in Batches /\ Query \in Seq(Command)
      /\ Append(Query, ECHO) \in Seq(Command) /\ ECHO \in Command
  BY DEF Batches, Query, Command
<1>S. DeviceMoves(k, wire, Selected(d), wire)
  <2>1. CASE connected[d]
    BY <1>0, <2>1, NothingMoves
  <2>2. CASE ~connected[d]
    <3>1. <<>> \o Query = Query
      BY <1>Q, ConcatEmptySeq
    <3> QED
      BY <1>0, <1>C, <1>Q, <2>2, <3>1 DEF DeviceMoves, Moves
  <2> QED
    BY <2>1, <2>2
<1>1. CASE SendEcho(d)
  <2> DEFINE s == Selected(d)
             o == QueueCommand(s, ECHO)
  <2>1. Happens(d, o, TRUE, scanning[d], owesSet[d], wire)
    BY <1>0, <1>1, <1>K, SendEchoDoes
  <2> HIDE DEF o
  <2>2. CASE Len(s.queue) >= QueueSize
    <3>1. o.queue = s.queue /\ o.respLen = s.respLen
      BY <1>0, <1>Q, <2>2, QueueOverrun, SetOverrun DEF o
    <3>2. Done(o, wire) <=> Done(s, wire)
      BY <3>1 DEF Done
    <3>3. /\ BacklogOf(o, wire) = BacklogOf(s, wire)
          /\ ExecutedOf(o, wire) = ExecutedOf(s, wire)
      BY <3>1, <3>2 DEF BacklogOf, ExecutedOf
    <3> QED
      BY <1>K, <1>S, <2>1, <3>3, BecomesMoves DEF DeviceMoves
  <2>3. CASE ~(Len(s.queue) >= QueueSize)
    <3>1. /\ BacklogOf(o, wire) = Append(BacklogOf(s, wire), ECHO)
          /\ ExecutedOf(o, wire) = ExecutedOf(s, wire)
      BY <1>0, <2>3, EchoMoves DEF o
    <3>2. CASE connected[d]
      <4>1. BacklogOf(k, wire) \in Seq(Command)
        BY <1>0, DoneQueue, TailSeq DEF BacklogOf, KbdRecord
      <4>2. Append(BacklogOf(k, wire), ECHO) = BacklogOf(k, wire) \o <<ECHO>>
        BY <1>Q, <4>1, AppendIsConcat
      <4>3. s = k
        BY <1>0, <3>2
      <4>4. /\ BacklogOf(o, wire) = BacklogOf(k, wire) \o <<ECHO>>
            /\ ExecutedOf(o, wire) = ExecutedOf(k, wire)
        BY <3>1, <4>2, <4>3
      <4> QED
        BY <1>K, <1>Q, <2>1, <4>4, BecomesMoves DEF DeviceMoves, Moves
    <3>3. CASE ~connected[d]
      <4>1. <<>> \o Append(Query, ECHO) = Append(Query, ECHO)
        BY <1>Q, ConcatEmptySeq
      <4>2. s = OnConnect(k)
        BY <1>0, <3>3
      <4>3. /\ BacklogOf(o, wire) = BacklogOf(k, wire) \o Append(Query, ECHO)
            /\ ExecutedOf(o, wire) = ExecutedOf(k, wire)
        BY <1>C, <3>1, <3>3, <4>1, <4>2
      <4> QED
        BY <1>K, <1>Q, <2>1, <4>3, BecomesMoves DEF DeviceMoves, Moves
    <3> QED
      BY <3>2, <3>3
  <2> QED
    BY <2>2, <2>3
<1>2. CASE SkipEcho(d)
  BY <1>0, <1>2, <1>K, <1>S, SkipEchoDoes, BecomesMoves
<1>3. CASE Irq(d)
  <2> DEFINE r == Reads(Selected(d), Head(wire).val)
  <2>1. /\ wire # <<>> /\ kbd'[d] = r /\ toHost'[d] = Tail(wire)
    BY <1>0, <1>3, <1>K, IrqDoes DEF Happens, Becomes
  <2>2. CASE connected[d]
    <3>1. Selected(d) = k /\ Orderly(k, TRUE, scanning[d], owesSet[d], wire)
      BY <1>0, <2>2
    <3>2. DeviceMoves(k, wire, Reads(k, Head(wire).val), Tail(wire))
      BY <1>0, <2>1, <3>1, ReadMoves
    <3> QED
      BY <1>K, <2>1, <3>1, <3>2
  <2>3. CASE ~connected[d]
    <3>1. AckFirst(OnConnect(k), owesSet[d], wire) /\ Selected(d) = OnConnect(k)
          /\ 1 \in DOMAIN wire /\ wire[1] = Head(wire) /\ wire[1] \in WireByte
      BY <1>0, <1>C, <2>1, <2>3, NothingOwed, TailReplies, TailSeq
    <3>2. Head(wire).from = "key"
      BY <1>C, <2>3, <3>1 DEF RepliesOn, WireByte
    <3>3. ~Claims(Selected(d), Head(wire).val)
      <4>1. /\ KeysAreKeys(wire)
            /\ Selected(d).queue # <<>> /\ Selected(d).queue[1] = GETSET =>
                  RepliesOn(wire) = DOMAIN wire
        BY <1>0 DEF Orderly, Silent
      <4> QED
        BY <1>0, <2>1, <3>2, <4>1, KeyNotClaimed
    <3>4. r = OnConnect(k)
      BY <3>1, <3>3 DEF Reads
    <3>5. RepliesOn(Tail(wire)) = {}
      BY <1>0, <1>C, <2>1, <2>3, TailReplies
    <3>6. Done(OnConnect(k), Tail(wire)) <=> Done(OnConnect(k), wire)
      BY <1>C, <2>3, <3>5 DEF Done
    <3>7. /\ BacklogOf(r, Tail(wire)) = BacklogOf(OnConnect(k), wire)
          /\ ExecutedOf(r, Tail(wire)) = ExecutedOf(OnConnect(k), wire)
      BY <3>4, <3>6 DEF BacklogOf, ExecutedOf
    <3> QED
      BY <1>K, <1>S, <2>1, <3>1, <3>7 DEF DeviceMoves
  <2> QED
    BY <2>2, <2>3
<1>4. CASE Unheard(d)
  <2>1. /\ ~connected[d] /\ wire # <<>> /\ kbd'[d] = k /\ toHost'[d] = Tail(wire)
    BY <1>0, <1>4, <1>K, TailDoes DEF Happens, Becomes, Unheard
  <2>2. RepliesOn(Tail(wire)) = {}
    BY <1>0, <1>C, <2>1, TailReplies
  <2>3. Done(k, Tail(wire)) <=> Done(k, wire)
    BY <1>C, <2>1, <2>2 DEF Done
  <2> QED
    BY <1>K, <2>1, <2>3, NothingMoves
<1>5. CASE (\E c \in Byte : Execute(d, c)) \/ AskResend(d) \/ Reject(d)
  <2>1. TakesByte(k, Taken(k), owesSet[d], wire)
    BY <1>5, <1>K, ByteDoes
  <2>2. PICK scan2, owes2 \in BOOLEAN :
           \/ ~owes2 /\ Happens(d, Taken(k), connected[d], scan2, owes2, wire)
           \/ \E v \in {RESEND, ACK, ECHOED} :
                 Happens(d, Taken(k), connected[d], scan2, owes2,
                         Append(wire, Reply(v)))
    BY <1>5, <1>K, ByteDoes
  <2>3. CASE Happens(d, Taken(k), connected[d], scan2, owes2, wire)
    <3>1. Taken(k).queue = k.queue /\ (Done(Taken(k), wire) <=> Done(k, wire))
      BY <2>1 DEF TakesByte, Done
    <3> QED
      BY <1>K, <2>3, <3>1, NothingMoves, BecomesMoves
  <2>4. ASSUME NEW v \in {RESEND, ACK, ECHOED},
               Happens(d, Taken(k), connected[d], scan2, owes2,
                       Append(wire, Reply(v)))
        PROVE  DeviceMoves(kbd[d], toHost[d], kbd'[d], toHost'[d])
    <3>1. DeviceMoves(k, wire, Taken(k), Append(wire, Reply(v)))
      BY <1>0, <2>1, TakenMoves
    <3> QED
      BY <1>K, <2>4, <3>1, BecomesMoves
  <2> QED
    BY <2>2, <2>3, <2>4
<1>6. CASE TellSet(d)
  <2> DEFINE e == Reply(devSet[d])
  <2>1. /\ owesSet[d] /\ kbd'[d] = k /\ toHost'[d] = Append(wire, e)
    BY <1>0, <1>6, <1>K, TellSetDoes DEF Happens, Becomes
  <2>2. e \in WireByte
    BY <1>0 DEF Reply, WireByte, ScancodeSet
  <2> HIDE DEF e
  <2>3. Done(k, wire)
    BY <1>0, <2>1 DEF AckFirst, Orderly, Outstanding, Done, ACK, RESEND
  <2>4. Done(k, Append(wire, e))
    <3>1. CASE k.respLen = 1
      BY <3>1 DEF Done
    <3>2. CASE k.respLen # 1
      <4>1. PICK i \in RepliesOn(wire) : wire[i].val # RESEND
        BY <2>3, <3>2 DEF Done
      <4>2. i \in RepliesOn(Append(wire, e)) /\ Append(wire, e)[i] = wire[i]
        BY <1>0, <2>2, <4>1, MoreReplies
      <4> QED
        BY <4>1, <4>2 DEF Done
    <3> QED
      BY <3>1, <3>2
  <2> QED
    BY <1>K, <2>1, <2>3, <2>4, NothingMoves
<1>7. CASE Strike(d)
  <2>1. PICK b \in KeyByte : /\ kbd'[d] = k
                             /\ toHost'[d] = Append(wire, Key(b))
    BY <1>0, <1>7, <1>K, StrikeDoes DEF Happens, Becomes
  <2> DEFINE e == Key(b)
  <2>2. e \in WireByte /\ e.from # "reply"
    BY KeyByteAssumption DEF Key, WireByte
  <2>3. toHost'[d] = Append(wire, e)
    BY <2>1
  <2> HIDE DEF e
  <2>4. /\ RepliesOn(Append(wire, e)) = RepliesOn(wire)
        /\ \A i \in RepliesOn(wire) : Append(wire, e)[i] = wire[i]
    BY <1>0, <2>2, MoreReplies
  <2>5. Done(k, Append(wire, e)) <=> Done(k, wire)
    BY <2>4 DEF Done
  <2> QED
    BY <1>K, <2>1, <2>3, <2>5, NothingMoves
<1>8. ~LoseCommand(d) /\ ~LoseReply(d)
  BY DEF LoseCommand, LoseReply
<1> QED
  BY <1>1, <1>2, <1>3, <1>4, <1>5, <1>6, <1>7, <1>8, <1>K DEF Steps

\* The abstract variables, device by device.
AbsBacklog  == [d \in Device |-> BacklogOf(kbd[d], toHost[d])]
AbsExecuted == [d \in Device |-> ExecutedOf(kbd[d], toHost[d])]

\* One device that moves while the others stay is a step of CommandPipe.
LEMMA MoveIsStep ==
    ASSUME NEW d \in Device,
           DeviceMoves(kbd[d], toHost[d], kbd'[d], toHost'[d]),
           \A e \in Device \ {d} : kbd'[e] = kbd[e] /\ toHost'[e] = toHost[e]
    PROVE  [Pipe!Next]_(Pipe!vars)
<1> DEFINE b == AbsBacklog
           x == AbsExecuted
<1>1. /\ b' = [b EXCEPT ![d] = b'[d]] /\ x' = [x EXCEPT ![d] = x'[d]]
      /\ Moves(b[d], x[d], b'[d], x'[d])
      /\ b'[d] = b[d] => b' = b
      /\ x'[d] = x[d] => x' = x
  <2>1. \A e \in Device \ {d} : b'[e] = b[e] /\ x'[e] = x[e]
    BY DEF AbsBacklog, AbsExecuted
  <2>2. Moves(b[d], x[d], b'[d], x'[d])
    BY DEF DeviceMoves, AbsBacklog, AbsExecuted
  <2>3. /\ b = [e \in Device |-> b[e]] /\ b' = [e \in Device |-> b'[e]]
        /\ x = [e \in Device |-> x[e]] /\ x' = [e \in Device |-> x'[e]]
    BY DEF AbsBacklog, AbsExecuted
  <2> HIDE DEF b, x
  <2> QED
    BY <2>1, <2>2, <2>3
<1>2. ASSUME NEW e \in Device
      PROVE  HeadExecuted(e) <=> Done(kbd[e], toHost[e])
  BY DEF HeadExecuted, Done, Replies
<1>3. ASSUME NEW e \in Device
      PROVE  HeadExecuted(e)' <=> Done(kbd[e], toHost[e])'
  BY DEF HeadExecuted, Done, Replies
<1>4. /\ b = [e \in Device |-> IF HeadExecuted(e) THEN Tail(kbd[e].queue)
                               ELSE kbd[e].queue]
      /\ x = [e \in Device |-> IF HeadExecuted(e) THEN <<Head(kbd[e].queue)>>
                               ELSE <<>>]
  BY <1>2 DEF AbsBacklog, AbsExecuted, BacklogOf, ExecutedOf
<1>5. /\ b' = [e \in Device |-> IF HeadExecuted(e) THEN Tail(kbd[e].queue)
                                ELSE kbd[e].queue]'
      /\ x' = [e \in Device |-> IF HeadExecuted(e) THEN <<Head(kbd[e].queue)>>
                                ELSE <<>>]'
  BY <1>3 DEF AbsBacklog, AbsExecuted, BacklogOf, ExecutedOf
<1>6. CASE b'[d] = b[d] /\ x'[d] = x[d]
  <2>1. b' = b /\ x' = x
    BY <1>1, <1>6
  <2>2. UNCHANGED Pipe!vars
    BY <1>4, <1>5, <2>1 DEF Pipe!vars
  <2> QED
    BY <2>2
<1>7. ASSUME NEW cs \in Batches, b'[d] = b[d] \o cs, x'[d] = x[d]
      PROVE  Pipe!Submit(d, cs)
  <2>1. b' = [b EXCEPT ![d] = b[d] \o cs] /\ x' = x
    BY <1>1, <1>7
  <2> HIDE DEF b, x
  <2> QED
    BY <1>4, <1>5, <2>1 DEF Pipe!Submit
<1>8. CASE /\ b[d] # <<>> /\ x[d] = <<>> /\ x'[d] = <<Head(b[d])>>
           /\ b'[d] = Tail(b[d])
  <2>1. /\ b[d] # <<>> /\ x[d] = <<>>
        /\ x' = [x EXCEPT ![d] = <<Head(b[d])>>]
        /\ b' = [b EXCEPT ![d] = Tail(b[d])]
    BY <1>1, <1>8
  <2> HIDE DEF b, x
  <2>2. Pipe!Execute(d)
    BY <1>4, <1>5, <2>1 DEF Pipe!Execute
  <2> QED
    BY <2>2 DEF Pipe!Next
<1>9. CASE x[d] # <<>> /\ x'[d] = <<>> /\ b'[d] = b[d]
  <2>1. x[d] # <<>> /\ x' = [x EXCEPT ![d] = <<>>] /\ b' = b
    BY <1>1, <1>9
  <2> HIDE DEF b, x
  <2>2. Pipe!Retire(d)
    BY <1>4, <1>5, <2>1 DEF Pipe!Retire
  <2> QED
    BY <2>2 DEF Pipe!Next
<1>10. CASE \E cs \in Batches : b'[d] = b[d] \o cs /\ x'[d] = x[d]
  BY <1>7, <1>10 DEF Pipe!Next, Batches
<1> QED
  BY <1>1, <1>6, <1>8, <1>9, <1>10 DEF Moves

LEMMA NextIsPipeStep ==
    ASSUME ~Prompt, ~Lossy
    PROVE  IInv /\ AcksFirst /\ [Next]_vars => [Pipe!Next]_(Pipe!vars)
<1> SUFFICES ASSUME IInv, AcksFirst, [Next]_vars
             PROVE  [Pipe!Next]_(Pipe!vars)
  OBVIOUS
<1>1. CASE UNCHANGED vars
  BY <1>1 DEF vars, Pipe!vars, HeadExecuted, Replies
<1>2. CASE Next
  <2>1. PICK d \in Device : Steps(d)
    BY <1>2 DEF Next, Steps
  <2>2. DeviceMoves(kbd[d], toHost[d], kbd'[d], toHost'[d])
    BY <2>1, StepMoves
  <2>3. \A e \in Device \ {d} : kbd'[e] = kbd[e] /\ toHost'[e] = toHost[e]
    BY <2>1, StepDoes DEF IInv, Untouched, Becomes
  <2> QED
    BY <2>2, <2>3, MoveIsStep
<1> QED
  BY <1>1, <1>2

LEMMA InitIsPipeInit == Init => Pipe!Init
<1> SUFFICES ASSUME Init PROVE Pipe!Init
  OBVIOUS
<1>1. ASSUME NEW d \in Device
      PROVE  ~HeadExecuted(d) /\ kbd[d].queue = <<>>
  BY DEF Init, HeadExecuted, Replies, RepliesOn
<1> QED
  BY <1>1 DEF Pipe!Init

(* When nothing is lost, driver, wire and a keyboard that is not prompt     *)
(* implement CommandPipe: commands are executed one at a time, each once    *)
(* and in the order they were queued, and none before the answer to the one *)
(* before it has been read (ps2k.c:267-280, 316-359), as long as the queue  *)
(* is not overrun, where the model ends.                                    *)
THEOREM ImplementsPipe == ~Prompt /\ ~Lossy => (Spec => Pipe!Spec)
<1> SUFFICES ASSUME ~Prompt, ~Lossy PROVE Spec => Pipe!Spec
  OBVIOUS
<1>1. IInv /\ AcksFirst /\ [Next]_vars => [Pipe!Next]_(Pipe!vars)
  BY NextIsPipeStep
<1> QED
  BY <1>1, InitIsPipeInit, AcksFirstAlways, Invariance, PTL
     DEF Spec, Pipe!Spec
=============================================================================
