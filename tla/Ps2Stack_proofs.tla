-------------------------- MODULE Ps2Stack_proofs --------------------------
(***************************************************************************)
(* The keyboard driver under the device manager, for every value of the    *)
(* constants: the command queue grows only with the callbacks that the     *)
(* keyboard lets pass, no keyboard that has answered is complained of, and *)
(* ps2.c calls the driver as Ps2Keyboard expects, so that the theorems     *)
(* about Ps2Keyboard hold of it there, and those about Ps2Devices with it. *)
(* The argument is StackInv, which says how far the one installation has   *)
(* come.  Interrupts may search for a driver before, in and after it, and  *)
(* the call through the empty entry is one of the steps.                   *)
(***************************************************************************)
EXTENDS Ps2Stack, Integers, SequenceTheorems, TLAPS

TheDriver == [long |-> FALSE, id |-> <<171, 0>>]

-----------------------------------------------------------------------------
(* The inductive invariant.                                                *)

DeviceRecord ==
    [working : BOOLEAN, notFound : BOOLEAN, arrived : BOOLEAN,
     echoed : BOOLEAN, driver : 0..1, connected : -1..1]

\* A record of the driver, with a command queue.
Fields == {"queue", "overrun", "waiting", "respLen", "scancodeSet",
           "waitingSet", "port"}
Queued(k) == DOMAIN k = Fields /\ k.queue \in Seq(Kbd!Command)

Typed ==
    /\ DOMAIN dev = {0, 1} /\ dev[0] \in DeviceRecord
    /\ DOMAIN flags = {"working", "notFound", "arrived", "echoed"}
    /\ DOMAIN kbd = {0} /\ Queued(kbd[0])
    /\ behind \in Nat /\ next \in {"send", "check"}
    /\ served \in BOOLEAN /\ declared \in BOOLEAN

\* The keyboard works and is one.
Works == dev[0].working /\ ident[0] \in Keyboards

\* Where main is: before the installation; at the increments of the drivers
\* and of the amount; behind them, the keyboard's flag cleared or not.
Before == pc = <<"start", 0>> /\ todo = <<TheDriver>> /\ table = <<>> /\ amount = 0

Written == todo = <<>> /\ table = <<TheDriver>>

Raising ==
    /\ Written /\ amount = 0
    /\ pc \in {<<"compare", 0>>, <<"load", 0>>, <<"store", 0>>,
               <<"compare", 1>>, <<"load", 1>>, <<"store", 1>>, <<"count", 0>>}

Clearing == Written /\ amount = 1 /\ pc \in {<<"fetch", 0>>, <<"clear", 0>>}

Installed ==
    /\ Written /\ amount = 1
    /\ pc \in {<<"fetch", 1>>, <<"clear", 1>>, <<"start", 0>>}

\* No driver has been connected to device record r yet.
Unserved(r) == r.connected = -1 /\ ~served

\* As long as the amount is 0, no byte arrives without a vain search; then
\* the next search connects the driver, or finds the flag of a vain one.
Phase(r) ==
    \/ /\ Before /\ Unserved(r) /\ r.driver = 0
       /\ r.arrived => r.notFound
    \/ /\ Raising /\ Unserved(r)
       /\ r.driver = IF pc \in {<<"compare", 0>>, <<"load", 0>>, <<"store", 0>>}
                     THEN 0 ELSE 1
       /\ pc = <<"store", 0>> => reg = 0
       /\ r.arrived => r.notFound
    \/ /\ Clearing /\ ~served
       /\ \/ r.driver = 1 /\ r.connected = -1
          \/ r.driver = 0 /\ r.connected = 0 /\ ~r.notFound
       /\ pc = <<"clear", 0>> =>
             /\ flags.working = TRUE
             /\ flags.echoed \in BOOLEAN /\ flags.arrived \in BOOLEAN
    \/ /\ Installed /\ ~r.notFound
       /\ served => pc = <<"start", 0>>
       /\ \/ r.driver = 1 /\ Unserved(r)
          \/ r.driver = 0 /\ r.connected = 0

\* The queue is empty until the driver is connected, a callback that lets a
\* command wait makes room for half a command, and 16 of them are too few.
Backlog(r, k) ==
    /\ r.connected = -1 => k.queue = <<>>
    /\ k.queue = <<>> => behind = 0
    /\ 2 * Len(k.queue) <= (IF next = "send" THEN 6 ELSE 7) + behind
    /\ k.overrun => behind > 26

\* The last request to echo has been queued or was not needed.
Requested(r, k) ==
    next = "check" /\ served /\ ~k.overrun =>
       r.echoed \/ \E i \in DOMAIN k.queue : k.queue[i] = Kbd!ECHO

StackInv ==
    /\ Typed /\ Works
    /\ wild \/ Phase(dev[0])
    /\ Backlog(dev[0], kbd[0])
    /\ Requested(dev[0], kbd[0])

\* ... in a state that the model goes on from.
Goes == StackInv /\ Running

-----------------------------------------------------------------------------
(* What the driver's operators do to the queue.                            *)

LEMMA SendQueue ==
    ASSUME NEW k, Queued(k)
    PROVE  /\ Queued(Kbd!Send(k)) /\ Kbd!Send(k).queue = k.queue
           /\ Kbd!Send(k).overrun = k.overrun
  BY DEF Queued, Fields, Kbd!Send

LEMMA SendCommandQueue ==
    ASSUME NEW k, Queued(k)
    PROVE  /\ Queued(Kbd!SendCommand(k)) /\ Kbd!SendCommand(k).queue = k.queue
           /\ Kbd!SendCommand(k).overrun = k.overrun
<1> DEFINE j == [k EXCEPT !.respLen = 0]
<1>1. Queued(j) /\ j.queue = k.queue /\ j.overrun = k.overrun
  BY DEF Queued, Fields
<1>2. /\ Queued(Kbd!Send(j)) /\ Kbd!Send(j).queue = k.queue
      /\ Kbd!Send(j).overrun = k.overrun
  BY <1>1, SendQueue
<1>3. Kbd!SendCommand(k) \in {k, Kbd!Send(j)}
  BY Zenon DEF Kbd!SendCommand
<1> QED
  BY <1>2, <1>3

LEMMA QueueCommandQueue ==
    ASSUME NEW k, Queued(k), NEW c \in Kbd!Command
    PROVE  LET n == Kbd!QueueCommand(k, c)
           IN  /\ Queued(n)
               /\ Len(k.queue) >= 16 => n.queue = k.queue /\ n.overrun = TRUE
               /\ Len(k.queue) < 16 =>
                     n.queue = Append(k.queue, c) /\ n.overrun = k.overrun
<1> DEFINE j == [k EXCEPT !.queue = Append(@, c)]
           o == [k EXCEPT !.overrun = TRUE]
<1>1. Queued(j) /\ j.queue = Append(k.queue, c) /\ j.overrun = k.overrun
  BY DEF Queued, Fields
<1>2. /\ Queued(Kbd!SendCommand(j)) /\ Kbd!SendCommand(j).queue = j.queue
      /\ Kbd!SendCommand(j).overrun = j.overrun
  BY <1>1, SendCommandQueue
<1>3. Queued(o) /\ o.queue = k.queue /\ o.overrun = TRUE
  BY DEF Queued, Fields
<1>4. Len(k.queue) \in Nat
  BY DEF Queued
<1>5. Len(k.queue) >= 16 => Kbd!QueueCommand(k, c) = o
  BY Zenon DEF Kbd!QueueCommand
<1>6. ~(Len(k.queue) >= 16) =>
         Kbd!QueueCommand(k, c) \in {j, Kbd!SendCommand(j)}
  BY Zenon DEF Kbd!QueueCommand
<1> HIDE DEF j, o
<1> QED
  BY <1>1, <1>2, <1>3, <1>4, <1>5, <1>6

LEMMA OneMore ==
    ASSUME NEW k, Queued(k), NEW c \in Kbd!Command, Len(k.queue) < 16
    PROVE  LET n == Kbd!QueueCommand(k, c)
           IN  /\ Queued(n) /\ n.overrun = k.overrun /\ n.queue # <<>>
               /\ Len(n.queue) = Len(k.queue) + 1
<1> DEFINE n == Kbd!QueueCommand(k, c)
<1>1. Queued(n) /\ n.queue = Append(k.queue, c) /\ n.overrun = k.overrun
  BY QueueCommandQueue
<1>2. k.queue \in Seq(Kbd!Command)
  BY DEF Queued
<1>3. Append(k.queue, c) # <<>> /\ Len(Append(k.queue, c)) = Len(k.queue) + 1
  BY <1>2, AppendProperties
<1> HIDE DEF n
<1> QED
  BY <1>1, <1>3 DEF n

LEMMA PopQueue ==
    ASSUME NEW k, Queued(k), k.queue # <<>>
    PROVE  /\ Queued(Kbd!Pop(k)) /\ Kbd!Pop(k).queue = Tail(k.queue)
           /\ Kbd!Pop(k).overrun = k.overrun
<1> DEFINE j == [k EXCEPT !.queue = Tail(@), !.waiting = FALSE, !.respLen = 0]
<1>1. Queued(j) /\ j.queue = Tail(k.queue) /\ j.overrun = k.overrun
  BY DEF Queued, Fields
<1>2. /\ Queued(Kbd!SendCommand(j)) /\ Kbd!SendCommand(j).queue = j.queue
      /\ Kbd!SendCommand(j).overrun = j.overrun
  BY <1>1, SendCommandQueue
<1>3. Kbd!Pop(k) = Kbd!SendCommand(j)
  BY Zenon DEF Kbd!Pop
<1> QED
  BY <1>1, <1>2, <1>3

LEMMA OnConnectQueue ==
    ASSUME NEW k, Queued(k)
    PROVE  /\ Queued(Kbd!OnConnect(k))
           /\ Kbd!OnConnect(k).queue # <<>> /\ Len(Kbd!OnConnect(k).queue) = 3
           /\ Kbd!OnConnect(k).overrun = k.overrun
<1> DEFINE j == [k EXCEPT !.queue = <<>>, !.waiting = FALSE, !.waitingSet = TRUE]
           a == Kbd!QueueCommand(j, Kbd!DISABLE)
           b == Kbd!QueueCommand(a, Kbd!GETSET)
           c == Kbd!QueueCommand(b, Kbd!ENABLE)
<1>0. /\ Kbd!DISABLE \in Kbd!Command /\ Kbd!GETSET \in Kbd!Command
      /\ Kbd!ENABLE \in Kbd!Command
  BY DEF Kbd!Command
<1>1. Queued(j) /\ Len(j.queue) = 0 /\ j.overrun = k.overrun
  BY DEF Queued, Fields
<1>5. Kbd!OnConnect(k) = c
  BY Zenon DEF Kbd!OnConnect, Kbd!QueueGetScancodeSet
<1>2. /\ Queued(a) /\ Len(a.queue) = 1
      /\ a.overrun = k.overrun
  <2> HIDE DEF j
  <2>1. Len(j.queue) < 16
    BY <1>1
  <2>2. /\ Queued(a) /\ a.overrun = j.overrun /\ a.queue # <<>>
        /\ Len(a.queue) = Len(j.queue) + 1
    BY <1>0, <1>1, <2>1, OneMore, Zenon
  <2> HIDE DEF a
  <2> QED
    BY <1>1, <2>2
<1>3. /\ Queued(b) /\ Len(b.queue) = 2
      /\ b.overrun = k.overrun
  <2> HIDE DEF a
  <2>1. Len(a.queue) < 16
    BY <1>2
  <2>2. /\ Queued(b) /\ b.overrun = a.overrun /\ b.queue # <<>>
        /\ Len(b.queue) = Len(a.queue) + 1
    BY <1>0, <1>2, <2>1, OneMore, Zenon
  <2> HIDE DEF b
  <2> QED
    BY <1>2, <2>2
<1>4. /\ Queued(c) /\ Len(c.queue) = 3
      /\ c.overrun = k.overrun /\ c.queue # <<>>
  <2> HIDE DEF b
  <2>1. Len(b.queue) < 16
    BY <1>3
  <2>2. /\ Queued(c) /\ c.overrun = b.overrun /\ c.queue # <<>>
        /\ Len(c.queue) = Len(b.queue) + 1
    BY <1>0, <1>3, <2>1, OneMore, Zenon
  <2> HIDE DEF c
  <2> QED
    BY <1>3, <2>2
<1> HIDE DEF j, a, b, c
<1> QED
  BY <1>4, <1>5

\* A byte that the head command claims leaves the queue as it is or takes
\* the head off, and of an echo only by the byte that answers it.
LEMMA ReceiveQueue ==
    ASSUME NEW k, Queued(k), NEW b, Kbd!Claims(k, b)
    PROVE  LET h == Kbd!HandleReceive(k, b)
           IN  /\ Queued(h) /\ h.overrun = k.overrun
               /\ \/ h.queue = k.queue
                  \/ /\ k.queue # <<>> /\ h.queue = Tail(k.queue)
                     /\ Head(k.queue) = Kbd!ECHO => b = Kbd!ECHOED
<1> DEFINE s == [k EXCEPT !.scancodeSet = (b - 1) % 256, !.waitingSet = FALSE]
           a == [k EXCEPT !.respLen = @ + 1]
<1>0. k.queue # <<>>
  BY DEF Kbd!Claims
<1>1. Queued(s) /\ s.queue = k.queue /\ s.overrun = k.overrun
  BY DEF Queued, Fields
<1>2. Queued(a) /\ a.queue = k.queue /\ a.overrun = k.overrun
  BY DEF Queued, Fields
<1>3. /\ Queued(Kbd!Pop(s)) /\ Kbd!Pop(s).queue = Tail(k.queue)
      /\ Kbd!Pop(s).overrun = k.overrun
  BY <1>0, <1>1, PopQueue
<1>4. /\ Queued(Kbd!Pop(k)) /\ Kbd!Pop(k).queue = Tail(k.queue)
      /\ Kbd!Pop(k).overrun = k.overrun
  BY <1>0, PopQueue
<1>5. /\ Queued(Kbd!Send(k)) /\ Kbd!Send(k).queue = k.queue
      /\ Kbd!Send(k).overrun = k.overrun
  BY SendQueue
<1>6. CASE Kbd!AwaitsSet(k)
  <2>1. Kbd!HandleReceive(k, b) = Kbd!Pop(s)
    BY <1>6, Zenon DEF Kbd!HandleReceive
  <2>2. Head(k.queue) # Kbd!ECHO
    BY <1>6 DEF Kbd!AwaitsSet, Kbd!GETSET, Kbd!ECHO
  <2> HIDE DEF s
  <2> QED
    BY <1>0, <1>3, <2>1, <2>2
<1>7. CASE ~Kbd!AwaitsSet(k)
  <2>1. CASE b = Kbd!RESEND
    BY <1>0, <1>5, <1>7, <2>1 DEF Kbd!HandleReceive, Kbd!ACK, Kbd!RESEND
  <2>2. CASE b = Kbd!ACK /\ Head(k.queue) = Kbd!GETSET
    <3>1. Kbd!HandleReceive(k, b) = a
      BY <1>7, <2>2 DEF Kbd!HandleReceive, Kbd!ACK, Kbd!RESEND
    <3> HIDE DEF a
    <3> QED
      BY <1>2, <3>1
  <2>3. CASE b # Kbd!RESEND /\ ~(b = Kbd!ACK /\ Head(k.queue) = Kbd!GETSET)
    <3>1. Kbd!HandleReceive(k, b) = Kbd!Pop(k)
      BY <1>7, <2>3 DEF Kbd!HandleReceive
    <3>2. Head(k.queue) = Kbd!ECHO => b = Kbd!ECHOED
      BY <1>7, <2>3 DEF Kbd!Claims, Kbd!FinalReply
    <3> QED
      BY <1>0, <1>4, <3>1, <3>2
  <2> QED
    BY <2>1, <2>2, <2>3
<1> QED
  BY <1>6, <1>7

-----------------------------------------------------------------------------
(* The search for a driver.                                                *)

\* The record after ps2_device_find_driver of a keyboard that works.
Found == Devs!FindDriver(0, TRUE)

\* It has been connected, the flag says that there is no driver, or its driver
\* is the entry that the amount does not count yet.
Outcome(r) ==
    /\ r \in DeviceRecord
    /\ r.working
    /\ r.arrived = dev[0].arrived /\ r.echoed = dev[0].echoed
    /\ \/ /\ Written /\ amount = 1
          /\ ~r.notFound /\ r.driver = 0 /\ r.connected = 0
       \/ /\ ~served /\ r.driver = dev[0].driver
          /\ r.connected = -1 /\ dev[0].connected = -1
          /\ amount = 0 \/ dev[0].notFound
          /\ \/ r.notFound
             \/ /\ ~r.notFound /\ ~r.arrived
                /\ r.driver = 1 /\ table = <<TheDriver>>

LEMMA KeyboardIndex ==
    ASSUME Works
    PROVE  /\ amount = 0 => Devs!FindIndex(ident[0]) = 0
           /\ amount = 1 /\ table = <<TheDriver>> =>
                 Devs!FindIndex(ident[0]) = 0
<1> DEFINE id == ident[0]
           exact == {i \in 0..amount - 1 :
               id.long /\ table[i + 1].long /\ table[i + 1].id = id.id}
           partial == {i \in 0..amount - 1 : table[i + 1].id[1] = id.id[1]}
<1>1. Devs!FindIndex(ident[0]) =
         IF exact # {} THEN Devs!Min(exact)
         ELSE IF partial # {} THEN Devs!Min(partial) ELSE amount
  BY Zenon DEF Devs!FindIndex
<1>2. id.id[1] = 171
  BY DEF Works, Keyboards
<1>3. CASE amount = 0
  <2>1. exact = {} /\ partial = {}
    BY <1>3
  <2> HIDE DEF exact, partial
  <2> QED
    BY <1>1, <1>3, <2>1
<1>4. CASE amount = 1 /\ table = <<TheDriver>>
  <2>1. table[1].long = FALSE /\ table[1].id[1] = 171
    BY <1>4 DEF TheDriver
  <2>2. 0..amount - 1 = {0}
    BY <1>4
  <2>3. exact = {}
    BY <2>1, <2>2
  <2>4. partial = {0}
    BY <1>2, <2>1, <2>2
  <2>5. Devs!Min({0}) = 0
    BY DEF Devs!Min
  <2> HIDE DEF exact, partial
  <2> QED
    BY <1>1, <1>4, <2>3, <2>4, <2>5
<1> QED
  BY <1>3, <1>4

LEMMA ConnectDevice ==
    ASSUME NEW r \in DeviceRecord, NEW i \in 0..1, NEW c \in -1..1,
           NEW w \in BOOLEAN
    PROVE  [r EXCEPT !.driver = i, !.connected = c, !.working = w]
              \in DeviceRecord
  BY DEF DeviceRecord

LEMMA SearchOutcome ==
    ASSUME Goes
    PROVE  Outcome(Found)
<1> DEFINE r == dev[0]
           i == Devs!FindIndex(ident[0])
<1>1. Found =
        CASE r.notFound \/ r.driver # amount -> r
          [] ~r.notFound /\ r.driver = amount /\ i = amount ->
               [r EXCEPT !.notFound = TRUE]
          [] OTHER ->
               [r EXCEPT !.driver = i, !.connected = i, !.working = TRUE]
  BY Zenon DEF Found, Devs!FindDriver
<1>2. r \in DeviceRecord /\ r.working /\ Phase(r)
  BY DEF Goes, Running, StackInv, Typed, Works
<1>3. /\ amount = 0 => i = 0
      /\ amount = 1 /\ table = <<TheDriver>> => i = 0
  BY KeyboardIndex DEF Goes, StackInv
<1>4. CASE amount = 0 /\ Unserved(r) /\ r.driver = 0
  <2>1. Found \in {r, [r EXCEPT !.notFound = TRUE]} /\ Found.notFound
    BY <1>1, <1>2, <1>3, <1>4 DEF DeviceRecord
  <2> QED
    BY <1>2, <1>4, <2>1 DEF Outcome, Unserved, DeviceRecord
<1>5. CASE /\ Raising /\ Unserved(r) /\ r.driver = 1
           /\ r.arrived => r.notFound
  <2>1. Found = r
    BY <1>1, <1>5 DEF Raising
  <2>2. r.notFound \in BOOLEAN /\ r.arrived \in BOOLEAN
        /\ table = <<TheDriver>> /\ amount = 0
    BY <1>2, <1>5 DEF DeviceRecord, Raising, Written
  <2> HIDE DEF r
  <2> QED
    BY <1>2, <1>5, <2>1, <2>2 DEF Outcome, Unserved, r
<1>6. CASE Written /\ amount = 1 /\ Unserved(r) /\ r.driver = 1 /\ r.notFound
  <2>1. Found = r
    BY <1>1, <1>6
  <2> QED
    BY <1>2, <1>6, <2>1 DEF Outcome, Unserved
<1>7. CASE Written /\ amount = 1 /\ ~r.notFound /\ r.driver = 1
  <2>1. i = 0
    BY <1>3, <1>7 DEF Written
  <2>2. Found = [r EXCEPT !.driver = 0, !.connected = 0, !.working = TRUE]
    BY <1>1, <1>7, <2>1
  <2> HIDE DEF r, i
  <2>3. Found \in DeviceRecord
    <3>1. TRUE \in BOOLEAN /\ 0 \in 0..1 /\ 0 \in -1..1
      OBVIOUS
    <3> QED
      BY <1>2, <2>2, <3>1, ConnectDevice
  <2>4. /\ Found.working /\ ~Found.notFound
        /\ Found.arrived = r.arrived /\ Found.echoed = r.echoed
        /\ Found.driver = 0 /\ Found.connected = 0
    BY <1>2, <1>7, <2>2 DEF DeviceRecord
  <2> QED
    BY <1>7, <2>3, <2>4 DEF Outcome, r
<1>8. CASE /\ Written /\ amount = 1
           /\ ~r.notFound /\ r.driver = 0 /\ r.connected = 0
  <2>1. Found = r
    BY <1>1, <1>8
  <2> QED
    BY <1>2, <1>8, <2>1 DEF Outcome
<1>9. \/ amount = 0 /\ Unserved(r) /\ r.driver = 0
      \/ Raising /\ Unserved(r) /\ r.driver = 1 /\ (r.arrived => r.notFound)
      \/ Written /\ amount = 1 /\ Unserved(r) /\ r.driver = 1
      \/ /\ Written /\ amount = 1
         /\ ~r.notFound /\ r.driver = 0 /\ r.connected = 0
  <2> HIDE DEF r, i
  <2> QED
    BY <1>2 DEF Phase, Before, Raising, Clearing, Installed, Unserved
<1> QED
  BY <1>4, <1>5, <1>6, <1>7, <1>8, <1>9

\* ps2.c calls the driver exactly if it has been connected.
LEMMA CalledIffConnected ==
    ASSUME NEW r, Outcome(r), NEW s,
           s.notFound = r.notFound, s.driver = r.driver
    PROVE  Called(s) <=> r.connected = 0
<1>1. CASE table = <<TheDriver>>
  <2>1. Len(table) = 1
    BY <1>1
  <2> QED
    BY <2>1 DEF Outcome, Called, Devs!NoEntry
<1>2. CASE table # <<TheDriver>>
  BY <1>2 DEF Outcome, Written, Called
<1> QED
  BY <1>1, <1>2

\* An interrupt that searches and leaves the flag and the driver as found.
LEMMA SearchPhase ==
    ASSUME Goes, NEW r, Outcome(r),
           UNCHANGED <<pc, reg, todo, table, amount, flags>>,
           served' => served \/ (r.connected = 0 /\ pc = <<"start", 0>>),
           dev'[0].notFound = r.notFound, dev'[0].driver = r.driver,
           dev'[0].connected = r.connected,
           dev'[0].arrived => r.notFound \/ r.connected = 0
    PROVE  Phase(dev[0])'
<1>1. Phase(dev[0])
  BY DEF Goes, Running, StackInv
<1>2. CASE r.connected = 0
  <2>1. /\ Written /\ amount = 1
        /\ ~r.notFound /\ r.driver = 0
    BY <1>2 DEF Outcome
  <2>2. CASE Clearing
    BY <1>1, <1>2, <2>1, <2>2
    DEF Phase, Before, Raising, Clearing, Installed, Written
  <2>3. CASE Installed
    BY <1>1, <1>2, <2>1, <2>3
    DEF Phase, Before, Raising, Clearing, Installed, Written
  <2>4. Clearing \/ Installed
    <3>1. amount # 0
      BY <2>1
    <3> QED
      BY <1>1, <3>1, Zenon DEF Phase, Before, Raising
  <2> QED
    BY <2>2, <2>3, <2>4
<1>3. CASE r.connected # 0
  <2>1. ~served /\ ~served' /\ r.driver = dev[0].driver
        /\ r.connected = -1 /\ dev[0].connected = -1
    BY <1>3 DEF Outcome
  <2>2. CASE Before
    BY <1>1, <1>3, <2>1, <2>2
    DEF Phase, Before, Raising, Clearing, Installed, Unserved, Written
  <2>3. CASE Raising
    BY <1>1, <1>3, <2>1, <2>3
    DEF Phase, Before, Raising, Clearing, Installed, Unserved, Written
  <2>4. CASE Clearing
    BY <1>1, <1>3, <2>1, <2>4
    DEF Phase, Before, Raising, Clearing, Installed, Unserved, Written
  <2>5. ~Installed
    <3>1. amount = 0 \/ dev[0].notFound
      BY <1>3 DEF Outcome
    <3> QED
      BY <1>1, <3>1 DEF Phase, Before, Raising, Clearing, Installed
  <2> QED
    BY <1>1, <2>2, <2>3, <2>4, <2>5 DEF Phase
<1> QED
  BY <1>2, <1>3

LEMMA SamePhase ==
    ASSUME Phase(dev[0]),
           UNCHANGED <<pc, reg, todo, table, amount, flags, served>>,
           dev'[0].notFound = dev[0].notFound, dev'[0].driver = dev[0].driver,
           dev'[0].connected = dev[0].connected,
           dev'[0].arrived => dev[0].arrived
    PROVE  Phase(dev[0])'
  BY DEF Phase, Before, Raising, Clearing, Installed, Unserved, Written

-----------------------------------------------------------------------------
(* The callbacks and the interrupt.                                        *)

\* The record that the driver works on.
LEMMA SelectedQueue ==
    ASSUME StackInv
    PROVE  LET k == Kbd!Selected(0)
           IN  /\ Queued(k) /\ k.overrun = kbd[0].overrun
               /\ dev[0].connected # -1 => k = kbd[0]
               /\ dev[0].connected = -1 =>
                     k.queue # <<>> /\ Len(k.queue) = 3
<1>1. Queued(kbd[0])
  BY DEF StackInv, Typed
<1>2. Kbd!Selected(0) = IF dev[0].connected # -1 THEN kbd[0]
                        ELSE Kbd!OnConnect(kbd[0])
  BY DEF Kbd!Selected, Devs!None
<1> QED
  BY <1>1, <1>2, OnConnectQueue

LEMMA SendDoes ==
    ASSUME Goes, SendEchoCallback
    PROVE  /\ next = "send" /\ next' = "check"
           /\ UNCHANGED <<pc, reg, todo, table, amount, flags, ident>>
           /\ DOMAIN dev' = {0, 1} /\ dev'[0] \in DeviceRecord
           /\ dev'[0].working /\ dev'[0].arrived = dev[0].arrived
           /\ dev'[0].notFound = Found.notFound
           /\ dev'[0].driver = Found.driver
           /\ dev'[0].connected = Found.connected
           /\ ~Found.notFound => dev'[0].echoed = dev[0].arrived
<1>1. PICK ok \in [Devs!Device -> Devs!Answers] :
         dev' = [d \in Devs!Device |-> Devs!SendEcho(d, ok[d])]
  BY DEF SendEchoCallback, Devs!SendEchoCallback
<1>2. ok[0] = TRUE /\ 0 \in Devs!Device
  BY DEF Devs!Device, Devs!Answers
<1>3. dev'[0] = Devs!SendEcho(0, TRUE) /\ DOMAIN dev' = {0, 1}
  BY <1>1, <1>2 DEF Devs!Device
<1>4. Outcome(Found) /\ dev[0].working
  BY SearchOutcome DEF Goes, StackInv, Works
<1>5. Found \in DeviceRecord /\ Found.working
      /\ Found.arrived \in BOOLEAN /\ Found.arrived = dev[0].arrived
  BY <1>4 DEF Outcome, DeviceRecord
<1>6. dev'[0] = IF Found.notFound THEN Found
                ELSE IF Found.arrived THEN [Found EXCEPT !.echoed = TRUE]
                ELSE [Found EXCEPT !.echoed = FALSE]
  BY <1>3, <1>4, Zenon DEF Devs!SendEcho, Found
<1>7. /\ next = "send" /\ next' = "check"
      /\ UNCHANGED <<pc, reg, todo, table, amount, flags, ident>>
  BY DEF SendEchoCallback, Devs!SendEchoCallback, Devs!mainVars
<1> HIDE DEF Found
<1>8. dev'[0] \in DeviceRecord
  BY <1>5, <1>6 DEF DeviceRecord
<1>9. /\ dev'[0].working /\ dev'[0].arrived = dev[0].arrived
      /\ dev'[0].notFound = Found.notFound
      /\ dev'[0].driver = Found.driver
      /\ dev'[0].connected = Found.connected
      /\ ~Found.notFound => dev'[0].echoed = dev[0].arrived
  BY <1>5, <1>6 DEF DeviceRecord
<1> QED
  BY <1>3, <1>7, <1>8, <1>9

\* ... and to the keyboard's driver, if that is connected now.
LEMMA SendCalls ==
    ASSUME Goes, SendEchoCallback
    PROVE  LET k == Kbd!Selected(0)
               called == Found.connected = 0
           IN  /\ kbd' = IF called
                         THEN [kbd EXCEPT ![0] = IF dev[0].arrived THEN k
                                  ELSE Kbd!QueueCommand(k, Kbd!ECHO)]
                         ELSE kbd
               /\ declared' = IF called THEN dev[0].arrived ELSE declared
               /\ served' = (called /\ pc = <<"start", 0>>)
               /\ behind' = IF kbd'[0].queue = <<>> THEN 0 ELSE behind + 1
               /\ UNCHANGED <<toHost, scanning, expects, owesSet, devSet>>
<1>1. Called(dev'[0]) <=> Found.connected = 0
  BY SearchOutcome, SendDoes, CalledIffConnected
<1> QED
  BY <1>1, Zenon DEF SendEchoCallback, Counted, Answered, Devs!Start,
                     keyboardVars

LEMMA SendStep ==
    ASSUME Goes, SendEchoCallback
    PROVE  StackInv'
<1> DEFINE k == Kbd!Selected(0)
           e == Kbd!QueueCommand(k, Kbd!ECHO)
           q == kbd'[0].queue
<1>1. Typed /\ Works /\ Backlog(dev[0], kbd[0]) /\ kbd[0].overrun = FALSE
  <2>1. ~kbd[0].overrun
    BY DEF Goes, Running, Kbd!Intact
  <2> QED
    BY <2>1 DEF Goes, StackInv
<1>2. /\ Queued(k) /\ k.overrun = FALSE
      /\ dev[0].connected # -1 => k = kbd[0]
      /\ dev[0].connected = -1 => k.queue # <<>> /\ Len(k.queue) = 3
  BY <1>1, SelectedQueue DEF Goes
<1>3. Kbd!ECHO \in Kbd!Command
  BY DEF Kbd!Command
<1>4. /\ Queued(e)
      /\ Len(k.queue) >= 16 => e.queue = k.queue /\ e.overrun = TRUE
      /\ Len(k.queue) < 16 =>
            e.queue = Append(k.queue, Kbd!ECHO) /\ e.overrun = k.overrun
  BY <1>2, <1>3, QueueCommandQueue
<1>5. Outcome(Found)
  BY SearchOutcome
<1>6. /\ next = "send" /\ next' = "check"
      /\ UNCHANGED <<pc, reg, todo, table, amount, flags, ident>>
      /\ DOMAIN dev' = {0, 1} /\ dev'[0] \in DeviceRecord
      /\ dev'[0].working /\ dev'[0].arrived = dev[0].arrived
      /\ dev'[0].notFound = Found.notFound
      /\ dev'[0].driver = Found.driver
      /\ dev'[0].connected = Found.connected
      /\ ~Found.notFound => dev'[0].echoed = dev[0].arrived
  BY SendDoes
<1>7. /\ kbd' = IF Found.connected = 0
                THEN [kbd EXCEPT ![0] = IF dev[0].arrived THEN k ELSE e]
                ELSE kbd
      /\ declared' = IF Found.connected = 0 THEN dev[0].arrived ELSE declared
      /\ served' = (Found.connected = 0 /\ pc = <<"start", 0>>)
      /\ behind' = IF q = <<>> THEN 0 ELSE behind + 1
  BY SendCalls
<1>8. /\ DOMAIN kbd = {0} /\ behind \in Nat /\ Queued(kbd[0])
      /\ declared \in BOOLEAN /\ dev[0].arrived \in BOOLEAN
      /\ DOMAIN flags = {"working", "notFound", "arrived", "echoed"}
  BY <1>1 DEF Typed, DeviceRecord
<1> HIDE DEF k, e
<1>9. Phase(dev[0])'
  <2>1. dev'[0].arrived => Found.notFound \/ Found.connected = 0
    BY <1>5, <1>6 DEF Outcome
  <2> QED
    BY <1>5, <1>6, <1>7, <2>1, SearchPhase
<1>10. Works'
  BY <1>1, <1>6 DEF Works
<1>11. CASE Found.connected # 0
  <2>1. UNCHANGED kbd /\ dev'[0].connected = dev[0].connected /\ ~served'
        /\ declared' = declared /\ served' = FALSE
    BY <1>5, <1>6, <1>7, <1>11 DEF Outcome
  <2>2. Typed'
    BY <1>6, <1>7, <1>8, <2>1 DEF Typed
  <2>3. Backlog(dev[0], kbd[0])'
    BY <1>1, <1>6, <1>7, <1>8, <2>1 DEF Backlog, Queued
  <2>4. Requested(dev[0], kbd[0])'
    BY <2>1 DEF Requested
  <2> QED
    BY <1>9, <1>10, <2>2, <2>3, <2>4 DEF StackInv
<1>12. CASE Found.connected = 0
  <2>1. kbd'[0] = (IF dev[0].arrived THEN k ELSE e) /\ DOMAIN kbd' = {0}
    BY <1>7, <1>8, <1>12
  <2>2. ~Found.notFound
    BY <1>5, <1>12 DEF Outcome
  <2>3. k.queue \in Seq(Kbd!Command) /\ q \in Seq(Kbd!Command)
        /\ Queued(kbd'[0])
    BY <1>2, <1>4, <2>1 DEF Queued
  <2>4. Typed'
    <3>1. served' \in BOOLEAN /\ declared' \in BOOLEAN /\ behind' \in Nat
      BY <1>7, <1>8, <1>12
    <3> QED
      BY <1>6, <1>8, <2>1, <2>3, <3>1 DEF Typed
  <2>5. /\ Len(q) <= Len(k.queue) + 1
        /\ q # <<>> \/ Len(k.queue) = 0
        /\ kbd'[0].overrun => Len(k.queue) >= 16
    <3>1. CASE dev[0].arrived
      BY <1>2, <2>1, <2>3, <3>1
    <3>2. CASE ~dev[0].arrived /\ Len(k.queue) >= 16
      BY <1>4, <2>1, <2>3, <3>2
    <3>3. CASE ~dev[0].arrived /\ Len(k.queue) < 16
      <4>1. q = Append(k.queue, Kbd!ECHO) /\ kbd'[0].overrun = FALSE
        BY <1>2, <1>4, <2>1, <3>3
      <4>2. q # <<>> /\ Len(q) = Len(k.queue) + 1
        BY <1>3, <2>3, <4>1, AppendProperties
      <4> QED
        BY <4>1, <4>2
    <3> QED
      BY <2>3, <3>1, <3>2, <3>3
  <2>6. 2 * Len(k.queue) <= 6 + behind
    <3>1. CASE dev[0].connected = -1
      <4>1. Len(k.queue) = 3
        BY <1>2, <3>1
      <4> QED
        BY <1>8, <4>1
    <3>2. CASE dev[0].connected # -1
      BY <1>1, <1>2, <1>6, <3>2 DEF Backlog
    <3> QED
      BY <3>1, <3>2
  <2>7. Backlog(dev[0], kbd[0])'
    <3>1. 2 * Len(q) <= 7 + behind'
      <4>1. CASE q = <<>>
        <5>1. Len(q) = 0
          BY <4>1
        <5> HIDE DEF q
        <5> QED
          BY <4>1, <1>7, <5>1 DEF q
      <4>2. CASE q # <<>>
        BY <4>2, <1>7, <1>8, <2>3, <2>5, <2>6
      <4> QED
        BY <4>1, <4>2
    <3>2. kbd'[0].overrun => behind' > 26
      <4> SUFFICES ASSUME kbd'[0].overrun PROVE behind' > 26
        OBVIOUS
      <4>1. Len(k.queue) >= 16 /\ Len(k.queue) \in Nat
        BY <2>3, <2>5
      <4>2. q # <<>> /\ behind >= 26
        BY <1>8, <2>5, <2>6, <4>1
      <4> QED
        BY <1>7, <1>8, <4>2
    <3>3. q = <<>> => behind' = 0
      BY <1>7
    <3>4. next' = "check" /\ dev'[0].connected = 0
      BY <1>6, <1>12
    <3> QED
      BY <3>1, <3>2, <3>3, <3>4 DEF Backlog
  <2>8. Requested(dev[0], kbd[0])'
    <3>1. CASE dev[0].arrived
      BY <1>6, <2>2, <3>1 DEF Requested
    <3>2. CASE ~dev[0].arrived /\ Len(k.queue) < 16
      <4>1. q = Append(k.queue, Kbd!ECHO)
        BY <1>4, <2>1, <3>2
      <4>2. Len(k.queue) + 1 \in DOMAIN q /\ q[Len(k.queue) + 1] = Kbd!ECHO
        BY <2>3, <4>1
      <4> QED
        BY <4>2 DEF Requested
    <3>3. CASE ~dev[0].arrived /\ Len(k.queue) >= 16
      <4>1. kbd'[0].overrun = TRUE
        BY <1>4, <2>1, <3>3
      <4> QED
        BY <4>1 DEF Requested
    <3> QED
      BY <2>3, <3>1, <3>2, <3>3
  <2> QED
    BY <1>9, <1>10, <2>4, <2>7, <2>8 DEF StackInv
<1> QED
  BY <1>11, <1>12

LEMMA CheckStep ==
    ASSUME Goes, CheckEchoCallback
    PROVE  StackInv'
<1> DEFINE q == kbd[0].queue
<1>1. Typed /\ Works /\ Backlog(dev[0], kbd[0]) /\ Phase(dev[0])
  BY DEF Goes, Running, StackInv
<1>2. /\ next = "check" /\ next' = "send"
      /\ UNCHANGED <<pc, reg, todo, table, amount, flags, ident, kbd, served,
                     declared>>
      /\ dev' = [d \in {0, 1} |-> [dev[d] EXCEPT !.arrived = FALSE]]
      /\ behind' = IF q = <<>> THEN 0 ELSE behind + 1
  BY DEF CheckEchoCallback, Devs!CheckEchoCallback, Devs!mainVars, kbdVars,
         Counted, Answered, Devs!Device
<1>3. dev[0] \in DeviceRecord /\ behind \in Nat /\ q \in Seq(Kbd!Command)
  BY <1>1 DEF Typed, Queued
<1>4. dev'[0] = [dev[0] EXCEPT !.arrived = FALSE] /\ DOMAIN dev' = {0, 1}
  BY <1>2
<1>5. dev'[0] \in DeviceRecord
  BY <1>3, <1>4 DEF DeviceRecord
<1>6. /\ dev'[0].working = dev[0].working /\ ~dev'[0].arrived
      /\ dev'[0].notFound = dev[0].notFound /\ dev'[0].driver = dev[0].driver
      /\ dev'[0].connected = dev[0].connected
  BY <1>3, <1>4 DEF DeviceRecord
<1>7. Phase(dev[0])'
  BY <1>1, <1>2, <1>6, SamePhase
<1>8. Typed' /\ Works'
  <2>1. Works'
    BY <1>1, <1>2, <1>6 DEF Works
  <2>2. behind' \in Nat
    BY <1>2, <1>3
  <2>3. /\ DOMAIN kbd' = {0} /\ Queued(kbd'[0])
        /\ served' \in BOOLEAN /\ declared' \in BOOLEAN
        /\ DOMAIN flags' = {"working", "notFound", "arrived", "echoed"}
    BY <1>1, <1>2 DEF Typed
  <2>4. next' \in {"send", "check"}
    BY <1>2
  <2> QED
    BY <1>4, <1>5, <2>1, <2>2, <2>3, <2>4 DEF Typed
<1>9. Backlog(dev[0], kbd[0])'
  BY <1>1, <1>2, <1>3, <1>6 DEF Backlog
<1>10. Requested(dev[0], kbd[0])'
  BY <1>2 DEF Requested
<1> QED
  BY <1>7, <1>8, <1>9, <1>10 DEF StackInv

\* The head command is a request to echo and the byte its answer.
Echoes(k, b) ==
    Kbd!Claims(k, b) /\ Head(k.queue) = Kbd!ECHO /\ b = Kbd!ECHOED

LEMMA IrqDoes ==
    ASSUME Goes, DeviceIrq
    PROVE  LET k == Kbd!Selected(0)
               b == Head(toHost[0]).val
               called == Found.connected = 0
               echo == called /\ Echoes(k, b)
           IN  /\ UNCHANGED <<pc, reg, todo, table, amount, flags, ident,
                              next, served>>
               /\ DOMAIN dev' = {0, 1} /\ dev'[0] \in DeviceRecord
               /\ dev'[0].working
               /\ dev'[0].notFound = Found.notFound
               /\ dev'[0].driver = Found.driver
               /\ dev'[0].connected = Found.connected
               /\ dev'[0].echoed = (Found.echoed \/ echo)
               /\ declared' = (declared \/ echo)
               /\ kbd' = IF called
                         THEN [kbd EXCEPT ![0] =
                            IF Kbd!Claims(k, b) THEN Kbd!HandleReceive(k, b)
                                                ELSE k]
                         ELSE kbd
               /\ behind' = IF kbd'[0].queue = <<>> THEN 0 ELSE behind + 0
               /\ wild' = (~called /\ ~Found.notFound)
<1> DEFINE k == Kbd!Selected(0)
           b == Head(toHost[0]).val
           r == [Found EXCEPT !.arrived = TRUE]
           claimed == Called(r) /\ Kbd!Claims(k, b)
           echo == claimed /\ Head(k.queue) = Kbd!ECHO /\ b = Kbd!ECHOED
           s == [r EXCEPT !.echoed = @ \/ echo]
<1>1. Found \in DeviceRecord /\ Found.working /\ Outcome(Found)
  BY SearchOutcome DEF Outcome
<1>2. DOMAIN dev = {0, 1}
  BY DEF Goes, StackInv, Typed
<1>3. /\ UNCHANGED <<pc, reg, todo, table, amount, flags, ident, next, served>>
      /\ kbd' = IF Called(r)
                THEN [kbd EXCEPT ![0] =
                         IF claimed THEN Kbd!HandleReceive(k, b) ELSE k]
                ELSE kbd
      /\ dev' = [dev EXCEPT ![0] = s]
      /\ behind' = IF kbd'[0].queue = <<>> THEN 0 ELSE behind + 0
      /\ declared' = (declared \/ echo)
      /\ wild' = (~r.notFound /\ Devs!NoEntry(r))
  BY Zenon DEF DeviceIrq, Counted, Answered, Found
<1>4. dev'[0] = s /\ DOMAIN dev' = {0, 1}
  BY <1>2, <1>3
<1> HIDE DEF Found, k, b
<1>5. r \in DeviceRecord /\ r.working /\ r.notFound = Found.notFound
      /\ r.driver = Found.driver /\ r.connected = Found.connected
      /\ r.echoed = Found.echoed /\ r.echoed \in BOOLEAN
      /\ r.notFound \in BOOLEAN
  BY <1>1 DEF DeviceRecord
<1>6. Called(r) <=> Found.connected = 0
  BY <1>1, <1>5, CalledIffConnected
<1>7. echo \in BOOLEAN /\ (echo <=> Found.connected = 0 /\ Echoes(k, b))
  BY <1>6, Zenon DEF Echoes, Kbd!Claims
<1>8. claimed <=> Found.connected = 0 /\ Kbd!Claims(k, b)
  BY <1>6, Zenon
<1>9. wild' = (Found.connected # 0 /\ ~Found.notFound)
  <2>1. Called(r) <=> ~r.notFound /\ ~Devs!NoEntry(r)
    BY Zenon DEF Called
  <2>2. Found.connected = 0 => ~Found.notFound
    BY <1>1 DEF Outcome
  <2> HIDE DEF r
  <2> QED
    BY <1>3, <1>5, <1>6, <2>1, <2>2, Zenon
<1> HIDE DEF r, claimed, echo
<1>10. (r.echoed \/ echo) \in BOOLEAN
  BY <1>5, <1>7, Zenon
<1>11. s \in DeviceRecord
  BY <1>5, <1>10 DEF DeviceRecord
<1>12. /\ s.working = r.working
       /\ s.notFound = r.notFound
       /\ s.driver = r.driver /\ s.connected = r.connected
       /\ s.echoed = (r.echoed \/ echo)
  BY <1>5 DEF DeviceRecord
<1> HIDE DEF s
<1>13. dev'[0] \in DeviceRecord /\ dev'[0].working
       /\ dev'[0].notFound = Found.notFound
       /\ dev'[0].driver = Found.driver
       /\ dev'[0].connected = Found.connected
  BY <1>4, <1>5, <1>11, <1>12
<1>14. /\ dev'[0].echoed =
             (Found.echoed \/ (Found.connected = 0 /\ Echoes(k, b)))
       /\ declared' = (declared \/ (Found.connected = 0 /\ Echoes(k, b)))
  BY <1>3, <1>4, <1>5, <1>7, <1>12, Zenon
<1>15. kbd' = IF Found.connected = 0
              THEN [kbd EXCEPT ![0] =
                       IF Kbd!Claims(k, b) THEN Kbd!HandleReceive(k, b)
                                           ELSE k]
              ELSE kbd
  BY <1>3, <1>6, <1>8
<1> QED
  BY <1>3, <1>4, <1>9, <1>13, <1>14, <1>15 DEF k, b

\* Of a claimed byte the queue keeps the echo, unless it is answered.
LEMMA EchoKept ==
    ASSUME NEW k, Queued(k), NEW b,
           NEW i \in DOMAIN k.queue, k.queue[i] = Kbd!ECHO,
           NEW q, q \in Seq(Kbd!Command),
           q = k.queue \/ (/\ k.queue # <<>> /\ q = Tail(k.queue)
                           /\ Head(k.queue) = Kbd!ECHO => b = Kbd!ECHOED)
    PROVE  (Head(k.queue) = Kbd!ECHO /\ b = Kbd!ECHOED)
              \/ \E j \in DOMAIN q : q[j] = Kbd!ECHO
<1>1. CASE q = k.queue
  BY <1>1
<1>2. CASE /\ k.queue # <<>> /\ q = Tail(k.queue)
           /\ Head(k.queue) = Kbd!ECHO => b = Kbd!ECHOED
  <2>1. k.queue \in Seq(Kbd!Command)
    BY DEF Queued
  <2>2. Head(k.queue) = k.queue[1]
    BY <1>2, <2>1
  <2>3. CASE i = 1
    BY <1>2, <2>2, <2>3
  <2>4. CASE i # 1
    <3>1. i \in 1..Len(k.queue) /\ Len(k.queue) \in Nat
      BY <2>1
    <3>2. Len(q) = Len(k.queue) - 1
      BY <1>2, <2>1, HeadTailProperties
    <3>3. i - 1 \in 1..Len(k.queue) - 1
      BY <2>4, <3>1
    <3>4. \A j \in 1..Len(k.queue) - 1 : Tail(k.queue)[j] = k.queue[j + 1]
      BY <1>2, <2>1, HeadTailProperties
    <3>5. q[i - 1] = k.queue[(i - 1) + 1] /\ (i - 1) + 1 = i
      BY <1>2, <3>1, <3>3, <3>4
    <3>6. i - 1 \in DOMAIN q
      BY <3>2, <3>3, LenProperties
    <3> QED
      BY <3>5, <3>6
  <2> QED
    BY <2>3, <2>4
<1> QED
  BY <1>1, <1>2

LEMMA IrqStep ==
    ASSUME Goes, DeviceIrq
    PROVE  StackInv'
<1> DEFINE k == Kbd!Selected(0)
           b == Head(toHost[0]).val
           q == kbd'[0].queue
<1>1. /\ Typed /\ Works /\ Backlog(dev[0], kbd[0])
      /\ Requested(dev[0], kbd[0]) /\ ~kbd[0].overrun
  BY DEF Goes, StackInv, Running, Kbd!Intact
<1>2. /\ Queued(k) /\ k.overrun = kbd[0].overrun
      /\ dev[0].connected # -1 => k = kbd[0]
      /\ dev[0].connected = -1 => k.queue # <<>> /\ Len(k.queue) = 3
  BY SelectedQueue DEF Goes
<1>3. Outcome(Found)
  BY SearchOutcome
<1>4. /\ UNCHANGED <<pc, reg, todo, table, amount, flags, ident, next, served>>
      /\ DOMAIN dev' = {0, 1} /\ dev'[0] \in DeviceRecord
      /\ dev'[0].working
      /\ dev'[0].notFound = Found.notFound
      /\ dev'[0].driver = Found.driver
      /\ dev'[0].connected = Found.connected
      /\ wild' = (Found.connected # 0 /\ ~Found.notFound)
  BY IrqDoes
<1>5. /\ dev'[0].echoed =
            (Found.echoed \/ (Found.connected = 0 /\ Echoes(k, b)))
      /\ declared' = (declared \/ (Found.connected = 0 /\ Echoes(k, b)))
  BY IrqDoes
<1>6. /\ kbd' = IF Found.connected = 0
                THEN [kbd EXCEPT ![0] =
                   IF Kbd!Claims(k, b) THEN Kbd!HandleReceive(k, b) ELSE k]
                ELSE kbd
      /\ behind' = IF q = <<>> THEN 0 ELSE behind + 0
  BY IrqDoes
<1>7. /\ DOMAIN kbd = {0} /\ behind \in Nat /\ Queued(kbd[0])
      /\ served \in BOOLEAN /\ declared \in BOOLEAN
      /\ next \in {"send", "check"}
      /\ DOMAIN flags = {"working", "notFound", "arrived", "echoed"}
  BY <1>1 DEF Typed
<1> HIDE DEF k, b
<1>8. wild' \/ Phase(dev[0])'
  <2> SUFFICES ASSUME ~wild' PROVE Phase(dev[0])'
    OBVIOUS
  <2>1. Found.notFound \/ Found.connected = 0
    BY <1>4
  <2> QED
    BY <1>3, <1>4, <2>1, SearchPhase
<1>9. Works'
  BY <1>1, <1>4 DEF Works
<1>10. behind' \in Nat /\ behind' <= behind /\ (q # <<>> => behind' = behind)
  BY <1>6, <1>7
<1>11. declared' \in BOOLEAN
  BY <1>5, <1>7, Zenon DEF Echoes, Kbd!Claims
<1>12. CASE Found.connected # 0
  <2>1. UNCHANGED kbd /\ dev'[0].connected = dev[0].connected /\ ~served'
    BY <1>3, <1>4, <1>6, <1>12 DEF Outcome
  <2>2. Typed'
    BY <1>4, <1>7, <1>10, <1>11, <2>1 DEF Typed
  <2>3. Backlog(dev[0], kbd[0])'
    BY <1>1, <1>4, <1>6, <1>7, <2>1 DEF Backlog, Queued
  <2>4. Requested(dev[0], kbd[0])'
    BY <2>1 DEF Requested
  <2> QED
    BY <1>8, <1>9, <2>2, <2>3, <2>4 DEF StackInv
<1>13. CASE Found.connected = 0
  <2>1. /\ kbd'[0] = IF Kbd!Claims(k, b) THEN Kbd!HandleReceive(k, b) ELSE k
        /\ DOMAIN kbd' = {0}
    BY <1>6, <1>7, <1>13
  <2>2. Found.echoed = dev[0].echoed
    BY <1>3 DEF Outcome
  <2>3. /\ Queued(kbd'[0]) /\ kbd'[0].overrun = k.overrun
        /\ \/ q = k.queue
           \/ /\ Kbd!Claims(k, b) /\ k.queue # <<>> /\ q = Tail(k.queue)
              /\ Head(k.queue) = Kbd!ECHO => b = Kbd!ECHOED
    BY <1>2, <2>1, ReceiveQueue
  <2>4. Typed'
    BY <1>4, <1>7, <1>10, <1>11, <2>1, <2>3 DEF Typed
  <2>5. k.queue \in Seq(Kbd!Command) /\ q \in Seq(Kbd!Command)
    BY <1>2, <2>3 DEF Queued
  <2>6. Len(q) <= Len(k.queue)
    <3>1. CASE q = k.queue
      BY <2>5, <3>1
    <3>2. CASE k.queue # <<>> /\ q = Tail(k.queue)
      BY <2>5, <3>2, HeadTailProperties
    <3> QED
      BY <2>3, <3>1, <3>2
  <2>7. 2 * Len(k.queue) <= (IF next = "send" THEN 6 ELSE 7) + behind
    <3>1. CASE dev[0].connected = -1
      <4>1. Len(k.queue) = 3
        BY <1>2, <3>1
      <4> QED
        BY <1>7, <4>1
    <3>2. CASE dev[0].connected # -1
      BY <1>1, <1>2, <3>2 DEF Backlog
    <3> QED
      BY <3>1, <3>2
  <2>8. Backlog(dev[0], kbd[0])'
    <3>1. 2 * Len(q) <= (IF next = "send" THEN 6 ELSE 7) + behind'
      <4>1. CASE q = <<>>
        <5>1. 2 * Len(q) = 0
          BY <4>1
        <5>2. behind' \in Nat
          BY <1>10
        <5> HIDE DEF q
        <5> QED
          BY <5>1, <5>2
      <4>2. CASE q # <<>>
        <5>1. Len(q) \in Nat /\ Len(k.queue) \in Nat /\ behind' = behind
          BY <4>2, <1>10, <2>5
        <5> QED
          BY <1>7, <2>6, <2>7, <5>1
      <4> QED
        BY <4>1, <4>2
    <3>2. q = <<>> => behind' = 0
      BY <1>6
    <3>3. ~kbd'[0].overrun
      BY <1>1, <1>2, <2>3
    <3> QED
      BY <1>4, <1>13, <3>1, <3>2, <3>3 DEF Backlog
  <2>9. Requested(dev[0], kbd[0])'
    <3> SUFFICES ASSUME next' = "check", served'
                 PROVE  \/ dev'[0].echoed
                        \/ \E i \in DOMAIN q : q[i] = Kbd!ECHO
      BY DEF Requested
    <3>1. next = "check" /\ served
      BY <1>4
    <3>2. CASE dev[0].echoed
      BY <1>5, <2>2, <3>2
    <3>3. CASE ~dev[0].echoed
      <4>1. PICK i \in DOMAIN kbd[0].queue : kbd[0].queue[i] = Kbd!ECHO
        BY <1>1, <3>1, <3>3 DEF Requested
      <4>2. kbd[0].queue # <<>>
        BY <4>1
      <4>3. k = kbd[0]
        BY <1>1, <1>2, <4>2 DEF Backlog
      <4>4. i \in DOMAIN k.queue /\ k.queue[i] = Kbd!ECHO
        BY <4>1, <4>3
      <4>5. CASE q = k.queue
        BY <4>4, <4>5
      <4>6. CASE q # k.queue
        <5>1. \/ Head(k.queue) = Kbd!ECHO /\ b = Kbd!ECHOED
              \/ \E j \in DOMAIN q : q[j] = Kbd!ECHO
          BY <1>2, <2>3, <2>5, <4>4, <4>6, EchoKept
        <5>2. Head(k.queue) = Kbd!ECHO /\ b = Kbd!ECHOED => Echoes(k, b)
          BY <2>3, <4>6 DEF Echoes
        <5> QED
          BY <1>5, <1>13, <5>1, <5>2
      <4> QED
        BY <4>5, <4>6
    <3> QED
      BY <3>2, <3>3
  <2> QED
    BY <1>8, <1>9, <2>4, <2>8, <2>9 DEF StackInv
<1> QED
  BY <1>12, <1>13

-----------------------------------------------------------------------------
(* main and the keyboard.                                                  *)

\* main runs before anything is served, and leaves everything alone but the
\* table, the driver and the flags.
LEMMA MainFrame ==
    ASSUME Goes, ~served,
           UNCHANGED <<ident, next, kbd, behind, declared, served>>,
           DOMAIN dev' = {0, 1}, dev'[0] \in DeviceRecord, dev'[0].working,
           DOMAIN flags' = {"working", "notFound", "arrived", "echoed"},
           dev'[0].connected = dev[0].connected,
           Phase(dev[0])'
    PROVE  StackInv'
<1>1. Typed /\ Works /\ Backlog(dev[0], kbd[0])
  BY DEF Goes, StackInv
<1>2. Typed'
  BY <1>1 DEF Typed
<1>3. Works'
  BY <1>1 DEF Works
<1>4. Backlog(dev[0], kbd[0])'
  BY <1>1 DEF Backlog
<1>5. Requested(dev[0], kbd[0])'
  BY DEF Requested
<1> QED
  BY <1>2, <1>3, <1>4, <1>5 DEF StackInv

LEMMA WriteStep ==
    ASSUME Goes, Devs!Write, UNCHANGED <<kbd, behind, declared, served>>
    PROVE  StackInv'
<1>1. Typed /\ Works /\ Phase(dev[0])
  BY DEF Goes, Running, StackInv
<1>2. /\ pc = <<"start", 0>> /\ todo # <<>> /\ todo' = Tail(todo)
      /\ IF amount >= 256
         THEN UNCHANGED <<table, pc>>
         ELSE table' = Append(table, Head(todo)) /\ pc' = <<"compare", 0>>
      /\ UNCHANGED <<dev, amount, reg, flags, ident, next>>
  BY Zenon DEF Devs!Write, Devs!Start, Devs!interruptVars
<1>3. /\ Before /\ Unserved(dev[0]) /\ dev[0].driver = 0
      /\ dev[0].arrived => dev[0].notFound
  BY <1>1, <1>2 DEF Phase, Raising, Clearing, Installed, Written
<1>4. /\ todo' = <<>> /\ table' = <<TheDriver>> /\ amount' = 0
      /\ pc' = <<"compare", 0>>
  BY <1>2, <1>3 DEF Before
<1>5. Phase(dev[0])'
  BY <1>2, <1>3, <1>4 DEF Phase, Raising, Written, Unserved
<1> QED
  BY <1>1, <1>2, <1>3, <1>5, MainFrame DEF Typed, Works, Unserved

LEMMA CountStep ==
    ASSUME Goes, Devs!Count, UNCHANGED <<kbd, behind, declared, served>>
    PROVE  StackInv'
<1>1. Typed /\ Works /\ Phase(dev[0])
  BY DEF Goes, Running, StackInv
<1>2. /\ pc = <<"count", 0>> /\ pc' = <<"fetch", 0>> /\ amount' = amount + 1
      /\ UNCHANGED <<dev, table, todo, reg, flags, ident, next>>
  BY DEF Devs!Count, Devs!interruptVars
<1>3. Raising /\ Unserved(dev[0]) /\ dev[0].driver = 1
  BY <1>1, <1>2 DEF Phase, Before, Raising, Clearing, Installed
<1>4. Phase(dev[0])'
  BY <1>2, <1>3 DEF Phase, Raising, Clearing, Written, Unserved
<1> QED
  BY <1>1, <1>2, <1>3, <1>4, MainFrame DEF Typed, Works, Unserved

LEMMA CompareStep ==
    ASSUME Goes, NEW d \in {0, 1}, Devs!Compare(d),
           UNCHANGED <<kbd, behind, declared, served>>
    PROVE  StackInv'
<1>1. Typed /\ Works /\ Phase(dev[0])
  BY DEF Goes, Running, StackInv
<1>2. /\ pc = <<"compare", d>>
      /\ pc' = IF dev[d].driver = amount THEN <<"load", d>>
               ELSE IF d = 0 THEN <<"compare", 1>> ELSE <<"count", 0>>
      /\ UNCHANGED <<dev, table, amount, todo, reg, flags, ident, next>>
  BY DEF Devs!Compare, Devs!Compared, Devs!interruptVars
<1>3. /\ Raising /\ Unserved(dev[0])
      /\ dev[0].driver = IF d = 0 THEN 0 ELSE 1
      /\ dev[0].arrived => dev[0].notFound
  BY <1>1, <1>2 DEF Phase, Before, Raising, Clearing, Installed
<1>4. Phase(dev[0])'
  BY <1>2, <1>3 DEF Phase, Raising, Written, Unserved
<1> QED
  BY <1>1, <1>2, <1>3, <1>4, MainFrame DEF Typed, Works, Unserved

LEMMA LoadStep ==
    ASSUME Goes, NEW d \in {0, 1}, Devs!Load(d),
           UNCHANGED <<kbd, behind, declared, served>>
    PROVE  StackInv'
<1>1. Typed /\ Works /\ Phase(dev[0])
  BY DEF Goes, Running, StackInv
<1>2. /\ pc = <<"load", d>> /\ pc' = <<"store", d>>
      /\ reg' = dev[d].driver
      /\ UNCHANGED <<dev, table, amount, todo, flags, ident, next>>
  BY DEF Devs!Load, Devs!interruptVars
<1>3. /\ Raising /\ Unserved(dev[0])
      /\ dev[0].driver = IF d = 0 THEN 0 ELSE 1
      /\ dev[0].arrived => dev[0].notFound
  BY <1>1, <1>2 DEF Phase, Before, Raising, Clearing, Installed
<1>4. Phase(dev[0])'
  BY <1>2, <1>3 DEF Phase, Raising, Written, Unserved
<1> QED
  BY <1>1, <1>2, <1>3, <1>4, MainFrame DEF Typed, Works, Unserved

LEMMA StoreStep ==
    ASSUME Goes, NEW d \in {0, 1}, Devs!Store(d),
           UNCHANGED <<kbd, behind, declared, served>>
    PROVE  StackInv'
<1>1. Typed /\ Works /\ Phase(dev[0])
  BY DEF Goes, Running, StackInv
<1>2. /\ pc = <<"store", d>>
      /\ pc' = IF d = 0 THEN <<"compare", 1>> ELSE <<"count", 0>>
      /\ dev' = [dev EXCEPT ![d].driver = reg + 1]
      /\ UNCHANGED <<table, amount, todo, reg, flags, ident, next>>
  BY DEF Devs!Store, Devs!Compared, Devs!interruptVars
<1>3. /\ Raising /\ Unserved(dev[0])
      /\ dev[0].driver = IF d = 0 THEN 0 ELSE 1
      /\ d = 0 => reg = 0
      /\ dev[0].arrived => dev[0].notFound
  BY <1>1, <1>2 DEF Phase, Before, Raising, Clearing, Installed
<1>4. dev[0] \in DeviceRecord /\ DOMAIN dev = {0, 1}
      /\ DOMAIN flags = {"working", "notFound", "arrived", "echoed"}
  BY <1>1 DEF Typed
<1>5. dev'[0] = [dev[0] EXCEPT !.driver = 1] /\ DOMAIN dev' = {0, 1}
  <2>1. CASE d = 0
    BY <1>2, <1>3, <1>4, <2>1
  <2>2. CASE d = 1
    <3>1. dev'[0] = dev[0] /\ dev[0].driver = 1
      BY <1>2, <1>3, <1>4, <2>2
    <3> QED
      BY <1>2, <1>4, <3>1 DEF DeviceRecord
  <2> QED
    BY <2>1, <2>2
<1>6. dev'[0] \in DeviceRecord
  <2>1. 1 \in 0..1
    OBVIOUS
  <2> QED
    BY <1>4, <1>5, <2>1 DEF DeviceRecord
<1>7. /\ dev'[0].working = dev[0].working
      /\ dev'[0].notFound = dev[0].notFound /\ dev'[0].driver = 1
      /\ dev'[0].connected = dev[0].connected
      /\ dev'[0].arrived = dev[0].arrived
  BY <1>4, <1>5 DEF DeviceRecord
<1>8. Phase(dev[0])'
  BY <1>2, <1>3, <1>7 DEF Phase, Raising, Written, Unserved
<1>9. dev'[0].working /\ ~served
  BY <1>1, <1>3, <1>7 DEF Works, Unserved
<1> QED
  BY <1>2, <1>4, <1>5, <1>6, <1>7, <1>8, <1>9, MainFrame

\* Behind the count, the keyboard's driver is 1 until the search connects it.
Reached(r) ==
    \/ r.driver = 1 /\ r.connected = -1
    \/ r.driver = 0 /\ r.connected = 0 /\ ~r.notFound

LEMMA FetchStep ==
    ASSUME Goes, NEW d \in {0, 1}, Devs!Fetch(d),
           UNCHANGED <<kbd, behind, declared, served>>
    PROVE  StackInv'
<1>1. Typed /\ Works /\ Phase(dev[0])
  BY DEF Goes, Running, StackInv
<1>2. /\ pc = <<"fetch", d>> /\ pc' = <<"clear", d>>
      /\ flags' = [f \in DOMAIN flags |-> dev[d][f]]
      /\ UNCHANGED <<dev, table, amount, todo, reg, ident, next>>
  BY DEF Devs!Fetch, Devs!interruptVars
<1>3. DOMAIN flags' = {"working", "notFound", "arrived", "echoed"}
  BY <1>1, <1>2 DEF Typed
<1>4. ASSUME d = 0 PROVE Phase(dev[0])' /\ ~served
  <2>1. Clearing /\ ~served /\ Reached(dev[0])
    BY <1>1, <1>2, <1>4
    DEF Phase, Before, Raising, Clearing, Installed, Reached
  <2>2. flags'.working = dev[0].working /\ flags'.echoed = dev[0].echoed
        /\ flags'.arrived = dev[0].arrived
    BY <1>1, <1>2, <1>4 DEF Typed
  <2>3. dev[0].arrived \in BOOLEAN /\ dev[0].echoed \in BOOLEAN
        /\ dev[0].working = TRUE
    BY <1>1 DEF Typed, Works, DeviceRecord
  <2> QED
    BY <1>2, <1>4, <2>1, <2>2, <2>3 DEF Phase, Clearing, Written, Reached
<1>5. ASSUME d = 1 PROVE Phase(dev[0])' /\ ~served
  <2>1. /\ Installed /\ ~dev[0].notFound /\ ~served
        /\ \/ dev[0].driver = 1 /\ Unserved(dev[0])
           \/ dev[0].driver = 0 /\ dev[0].connected = 0
    BY <1>1, <1>2, <1>5 DEF Phase, Before, Raising, Clearing, Installed
  <2> QED
    BY <1>2, <1>5, <2>1 DEF Phase, Installed, Written, Unserved
<1> QED
  BY <1>1, <1>2, <1>3, <1>4, <1>5, MainFrame DEF Typed, Works

LEMMA ClearStep ==
    ASSUME Goes, NEW d \in {0, 1}, Devs!Clear(d),
           UNCHANGED <<kbd, behind, declared, served>>
    PROVE  StackInv'
<1>1. Typed /\ Works /\ Phase(dev[0])
  BY DEF Goes, Running, StackInv
<1>2. /\ pc = <<"clear", d>>
      /\ pc' = IF d = 0 THEN <<"fetch", 1>> ELSE <<"start", 0>>
      /\ dev' = [dev EXCEPT ![d] =
            [@ EXCEPT !.working = flags.working, !.notFound = FALSE,
                      !.arrived = flags.arrived, !.echoed = flags.echoed]]
      /\ UNCHANGED <<table, amount, todo, reg, flags, ident, next>>
  BY DEF Devs!Clear, Devs!Start, Devs!interruptVars
<1>3. dev[0] \in DeviceRecord /\ DOMAIN dev = {0, 1} /\ dev[0].working
      /\ DOMAIN flags = {"working", "notFound", "arrived", "echoed"}
  BY <1>1 DEF Typed, Works
<1>4. CASE d = 0
  <2> DEFINE r == [dev[0] EXCEPT
            !.working = flags.working, !.notFound = FALSE,
            !.arrived = flags.arrived, !.echoed = flags.echoed]
  <2>1. /\ Clearing /\ ~served /\ Reached(dev[0])
        /\ flags.working = TRUE
        /\ flags.echoed \in BOOLEAN /\ flags.arrived \in BOOLEAN
    BY <1>1, <1>2, <1>4
    DEF Phase, Before, Raising, Clearing, Installed, Reached
  <2>2. dev'[0] = r /\ DOMAIN dev' = {0, 1}
    BY <1>2, <1>3, <1>4
  <2>3. r \in DeviceRecord
    BY <1>3, <2>1 DEF DeviceRecord
  <2>4. /\ r.working = TRUE /\ r.notFound = FALSE
        /\ r.driver = dev[0].driver /\ r.connected = dev[0].connected
    BY <1>3, <2>1 DEF DeviceRecord
  <2> HIDE DEF r
  <2>5. Phase(dev[0])'
    BY <1>2, <1>4, <2>1, <2>2, <2>4
       DEF Phase, Clearing, Installed, Written, Unserved, Reached
  <2> QED
    BY <1>2, <1>3, <2>1, <2>2, <2>3, <2>4, <2>5, MainFrame
<1>5. CASE d = 1
  <2>1. /\ Installed /\ ~dev[0].notFound /\ ~served
        /\ \/ dev[0].driver = 1 /\ Unserved(dev[0])
           \/ dev[0].driver = 0 /\ dev[0].connected = 0
    BY <1>1, <1>2, <1>5 DEF Phase, Before, Raising, Clearing, Installed
  <2>2. dev'[0] = dev[0] /\ DOMAIN dev' = {0, 1}
    BY <1>2, <1>3, <1>5
  <2>3. Phase(dev[0])'
    BY <1>2, <1>5, <2>1, <2>2 DEF Phase, Installed, Written, Unserved
  <2> QED
    BY <1>2, <1>3, <2>1, <2>2, <2>3, MainFrame
<1> QED
  BY <1>4, <1>5

LEMMA MainStep ==
    ASSUME Goes, Main
    PROVE  StackInv'
<1>1. UNCHANGED <<kbd, behind, declared, served>> /\ Devs!Main
  BY DEF Main, kbdVars, historyVars
<1>2. \/ Devs!Write \/ Devs!Count
      \/ \E d \in {0, 1} : Devs!Compare(d) \/ Devs!Load(d) \/ Devs!Store(d)
                              \/ Devs!Fetch(d) \/ Devs!Clear(d)
  BY <1>1 DEF Devs!Main, Devs!Device
<1> QED
  BY <1>1, <1>2, WriteStep, CountStep, CompareStep, LoadStep, StoreStep,
     FetchStep, ClearStep

\* What the keyboard and the user do.
Outside ==
    \/ (\E c \in Kbd!Byte : Execute(c)) \/ TellSet
    \/ AskResend \/ Reject \/ Strike

\* They leave the queue alone, and the manager.
LEMMA KeyboardStep ==
    ASSUME Goes, Outside
    PROVE  StackInv'
<1>1. Typed /\ Works /\ Phase(dev[0])
      /\ Backlog(dev[0], kbd[0]) /\ Requested(dev[0], kbd[0])
  BY DEF Goes, Running, StackInv
<1>2. UNCHANGED <<dev, ident, table, amount, todo, pc, reg, flags, next,
                  behind, declared, served>>
  BY DEF Outside, Execute, TellSet, AskResend, Reject, Strike, Elsewhere,
         devsVars, historyVars
<1>3. kbd' = kbd \/ kbd' = [kbd EXCEPT ![0].port = Tail(@)]
  BY DEF Outside, Execute, TellSet, AskResend, Reject, Strike, Kbd!Execute,
         Kbd!TellSet, Kbd!AskResend, Kbd!Reject, Kbd!Strike, Kbd!Answer,
         Kbd!Take, Kbd!driverVars
<1>4. DOMAIN kbd' = {0} /\ Queued(kbd'[0])
      /\ kbd'[0].queue = kbd[0].queue /\ kbd'[0].overrun = kbd[0].overrun
  BY <1>1, <1>3 DEF Typed, Queued, Fields
<1>5. Typed'
  BY <1>1, <1>2, <1>4 DEF Typed
<1>6. Works'
  BY <1>1, <1>2 DEF Works
<1>7. Phase(dev[0])'
  BY <1>1, <1>2, SamePhase
<1>8. Backlog(dev[0], kbd[0])'
  BY <1>1, <1>2, <1>4 DEF Backlog
<1>9. Requested(dev[0], kbd[0])'
  BY <1>1, <1>2, <1>4 DEF Requested
<1> QED
  BY <1>5, <1>6, <1>7, <1>8, <1>9 DEF StackInv

-----------------------------------------------------------------------------
(* The invariant.                                                          *)

LEMMA InitStackInv == Init => StackInv
<1> SUFFICES ASSUME Init PROVE StackInv
  OBVIOUS
<1>1. /\ dev[0].working /\ ident[0] \in Keyboards
      /\ behind = 0 /\ served = FALSE /\ declared = FALSE
  BY DEF Init
<1>2. dev \in [{0, 1} ->
         {[working |-> w, notFound |-> FALSE, arrived |-> FALSE,
           echoed |-> FALSE, driver |-> 0, connected |-> -1] : w \in BOOLEAN}]
  BY DEF Init, Devs!Init, Devs!Device, Devs!None
<1>3. PICK w \in BOOLEAN :
         dev[0] = [working |-> w, notFound |-> FALSE, arrived |-> FALSE,
                   echoed |-> FALSE, driver |-> 0, connected |-> -1]
  BY <1>2
<1>4. dev[0] \in DeviceRecord
  <2>1. 0 \in 0..1 /\ -1 \in -1..1 /\ FALSE \in BOOLEAN
    OBVIOUS
  <2> QED
    BY <1>3, <2>1 DEF DeviceRecord
<1>5. dev[0].driver = 0 /\ dev[0].connected = -1 /\ ~dev[0].arrived
  BY <1>3
<1>6. /\ table = <<>> /\ amount = 0 /\ todo = <<TheDriver>>
      /\ pc = <<"start", 0>> /\ next \in {"send", "check"}
      /\ DOMAIN flags = {"working", "notFound", "arrived", "echoed"}
  BY DEF Init, Devs!Init, Devs!Start, TheDriver
<1>7. DOMAIN kbd = {0} /\ Queued(kbd[0]) /\ kbd[0].queue = <<>>
      /\ ~kbd[0].overrun
  <2> DEFINE k == [queue |-> <<>>, overrun |-> FALSE, waiting |-> FALSE,
                   respLen |-> 0, scancodeSet |-> 0, waitingSet |-> FALSE,
                   port |-> <<>>]
  <2>1. kbd = [d \in {0} |-> k]
    BY DEF Init, Kbd!Init
  <2>2. DOMAIN k = Fields /\ k.queue = <<>> /\ ~k.overrun
    BY DEF Fields
  <2>3. <<>> \in Seq(Kbd!Command)
    OBVIOUS
  <2> HIDE DEF k
  <2> QED
    BY <2>1, <2>2, <2>3 DEF Queued
<1>8. Typed
  BY <1>1, <1>2, <1>4, <1>6, <1>7 DEF Typed
<1>9. Phase(dev[0])
  BY <1>1, <1>5, <1>6 DEF Phase, Before, Unserved
<1>10. Backlog(dev[0], kbd[0])
  <2>1. 2 * Len(kbd[0].queue) = 0
    BY <1>7
  <2> QED
    BY <1>1, <1>7, <2>1 DEF Backlog
<1> QED
  BY <1>1, <1>8, <1>9, <1>10 DEF StackInv, Works, Requested

LEMMA SameInv ==
    ASSUME StackInv, UNCHANGED vars
    PROVE  StackInv'
<1>1. UNCHANGED <<dev, ident, table, amount, todo, pc, reg, flags, next, wild,
                  kbd, behind, declared, served>>
  BY DEF vars, devsVars, kbdVars, historyVars
<1>2. Phase(dev[0]) => Phase(dev[0])'
  BY <1>1, SamePhase
<1>3. Typed' /\ Works'
  BY <1>1 DEF StackInv, Typed, Works
<1>4. Backlog(dev[0], kbd[0])' /\ Requested(dev[0], kbd[0])'
  BY <1>1 DEF StackInv, Backlog, Requested
<1> QED
  BY <1>1, <1>2, <1>3, <1>4 DEF StackInv

LEMMA NextStackInv == StackInv /\ [Next]_vars => StackInv'
<1> SUFFICES ASSUME StackInv, [Next]_vars PROVE StackInv'
  OBVIOUS
<1>1. CASE Next
  <2>1. Goes
    BY <1>1 DEF Next, Goes
  <2> QED
    BY <1>1, <2>1, SendStep, CheckStep, IrqStep, MainStep, KeyboardStep
    DEF Next, Outside
<1> QED
  BY <1>1, SameInv

(* What the whole stack goes through, for every value of the constants:    *)
(* searches before the one installation, at every access of it, and after  *)
(* it (ps2.c:562-574), the one that connects the driver, and what has then *)
(* been queued.                                                            *)
THEOREM Invariance == Spec => []StackInv
  BY InitStackInv, NextStackInv, PTL DEF Spec

(* The queue has room (ps2k.c:14): on_connect and the first echo put four  *)
(* commands there, and one more comes with every two callbacks that the    *)
(* keyboard lets pass (ps2.c:193-223, ps2k.c:64-85), so that it takes 27   *)
(* of them to overrun it.                                                   *)
THEOREM QueueFills == Spec => []QueueBounded
<1>1. StackInv => QueueBounded
  <2> SUFFICES ASSUME StackInv PROVE QueueBounded
    OBVIOUS
  <2> DEFINE n == Len(kbd[0].queue)
  <2>1. n \in Nat /\ behind \in Nat
    BY DEF StackInv, Typed, Queued
  <2>2. 2 * n <= 7 + behind /\ (kbd[0].overrun => behind > 26)
    BY <2>1 DEF StackInv, Backlog
  <2> HIDE DEF n
  <2>3. n <= 4 + (behind \div 2)
    BY <2>1, <2>2
  <2> QED
    BY <2>2, <2>3 DEF QueueBounded, n
<1> QED
  BY <1>1, Invariance, PTL

(* A keyboard that has answered everything is not complained of            *)
(* (ps2.c:226-238): its answer to the last request has been declared       *)
(* (ps2k.c:285-295), or what came before made the request unnecessary.     *)
THEOREM NoComplaint == Spec => []NoFalseAlarm
<1>1. StackInv => NoFalseAlarm
  <2> SUFFICES ASSUME StackInv, next = "check", served, kbd[0].queue = <<>>
               PROVE  dev[0].echoed
    BY DEF NoFalseAlarm, Answered, Devs!Complains
  <2>1. ~kbd[0].overrun
    BY DEF StackInv, Backlog
  <2>2. ~\E i \in DOMAIN kbd[0].queue : kbd[0].queue[i] = Kbd!ECHO
    OBVIOUS
  <2> QED
    BY <2>1, <2>2 DEF StackInv, Requested
<1> QED
  BY <1>1, Invariance, PTL

-----------------------------------------------------------------------------
(* What ps2.c does to the driver is what Ps2Keyboard expects.              *)

\* What Ps2Keyboard sees of ps2_devices.
Connected == [d \in {0} |-> dev[d].connected # Devs!None]
EchoFlag == [d \in {0} |-> declared]

LEMMA ConnectedNow ==
    ASSUME dev'[0].connected # -1
    PROVE  Connected' = [Connected EXCEPT ![0] = TRUE]
<1>1. (dev'[0].connected # Devs!None) = TRUE
  BY DEF Devs!None
<1> QED
  BY <1>1 DEF Connected

LEMMA EchoFlagNow ==
    ASSUME NEW e, declared' = e
    PROVE  EchoFlag' = [EchoFlag EXCEPT ![0] = e]
  BY DEF EchoFlag

LEMMA SameFlags ==
    ASSUME dev'[0].connected = dev[0].connected, UNCHANGED declared
    PROVE  UNCHANGED <<Connected, EchoFlag>>
  BY DEF Connected, EchoFlag

\* A step that Ps2Keyboard does not see.
LEMMA Unseen ==
    ASSUME dev'[0].connected = dev[0].connected,
           UNCHANGED declared, UNCHANGED kbdVars
    PROVE  UNCHANGED Kbd!vars
  BY SameFlags DEF Kbd!vars, kbdVars, keyboardVars, Connected, EchoFlag

LEMMA SendMaps ==
    ASSUME Goes, SendEchoCallback
    PROVE  [Kbd!Next]_(Kbd!vars)
<1> DEFINE k == Kbd!Selected(0)
           e == Kbd!QueueCommand(k, Kbd!ECHO)
<1>1. Outcome(Found) /\ Kbd!Intact
  BY SearchOutcome DEF Goes, Running
<1>2. dev'[0].connected = Found.connected
  BY SendDoes
<1>3. /\ kbd' = IF Found.connected = 0
                THEN [kbd EXCEPT ![0] = IF dev[0].arrived THEN k ELSE e]
                ELSE kbd
      /\ declared' = IF Found.connected = 0 THEN dev[0].arrived ELSE declared
      /\ UNCHANGED <<toHost, scanning, expects, owesSet, devSet>>
  BY SendCalls
<1>4. dev[0].arrived \in BOOLEAN
  BY DEF Goes, StackInv, Typed, DeviceRecord
<1>5. CASE Found.connected # 0
  <2>1. dev'[0].connected = dev[0].connected
    BY <1>1, <1>2, <1>5 DEF Outcome
  <2>2. UNCHANGED kbdVars /\ UNCHANGED declared
    BY <1>3, <1>5 DEF kbdVars, keyboardVars
  <2> QED
    BY <2>1, <2>2, Unseen
<1>6. CASE Found.connected = 0
  <2>1. Connected' = [Connected EXCEPT ![0] = TRUE]
    BY <1>2, <1>6, ConnectedNow
  <2>2. EchoFlag' = [EchoFlag EXCEPT ![0] = dev[0].arrived]
    BY <1>3, <1>6, EchoFlagNow
  <2>3. CASE dev[0].arrived
    <3>1. kbd' = [kbd EXCEPT ![0] = k]
      BY <1>3, <1>6, <2>3
    <3>2. EchoFlag' = [EchoFlag EXCEPT ![0] = TRUE]
      BY <1>4, <2>2, <2>3
    <3>3. Kbd!SkipEcho(0)
      BY <1>3, <2>1, <3>1, <3>2, Zenon
         DEF Kbd!SkipEcho, Kbd!deviceVars, Connected, EchoFlag
    <3> QED
      BY <1>1, <3>3 DEF Kbd!Next
  <2>4. CASE ~dev[0].arrived
    <3>1. kbd' = [kbd EXCEPT ![0] = e]
      BY <1>3, <1>6, <2>4
    <3>2. EchoFlag' = [EchoFlag EXCEPT ![0] = FALSE]
      BY <1>4, <2>2, <2>4
    <3>3. Kbd!SendEcho(0)
      BY <1>3, <2>1, <3>1, <3>2, Zenon
         DEF Kbd!SendEcho, Kbd!deviceVars, Connected, EchoFlag
    <3> QED
      BY <1>1, <3>3 DEF Kbd!Next
  <2> QED
    BY <2>3, <2>4
<1> QED
  BY <1>5, <1>6

LEMMA CheckMaps ==
    ASSUME Goes, CheckEchoCallback
    PROVE  UNCHANGED Kbd!vars
<1>1. /\ dev' = [d \in {0, 1} |-> [dev[d] EXCEPT !.arrived = FALSE]]
      /\ UNCHANGED kbdVars /\ UNCHANGED declared
  BY DEF CheckEchoCallback, Devs!CheckEchoCallback, Devs!Device
<1>2. dev'[0] = [dev[0] EXCEPT !.arrived = FALSE] /\ dev[0] \in DeviceRecord
  BY <1>1 DEF Goes, StackInv, Typed
<1>3. dev'[0].connected = dev[0].connected
  BY <1>2 DEF DeviceRecord
<1> QED
  BY <1>1, <1>3, Unseen

LEMMA IrqMaps ==
    ASSUME Goes, DeviceIrq
    PROVE  Kbd!Next
<1> DEFINE k == Kbd!Selected(0)
           b == Head(toHost[0]).val
<1>1. Outcome(Found) /\ Kbd!Intact
  BY SearchOutcome DEF Goes, Running
<1>2. dev'[0].connected = Found.connected
  BY IrqDoes
<1>3. declared' = (declared \/ (Found.connected = 0 /\ Echoes(k, b)))
  BY IrqDoes
<1>4. kbd' = IF Found.connected = 0
             THEN [kbd EXCEPT ![0] =
                IF Kbd!Claims(k, b) THEN Kbd!HandleReceive(k, b) ELSE k]
             ELSE kbd
  BY IrqDoes
<1>5. /\ toHost[0] # <<>> /\ toHost' = [toHost EXCEPT ![0] = Tail(@)]
      /\ UNCHANGED <<scanning, expects, owesSet, devSet>>
  BY DEF DeviceIrq, keyboardVars
<1> HIDE DEF k, b
<1>6. CASE Found.connected # 0
  <2>1. /\ dev'[0].connected = dev[0].connected
        /\ dev[0].connected = -1
    BY <1>1, <1>2, <1>6 DEF Outcome
  <2>2. declared' = declared
    <3>1. declared \in BOOLEAN
      BY DEF Goes, StackInv, Typed
    <3> QED
      BY <1>3, <1>6, <3>1
  <2>3. UNCHANGED <<Connected, EchoFlag>> /\ UNCHANGED kbd
    BY <1>4, <1>6, <2>1, <2>2, SameFlags
  <2>4. ~Connected[0]
    BY <2>1 DEF Connected, Devs!None
  <2>5. Kbd!Unheard(0)
    BY <1>5, <2>3, <2>4, Zenon
       DEF Kbd!Unheard, Kbd!deviceVars, Kbd!driverVars, Connected, EchoFlag
  <2> QED
    BY <1>1, <2>5 DEF Kbd!Next
<1>7. CASE Found.connected = 0
  <2>1. Connected' = [Connected EXCEPT ![0] = TRUE]
    BY <1>2, <1>7, ConnectedNow
  <2>2. declared' = (EchoFlag[0] \/ Echoes(k, b))
    BY <1>3, <1>7 DEF EchoFlag
  <2>3. EchoFlag' = [EchoFlag EXCEPT ![0] = EchoFlag[0] \/ Echoes(k, b)]
    BY <2>2, EchoFlagNow
  <2>4. kbd' = [kbd EXCEPT ![0] =
                  IF Kbd!Claims(k, b) THEN Kbd!HandleReceive(k, b) ELSE k]
    BY <1>4, <1>7
  <2>5. Kbd!Irq(0)
    BY <1>5, <2>1, <2>3, <2>4, Zenon
       DEF Kbd!Irq, Kbd!deviceVars, Connected, EchoFlag, Echoes, k, b
  <2> QED
    BY <1>1, <2>5 DEF Kbd!Next
<1> QED
  BY <1>6, <1>7

LEMMA MainMaps ==
    ASSUME Goes, Main
    PROVE  UNCHANGED Kbd!vars
<1>1. dev[0] \in DeviceRecord /\ DOMAIN dev = {0, 1}
  BY DEF Goes, StackInv, Typed
<1>2. UNCHANGED kbdVars /\ UNCHANGED declared /\ Devs!Main
  BY DEF Main, historyVars
<1>3. CASE UNCHANGED dev
  BY <1>2, <1>3, Unseen
<1>4. CASE \E d \in {0, 1} : dev' = [dev EXCEPT ![d].driver = reg + 1]
  <2>1. dev'[0] = [dev[0] EXCEPT !.driver = reg + 1] \/ dev'[0] = dev[0]
    BY <1>1, <1>4
  <2>2. dev'[0].connected = dev[0].connected
    BY <1>1, <2>1 DEF DeviceRecord
  <2> QED
    BY <1>2, <2>2, Unseen
<1>5. CASE \E d \in {0, 1} : dev' = [dev EXCEPT ![d] =
            [@ EXCEPT !.working = flags.working, !.notFound = FALSE,
                      !.arrived = flags.arrived, !.echoed = flags.echoed]]
  <2>1. \/ dev'[0] = [dev[0] EXCEPT
               !.working = flags.working, !.notFound = FALSE,
               !.arrived = flags.arrived, !.echoed = flags.echoed]
        \/ dev'[0] = dev[0]
    BY <1>1, <1>5
  <2>2. dev'[0].connected = dev[0].connected
    BY <1>1, <2>1 DEF DeviceRecord
  <2> QED
    BY <1>2, <2>2, Unseen
<1>6. \/ UNCHANGED dev
      \/ \E d \in {0, 1} : dev' = [dev EXCEPT ![d].driver = reg + 1]
      \/ \E d \in {0, 1} : dev' = [dev EXCEPT ![d] =
            [@ EXCEPT !.working = flags.working, !.notFound = FALSE,
                      !.arrived = flags.arrived, !.echoed = flags.echoed]]
  BY <1>2, Zenon
  DEF Devs!Main, Devs!Write, Devs!Count, Devs!Compare, Devs!Load,
     Devs!Store, Devs!Fetch, Devs!Clear, Devs!Device
<1> QED
  BY <1>3, <1>4, <1>5, <1>6

(* What ps2.c does to the driver (ps2.c:82-137, 177-238, 562-574), in      *)
(* whatever order callbacks, interrupts and the accesses of the            *)
(* installation come, is a behaviour that Ps2Keyboard allows, up to the    *)
(* call through the empty entry; what Ps2Keyboard_proofs says of those     *)
(* holds under ps2.c.                                                      *)
THEOREM ImplementsKeyboard == Spec => KbdSpec
<1>1. Init => Kbd!Init
  BY DEF Init
<1>2. StackInv /\ [Next]_vars => [Kbd!Next]_(Kbd!vars)
  <2> SUFFICES ASSUME StackInv, [Next]_vars PROVE [Kbd!Next]_(Kbd!vars)
    OBVIOUS
  <2>1. CASE Next
    <3>1. Goes /\ Kbd!Intact
      BY <2>1 DEF Next, Goes, Running
    <3>2. CASE SendEchoCallback
      BY <3>1, <3>2, SendMaps
    <3>3. CASE CheckEchoCallback
      BY <3>1, <3>3, CheckMaps
    <3>4. CASE DeviceIrq
      BY <3>1, <3>4, IrqMaps
    <3>5. CASE Main
      BY <3>1, <3>5, MainMaps
    <3>6. CASE Outside
      BY <3>1, <3>6, Zenon DEF Outside, Execute, TellSet, AskResend, Reject,
         Strike, Kbd!Next
    <3> QED
      BY <2>1, <3>2, <3>3, <3>4, <3>5, <3>6 DEF Next, Outside
  <2>2. CASE UNCHANGED vars
    <3>1. UNCHANGED dev /\ UNCHANGED kbdVars /\ UNCHANGED declared
      BY <2>2 DEF vars, devsVars, historyVars
    <3> QED
      BY <3>1, Unseen
  <2> QED
    BY <2>1, <2>2
<1> QED
  BY <1>1, <1>2, Invariance, PTL DEF Spec, KbdSpec, Kbd!Spec

-----------------------------------------------------------------------------
(* The theorems of Ps2Keyboard_proofs, for the driver under ps2.c.  KP is  *)
(* the same instance of Ps2Keyboard as Kbd; the lemmas say so, definition  *)
(* by definition.                                                          *)

KP == INSTANCE Ps2Keyboard_proofs WITH
    Device <- {0}, Lossy <- FALSE, QueueSize <- 16,
    connected <- [d \in {0} |-> dev[d].connected # Devs!None],
    echo_succeeded <- [d \in {0} |-> declared]

LEMMA SameNames ==
    /\ Kbd!ACK = KP!ACK /\ Kbd!RESEND = KP!RESEND /\ Kbd!ECHOED = KP!ECHOED
    /\ Kbd!ECHO = KP!ECHO /\ Kbd!ENABLE = KP!ENABLE
    /\ Kbd!DISABLE = KP!DISABLE /\ Kbd!GETSET = KP!GETSET
    /\ Kbd!ARGUMENT = KP!ARGUMENT /\ Kbd!Byte = KP!Byte
  BY DEF Kbd!ACK, Kbd!RESEND, Kbd!ECHOED, Kbd!ECHO, Kbd!ENABLE, Kbd!DISABLE,
     Kbd!GETSET, KP!ACK, KP!RESEND, KP!ECHOED, KP!ECHO, KP!ENABLE, KP!DISABLE,
     KP!GETSET, Kbd!ARGUMENT, KP!ARGUMENT, Kbd!Byte, KP!Byte, Kbd!Command,
     KP!Command

LEMMA SameReply == \A b : Kbd!Reply(b) = KP!Reply(b) /\ Kbd!Key(b) = KP!Key(b)
  BY Zenon DEF Kbd!Reply, KP!Reply, Kbd!Key, KP!Key

LEMMA SameBytes == \A c : Kbd!Bytes(c) = KP!Bytes(c)
  BY SameNames, Zenon DEF Kbd!Bytes, KP!Bytes

LEMMA SameSend == \A k : Kbd!Send(k) = KP!Send(k)
  BY SameBytes, Zenon DEF Kbd!Send, KP!Send

LEMMA SameSendCommand == \A k : Kbd!SendCommand(k) = KP!SendCommand(k)
  BY SameSend, Zenon DEF Kbd!SendCommand, KP!SendCommand

LEMMA SameQueueCommand ==
    \A k, c : Kbd!QueueCommand(k, c) = KP!QueueCommand(k, c)
  BY SameSendCommand, Zenon DEF Kbd!QueueCommand, KP!QueueCommand

LEMMA SamePop == \A k : Kbd!Pop(k) = KP!Pop(k)
  BY SameSendCommand, Zenon DEF Kbd!Pop, KP!Pop

LEMMA SameGetSet ==
    \A k : Kbd!QueueGetScancodeSet(k) = KP!QueueGetScancodeSet(k)
  BY SameQueueCommand, SameNames, Zenon
  DEF Kbd!QueueGetScancodeSet, KP!QueueGetScancodeSet

LEMMA SameOnConnect == \A k : Kbd!OnConnect(k) = KP!OnConnect(k)
  BY SameGetSet, Zenon DEF Kbd!OnConnect, KP!OnConnect

LEMMA SameSelected == \A d : Kbd!Selected(d) = KP!Selected(d)
  BY SameOnConnect, Zenon DEF Kbd!Selected, KP!Selected

LEMMA SameFinal == \A c : Kbd!FinalReply(c) = KP!FinalReply(c)
  BY SameNames, Zenon DEF Kbd!FinalReply, KP!FinalReply

LEMMA SameAwaits == \A k : Kbd!AwaitsSet(k) = KP!AwaitsSet(k)
  BY SameNames, Zenon DEF Kbd!AwaitsSet, KP!AwaitsSet

LEMMA SameClaims == \A k, b : Kbd!Claims(k, b) = KP!Claims(k, b)
  BY SameNames, SameAwaits, SameFinal, Zenon DEF Kbd!Claims, KP!Claims

LEMMA SameReceive == \A k, b : Kbd!HandleReceive(k, b) = KP!HandleReceive(k, b)
  BY SameNames, SameAwaits, SamePop, SameSend, Zenon
  DEF Kbd!HandleReceive, KP!HandleReceive

LEMMA SameInit == Kbd!Init <=> KP!Init
  BY DEF Kbd!Init, KP!Init, Kbd!ScancodeSet, KP!ScancodeSet

LEMMA SameTake == \A d : Kbd!Take(d) <=> KP!Take(d)
  BY Zenon DEF Kbd!Take, KP!Take

LEMMA SameAnswer == \A d, b : Kbd!Answer(d, b) <=> KP!Answer(d, b)
  BY SameTake, SameReply, Zenon DEF Kbd!Answer, KP!Answer

LEMMA SameSendEcho == \A d : Kbd!SendEcho(d) <=> KP!SendEcho(d)
  BY SameNames, SameSelected, SameQueueCommand, SMT
  DEF Kbd!SendEcho, KP!SendEcho, Kbd!deviceVars, KP!deviceVars

LEMMA SameSkipEcho == \A d : Kbd!SkipEcho(d) <=> KP!SkipEcho(d)
  BY SameSelected, Zenon
  DEF Kbd!SkipEcho, KP!SkipEcho, Kbd!deviceVars, KP!deviceVars

LEMMA SameUnheard == \A d : Kbd!Unheard(d) <=> KP!Unheard(d)
  BY Zenon DEF Kbd!Unheard, KP!Unheard, Kbd!deviceVars, KP!deviceVars,
     Kbd!driverVars, KP!driverVars

LEMMA SameIrq == \A d : Kbd!Irq(d) <=> KP!Irq(d)
  BY SameNames, SameSelected, SameClaims, SameReceive, Zenon
  DEF Kbd!Irq, KP!Irq, Kbd!deviceVars, KP!deviceVars

LEMMA SameExecute == \A d, c : Kbd!Execute(d, c) <=> KP!Execute(d, c)
  BY SameNames, SameFinal, SameAnswer, Zenon DEF Kbd!Execute, KP!Execute

LEMMA SameKeyboard == \A d :
    /\ Kbd!TellSet(d) <=> KP!TellSet(d)
    /\ Kbd!AskResend(d) <=> KP!AskResend(d)
    /\ Kbd!Reject(d) <=> KP!Reject(d)
    /\ Kbd!Strike(d) <=> KP!Strike(d)
    /\ Kbd!LoseCommand(d) <=> KP!LoseCommand(d)
    /\ Kbd!LoseReply(d) <=> KP!LoseReply(d)
<1> TAKE d
<1>1. Kbd!TellSet(d) <=> KP!TellSet(d)
  BY SameReply, Zenon DEF Kbd!TellSet, KP!TellSet,
     Kbd!driverVars, KP!driverVars
<1>2. Kbd!AskResend(d) <=> KP!AskResend(d)
  BY SameNames, SameAnswer, Zenon DEF Kbd!AskResend, KP!AskResend
<1>3. Kbd!Reject(d) <=> KP!Reject(d)
  BY SameNames, SameAnswer, Zenon DEF Kbd!Reject, KP!Reject
<1>4. Kbd!Strike(d) <=> KP!Strike(d)
  BY SameReply, Zenon
  DEF Kbd!Strike, KP!Strike, Kbd!driverVars, KP!driverVars,
     Kbd!deviceVars, KP!deviceVars
<1>5. Kbd!LoseCommand(d) <=> KP!LoseCommand(d)
  BY Zenon DEF Kbd!LoseCommand, KP!LoseCommand
<1>6. Kbd!LoseReply(d) <=> KP!LoseReply(d)
  BY Zenon DEF Kbd!LoseReply, KP!LoseReply
<1> QED
  BY <1>1, <1>2, <1>3, <1>4, <1>5, <1>6

LEMMA SameNext == Kbd!Next => KP!Next
<1>1. Kbd!Intact => KP!Intact
  BY Zenon DEF Kbd!Intact, KP!Intact
<1>2. \A d :
         \/ Kbd!SendEcho(d) \/ Kbd!SkipEcho(d) \/ Kbd!Irq(d) \/ Kbd!Unheard(d)
         \/ (\E c \in Kbd!Byte : Kbd!Execute(d, c)) \/ Kbd!TellSet(d)
         \/ Kbd!AskResend(d) \/ Kbd!Reject(d) \/ Kbd!Strike(d)
         \/ Kbd!LoseCommand(d) \/ Kbd!LoseReply(d)
       =>
         \/ KP!SendEcho(d) \/ KP!SkipEcho(d) \/ KP!Irq(d) \/ KP!Unheard(d)
         \/ (\E c \in KP!Byte : KP!Execute(d, c)) \/ KP!TellSet(d)
         \/ KP!AskResend(d) \/ KP!Reject(d) \/ KP!Strike(d)
         \/ KP!LoseCommand(d) \/ KP!LoseReply(d)
  <2> TAKE d
  <2>1. (\E c \in Kbd!Byte : Kbd!Execute(d, c))
           => \E c \in KP!Byte : KP!Execute(d, c)
    BY SameExecute, SameNames, Zenon
  <2> QED
    BY <2>1, SameSendEcho, SameSkipEcho, SameUnheard, SameIrq, SameKeyboard,
       Zenon
<1> QED
  BY <1>1, <1>2, Zenon DEF Kbd!Next, KP!Next

LEMMA SameSpec == Kbd!Spec => KP!Spec
<1>1. [Kbd!Next]_(Kbd!vars) => [KP!Next]_(KP!vars)
  <2>1. UNCHANGED Kbd!vars => UNCHANGED KP!vars
    BY Zenon DEF Kbd!vars, KP!vars
  <2> QED
    BY SameNext, <2>1
<1> QED
  BY SameInit, <1>1, PTL DEF Kbd!Spec, KP!Spec

LEMMA SameProps ==
    /\ KP!StopAndWait => Kbd!StopAndWait
    /\ KP!KeysReachParser => Kbd!KeysReachParser
    /\ KP!ParsedInItsSet => Kbd!ParsedInItsSet
    /\ KP!RepliesReachCommand => Kbd!RepliesReachCommand
    /\ KP!ScancodeSetLearned => Kbd!ScancodeSetLearned
<1>1. KP!StopAndWait => Kbd!StopAndWait
  BY SameBytes, Zenon
  DEF KP!StopAndWait, Kbd!StopAndWait, KP!Replies, Kbd!Replies,
      Kbd!RepliesOn, KP!RepliesOn
<1>2. KP!KeysReachParser => Kbd!KeysReachParser
  BY SameClaims, SameSelected, Zenon
  DEF KP!KeysReachParser, Kbd!KeysReachParser
<1>3. KP!ParsedInItsSet => Kbd!ParsedInItsSet
  BY Zenon DEF KP!ParsedInItsSet, Kbd!ParsedInItsSet
<1>4. KP!RepliesReachCommand => Kbd!RepliesReachCommand
  BY SameClaims, SameSelected, Zenon
  DEF KP!RepliesReachCommand, Kbd!RepliesReachCommand
<1>5. KP!ScancodeSetLearned => Kbd!ScancodeSetLearned
  BY Zenon DEF KP!ScancodeSetLearned, Kbd!ScancodeSetLearned
<1> QED
  BY <1>1, <1>2, <1>3, <1>4, <1>5

LEMMA Assumptions == KP!KeyByteAssumption /\ KP!BoundAssumption
  BY StackAssumption
  DEF KP!KeyByteAssumption, KP!BoundAssumption, KP!ACK, KP!RESEND, KP!ECHOED

(* Under ps2.c, whatever order its callbacks, interrupts and the accesses   *)
(* of the installation come in, and whatever keyboard answers the bytes of *)
(* the query: no key is taken for an answer (ps2k.c:272-278), and keys are  *)
(* parsed only if the keyboard uses set 2 (ps2k.c:248-249).                 *)
THEOREM KeysUnderPs2 ==
    Spec => [](Kbd!KeysReachParser /\ Kbd!ParsedInItsSet)
<1>1. Spec => Kbd!Spec
  BY ImplementsKeyboard DEF KbdSpec
<1>2. KP!Spec => [](KP!KeysReachParser /\ KP!ParsedInItsSet)
  BY Assumptions, KP!KeysAreParsed, KP!ParsedInSet, PTL
<1> QED
  BY <1>1, <1>2, SameSpec, SameProps, PTL

(* If moreover the keyboard answers only the last of the bytes that it is   *)
(* sent at once: one command at a time (ps2k.c:316-359), no answer taken    *)
(* for a key, and the keyboard's scancode set learned (ps2k.c:453-456).     *)
THEOREM DriverUnderPs2 ==
    ~Prompt => (Spec => [](/\ StopAndWait
                           /\ RepliesReachCommand
                           /\ Kbd!ScancodeSetLearned))
<1> SUFFICES ASSUME ~Prompt
             PROVE  Spec => [](/\ Kbd!StopAndWait
                               /\ Kbd!RepliesReachCommand
                               /\ Kbd!ScancodeSetLearned)
  BY DEF StopAndWait, RepliesReachCommand
<1>1. Spec => Kbd!Spec
  BY ImplementsKeyboard DEF KbdSpec
<1>2. ~Prompt => (KP!Spec => []KP!StopAndWait)
  BY Assumptions, KP!OneAtATime
<1>3. ~Prompt => (KP!Spec => []KP!ScancodeSetLearned)
  BY Assumptions, KP!RightSet
<1>4. ~Prompt /\ ~FALSE => (KP!Spec => []KP!RepliesReachCommand)
  BY Assumptions, KP!AllAnswersClaimed
<1> QED
  BY <1>1, <1>2, <1>3, <1>4, SameSpec, SameProps, PTL

-----------------------------------------------------------------------------
(* The driver does nothing that Ps2Devices does not leave open to it.  DP  *)
(* is the same instance of Ps2Devices as Devs.                             *)

DP == INSTANCE Ps2Devices_proofs WITH
    Ident <- Keyboards \cup {Mouse},
    Installs <- <<[long |-> FALSE, id |-> <<171, 0>>]>>,
    MaxDrivers <- 256, Interrupting <- {0}, Fallible <- FALSE

LEMMA Parameters == DP!ParameterAssumption
  BY DEF DP!ParameterAssumption, DP!Identity, DP!Byte, DP!Device,
     Keyboards, Mouse

LEMMA SameMin == \A S : Devs!Min(S) = DP!Min(S)
  BY Zenon DEF Devs!Min, DP!Min

LEMMA SameIndexOf == \A id : Devs!FindIndex(id) = DP!FindIndex(id)
  BY SameMin, Zenon DEF Devs!FindIndex, DP!FindIndex

LEMMA SameDevice == Devs!Device = DP!Device /\ Devs!None = DP!None
                    /\ Devs!Answers = DP!Answers /\ Devs!Start = DP!Start
  BY DEF Devs!Device, DP!Device, Devs!None, DP!None, Devs!Answers, DP!Answers,
     Devs!Start, DP!Start

LEMMA SameFind == \A d, ok : Devs!FindDriver(d, ok) = DP!FindDriver(d, ok)
  BY SameIndexOf, Zenon DEF Devs!FindDriver, DP!FindDriver

LEMMA SameNoEntry == \A r : Devs!NoEntry(r) <=> DP!NoEntry(r)
  BY Zenon DEF Devs!NoEntry, DP!NoEntry

LEMMA SameEcho == \A d, ok : Devs!SendEcho(d, ok) = DP!SendEcho(d, ok)
  BY SameFind, Zenon DEF Devs!SendEcho, DP!SendEcho

LEMMA SameMoved == \A d : Devs!Moved(d) <=> DP!Moved(d)
  BY Zenon DEF Devs!Moved, DP!Moved, Devs!Bumped, DP!Bumped

LEMMA SameCallbacks ==
    /\ Devs!SendEchoCallback => DP!SendEchoCallback
    /\ Devs!CheckEchoCallback => DP!CheckEchoCallback
<1>1. Devs!SendEchoCallback => DP!SendEchoCallback
  BY SameFind, SameNoEntry, SameEcho, SameDevice, Zenon
  DEF Devs!SendEchoCallback, DP!SendEchoCallback, Devs!mainVars, DP!mainVars
<1>2. Devs!CheckEchoCallback => DP!CheckEchoCallback
  BY SameDevice, Zenon
  DEF Devs!CheckEchoCallback, DP!CheckEchoCallback, Devs!mainVars, DP!mainVars
<1> QED
  BY <1>1, <1>2

LEMMA SameDeviceIrq == \A d : Devs!DeviceIrq(d) => DP!DeviceIrq(d)
<1> SUFFICES ASSUME NEW d, Devs!DeviceIrq(d) PROVE DP!DeviceIrq(d)
  OBVIOUS
<1> DEFINE r(ok) == [Devs!FindDriver(d, ok) EXCEPT !.arrived = TRUE]
           s(ok) == [DP!FindDriver(d, ok) EXCEPT !.arrived = TRUE]
<1>1. \A ok : r(ok) = s(ok)
  BY SameFind, Zenon
<1>2. PICK ok \in Devs!Answers, alive \in Devs!Answers, echo \in BOOLEAN :
         IF r(ok).notFound
         THEN dev' = [dev EXCEPT ![d] = r(ok)] /\ UNCHANGED wild
         ELSE /\ wild' = Devs!NoEntry(r(ok))
              /\ dev' = [dev EXCEPT ![d] =
                    [r(ok) EXCEPT !.echoed = @ \/ echo,
                                  !.working = @ /\ alive]]
  BY Zenon DEF Devs!DeviceIrq
<1>3. IF s(ok).notFound
      THEN dev' = [dev EXCEPT ![d] = s(ok)] /\ UNCHANGED wild
      ELSE /\ wild' = DP!NoEntry(s(ok))
           /\ dev' = [dev EXCEPT ![d] =
                 [s(ok) EXCEPT !.echoed = @ \/ echo,
                               !.working = @ /\ alive]]
  <2> HIDE DEF r, s
  <2>1. Devs!NoEntry(r(ok)) = DP!NoEntry(s(ok))
    BY <1>1, Zenon DEF Devs!NoEntry, DP!NoEntry
  <2> QED
    BY <1>1, <1>2, <2>1, Zenon
<1>4. ok \in DP!Answers /\ alive \in DP!Answers
  BY SameDevice
<1>5. /\ ~wild /\ d \notin silent /\ dev[d].working
      /\ UNCHANGED <<DP!mainVars, ident, next, silent>>
  BY Zenon DEF Devs!DeviceIrq, Devs!mainVars, DP!mainVars
<1> QED
  <2> DEFINE Handled(o, a, e) ==
                IF s(o).notFound
                THEN dev' = [dev EXCEPT ![d] = s(o)] /\ UNCHANGED wild
                ELSE /\ wild' = DP!NoEntry(s(o))
                     /\ dev' = [dev EXCEPT ![d] =
                           [s(o) EXCEPT !.echoed = @ \/ e, !.working = @ /\ a]]
  <2>1. \E o, a \in DP!Answers, e \in BOOLEAN : Handled(o, a, e)
    <3>1. Handled(ok, alive, echo)
      BY <1>3, Zenon
    <3> HIDE DEF Handled
    <3> QED
      BY <1>4, <3>1
  <2> QED
    BY <1>5, <2>1, Zenon DEF DP!DeviceIrq

LEMMA SameFall == \A d : Devs!FallSilent(d) => DP!FallSilent(d)
  BY Zenon
  DEF Devs!FallSilent, DP!FallSilent, Devs!mainVars, DP!mainVars

LEMMA SameMain == Devs!Main => DP!Main
<1>1. Devs!Write => DP!Write
  BY SameDevice, Zenon
  DEF Devs!Write, DP!Write, Devs!interruptVars, DP!interruptVars
<1>2. Devs!Count => DP!Count
  BY Zenon DEF Devs!Count, DP!Count, Devs!interruptVars, DP!interruptVars
<1>3. \A d : Devs!Compared(d) = DP!Compared(d)
  BY Zenon DEF Devs!Compared, DP!Compared
<1>4. \A d : Devs!Compare(d) => DP!Compare(d)
  BY <1>3, Zenon
  DEF Devs!Compare, DP!Compare, Devs!interruptVars, DP!interruptVars
<1>5. \A d : Devs!Load(d) => DP!Load(d)
  BY Zenon DEF Devs!Load, DP!Load, Devs!interruptVars, DP!interruptVars
<1>6. \A d : Devs!Store(d) => DP!Store(d)
  BY <1>3, Zenon DEF Devs!Store, DP!Store, Devs!interruptVars, DP!interruptVars
<1>7. \A d : Devs!Fetch(d) => DP!Fetch(d)
  BY Zenon DEF Devs!Fetch, DP!Fetch, Devs!interruptVars, DP!interruptVars
<1>8. \A d : Devs!Clear(d) => DP!Clear(d)
  BY SameDevice, Zenon
  DEF Devs!Clear, DP!Clear, Devs!interruptVars, DP!interruptVars
<1> QED
  BY <1>1, <1>2, <1>4, <1>5, <1>6, <1>7, <1>8, SameDevice, Zenon
  DEF Devs!Main, DP!Main

LEMMA SameDevsNext == [Devs!Next]_(Devs!vars) => [DP!Next]_(DP!vars)
<1>1. Devs!Next => DP!Next
  BY SameMain, SameCallbacks, SameDeviceIrq, SameFall, SameDevice, Zenon
  DEF Devs!Next, DP!Next
<1>2. UNCHANGED Devs!vars => UNCHANGED DP!vars
  BY Zenon DEF Devs!vars, DP!vars
<1> QED
  BY <1>1, <1>2

LEMMA SameDevsInit == Devs!Init => DP!Init
  BY SameDevice, Zenon DEF Devs!Init, DP!Init

\* Only the keyboard interrupts, and the manager is as Ps2Devices_proofs says.
Managed == StackInv /\ DP!DevicesInv /\ silent = {1}

\* An interrupt of the keyboard is one that Ps2Devices has.
LEMMA IrqManaged ==
    ASSUME Managed, Running, DeviceIrq
    PROVE  Devs!DeviceIrq(0)
<1> DEFINE k == Kbd!Selected(0)
           b == Head(toHost[0]).val
           r == [Found EXCEPT !.arrived = TRUE]
           claimed == Called(r) /\ Kbd!Claims(k, b)
           echo == claimed /\ Head(k.queue) = Kbd!ECHO /\ b = Kbd!ECHOED
<1>1. Goes /\ wild = FALSE /\ 0 \notin silent /\ dev[0].working
  BY DEF Managed, Goes, Running, DP!DevicesInv, DP!TypeOK, StackInv, Works
<1>2. Found \in DeviceRecord /\ Outcome(Found)
  BY <1>1, SearchOutcome DEF Outcome
<1>3. /\ dev' = [dev EXCEPT ![0] = [r EXCEPT !.echoed = @ \/ echo]]
      /\ UNCHANGED <<ident, table, amount, todo, pc, reg, flags, next, silent>>
      /\ wild' = (~r.notFound /\ Devs!NoEntry(r))
  BY Zenon DEF DeviceIrq, Found
<1>4. echo \in BOOLEAN /\ Devs!NoEntry(r) \in BOOLEAN
  <2>1. echo \in BOOLEAN
    BY Zenon DEF Kbd!Claims, Called
  <2> HIDE DEF r, echo
  <2>2. Devs!NoEntry(r) \in BOOLEAN
    BY DEF Devs!NoEntry
  <2> QED
    BY <2>1, <2>2
<1>5. ~r.notFound => wild' = Devs!NoEntry(r)
  <2> HIDE DEF r
  <2> QED
    BY <1>3, <1>4
<1>6. r.notFound => wild' = wild /\ [r EXCEPT !.echoed = @ \/ echo] = r
  <2> SUFFICES ASSUME r.notFound
               PROVE  wild' = wild /\ [r EXCEPT !.echoed = @ \/ echo] = r
    OBVIOUS
  <2>1. r \in DeviceRecord
    BY <1>2 DEF DeviceRecord
  <2>2. echo = FALSE
    BY DEF Called
  <2> HIDE DEF r, echo
  <2>3. (r.echoed \/ echo) = r.echoed
    BY <2>1, <2>2 DEF DeviceRecord
  <2>4. wild' = wild
    BY <1>1, <1>3
  <2> QED
    BY <2>1, <2>3, <2>4 DEF DeviceRecord
<1>7. [r EXCEPT !.echoed = @ \/ echo] =
         [r EXCEPT !.echoed = @ \/ echo, !.working = @ /\ TRUE]
  <2>1. r \in DeviceRecord
    BY <1>2 DEF DeviceRecord
  <2> HIDE DEF r, echo
  <2>2. (r.working /\ TRUE) = r.working
    BY <2>1 DEF DeviceRecord
  <2> QED
    BY <2>1, <2>2 DEF DeviceRecord
<1>8. TRUE \in Devs!Answers
  BY DEF Devs!Answers
<1> DEFINE Handled(o, a, e) ==
       LET s == [Devs!FindDriver(0, o) EXCEPT !.arrived = TRUE]
       IN  IF s.notFound
           THEN dev' = [dev EXCEPT ![0] = s] /\ UNCHANGED wild
           ELSE /\ wild' = Devs!NoEntry(s)
                /\ dev' = [dev EXCEPT ![0] =
                      [s EXCEPT !.echoed = @ \/ e, !.working = @ /\ a]]
<1>9. Handled(TRUE, TRUE, echo)
  <2>1. r = [Devs!FindDriver(0, TRUE) EXCEPT !.arrived = TRUE]
    BY Zenon DEF Found
  <2>2. r.notFound => dev' = [dev EXCEPT ![0] = r] /\ UNCHANGED wild
    BY <1>3, <1>6
  <2>3. ~r.notFound =>
           /\ wild' = Devs!NoEntry(r)
           /\ dev' = [dev EXCEPT ![0] =
                 [r EXCEPT !.echoed = @ \/ echo, !.working = @ /\ TRUE]]
    BY <1>3, <1>5, <1>7, Zenon
  <2> HIDE DEF r, echo
  <2> QED
    BY <2>1, <2>2, <2>3, Zenon
<1>10. \E o, a \in Devs!Answers, e \in BOOLEAN : Handled(o, a, e)
  <2> HIDE DEF Handled, echo
  <2> QED
    BY <1>4, <1>8, <1>9
<1> QED
  BY <1>1, <1>3, <1>10, Zenon DEF Devs!DeviceIrq, Devs!mainVars

LEMMA StepManaged ==
    ASSUME Managed, [Next]_vars
    PROVE  [Devs!Next]_(Devs!vars) /\ silent' = {1}
<1>1. CASE SendEchoCallback
  BY <1>1 DEF SendEchoCallback, Devs!SendEchoCallback, Devs!Next, Managed
<1>2. CASE CheckEchoCallback
  BY <1>2 DEF CheckEchoCallback, Devs!CheckEchoCallback, Devs!Next, Managed
<1>3. CASE Running /\ DeviceIrq
  BY <1>3, IrqManaged DEF DeviceIrq, Devs!Next, Devs!Device, Managed
<1>4. CASE Main
  <2>1. UNCHANGED silent
    BY <1>4, Zenon DEF Main, Devs!Main, Devs!Write, Devs!Count, Devs!Compare,
       Devs!Load, Devs!Store, Devs!Fetch, Devs!Clear, Devs!interruptVars
  <2> QED
    BY <1>4, <2>1 DEF Main, Devs!Next, Managed
<1>5. CASE Outside \/ UNCHANGED vars
  <2>1. UNCHANGED devsVars
    BY <1>5 DEF Outside, Execute, TellSet, AskResend, Reject, Strike,
       Elsewhere, vars
  <2> QED
    BY <2>1 DEF devsVars, Devs!vars, Managed
<1> QED
  BY <1>1, <1>2, <1>3, <1>4, <1>5 DEF Next, Outside

LEMMA AlwaysManaged == Spec => []Managed
<1>1. Init => Managed
  <2> SUFFICES ASSUME Init PROVE Managed
    OBVIOUS
  <2>1. DP!DevicesInv
    BY Parameters, DP!DevicesInit, SameDevsInit DEF Init
  <2>2. silent = {1}
    BY DEF Init, Devs!Init, Devs!Device
  <2> QED
    BY <2>1, <2>2, InitStackInv DEF Managed
<1>2. Managed /\ [Next]_vars => Managed'
  <2> SUFFICES ASSUME Managed, [Next]_vars PROVE Managed'
    OBVIOUS
  <2>1. [DP!Next]_(DP!vars) /\ silent' = {1}
    BY StepManaged, SameDevsNext
  <2>2. DP!DevicesInv'
    BY <2>1, Parameters, DP!DevicesStep DEF Managed
  <2> QED
    BY <2>1, <2>2, NextStackInv DEF Managed
<1> QED
  BY <1>1, <1>2, PTL DEF Spec

\* The steps of Ps2Devices, without its fairness.
DevsSteps == Devs!Init /\ [][Devs!Next]_(Devs!vars)

(* What ps2k.c does with the calls of ps2.c (ps2k.c:64-103, 267-295) is    *)
(* what Ps2Devices leaves open to a driver: it changes nothing of the      *)
(* manager's but the echo flag, and that with an answer to a request.      *)
THEOREM ImplementsDevices == Spec => DevsSteps
<1>1. Init => Devs!Init
  BY DEF Init
<1>2. Managed /\ [Next]_vars => [Devs!Next]_(Devs!vars)
  BY StepManaged
<1> QED
  BY <1>1, <1>2, AlwaysManaged, PTL DEF Spec, DevsSteps

(* With the keyboard driver, in whatever order searches and the accesses   *)
(* of its installation (ps2.c:562-574) come: an interrupt searches, or      *)
(* calls the driver that was connected, except between the increments of a *)
(* driver and of the amount, and no stale flag leaves the keyboard without  *)
(* a driver.                                                               *)
THEOREM ManagerWithKeyboard ==
    Spec => [](Devs!CallsConnected /\ Devs!NotFoundJustified)
<1>0. DP!OneDriver
  BY DEF DP!OneDriver
<1>1. Managed => DP!CallsConnected /\ DP!NotFoundJustified
  BY <1>0, Parameters, DP!ConnectedInv
  DEF Managed, DP!DevicesInv, DP!NotFoundJustified, DP!Justified, DP!Cleared
<1>2. DP!CallsConnected => Devs!CallsConnected
  BY SameDevice, SameMoved, Zenon DEF DP!CallsConnected, Devs!CallsConnected
<1>3. DP!NotFoundJustified => Devs!NotFoundJustified
  BY SameDevice, SameIndexOf, Zenon
  DEF DP!NotFoundJustified, Devs!NotFoundJustified
<1> QED
  BY <1>1, <1>2, <1>3, AlwaysManaged, PTL

(* The call through the empty entry comes in that window only, and for a    *)
(* device that no search before it has marked.                             *)
THEOREM TameWithKeyboard == Spec => Devs!WildOnlyMoved
<1> DEFINE Tame == wild' => wild \/ \E d \in Devs!Device :
                                       Devs!Moved(d) /\ ~dev[d].notFound
<1>1. Managed /\ [Next]_vars => [Tame]_(Devs!vars)
  <2> SUFFICES ASSUME Managed, [Next]_vars PROVE Tame
    OBVIOUS
  <2>1. [DP!Next]_(DP!vars) /\ DP!DevicesInv
    BY StepManaged, SameDevsNext DEF Managed
  <2>2. DP!Tame
    BY <2>1, Parameters, DP!TameStep
  <2> QED
    BY <2>2, SameMoved, SameDevice, Zenon DEF DP!Tame
<1> QED
  BY <1>1, AlwaysManaged, PTL DEF Spec, Devs!WildOnlyMoved

=============================================================================
