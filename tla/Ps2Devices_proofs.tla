-------------------------- MODULE Ps2Devices_proofs --------------------------
(***************************************************************************)
(* The device manager, for every sequence of drivers, all identities and   *)
(* interrupts between any two accesses of an installation.  The argument   *)
(* is DevicesInv: the number a device's driver has may be ahead of the     *)
(* amount in one window only, and a not-found flag set by a search that    *)
(* did not see the new entry is yet to be cleared.  The driver called is   *)
(* the one connected (ConnectedCalls) if main installs at most one, as     *)
(* kmain does; with two it need not be, in that same window.               *)
(***************************************************************************)
EXTENDS Ps2Devices, WellFoundedInduction, SequenceTheorems, TLAPS

\* main is behind the write of the entry and not yet behind the increment.
Counting ==
    pc \in {<<"compare", 0>>, <<"load", 0>>, <<"store", 0>>,
            <<"compare", 1>>, <<"load", 1>>, <<"store", 1>>, <<"count", 0>>}

\* The table has the entry that main is about to count.
Room ==
    /\ Len(table) = IF Counting THEN amount + 1 ELSE amount
    /\ Len(table) + Len(todo) <= Len(Installs)

\* The driver of a device is counted already, if main has not just moved it;
\* the number loaded is that of an entry already written.
Assigned ==
    /\ \A d \in Device : dev[d].driver <= amount \/ Moved(d)
    /\ \A d \in Device : pc = <<"store", d>> => reg <= amount

\* With one driver to install, a driver that is counted has been connected:
\* while main counts it, a search finds nothing.
OneDriver == Len(Installs) <= 1
Connected ==
    OneDriver => \A d \in Device :
        /\ dev[d].driver >= amount \/ dev[d].connected = dev[d].driver
        /\ Bumped(d) => dev[d].driver > amount

\* Where main has cleared the flag, it says what the table says now.
Cleared(d) ==
    \/ pc = Start
    \/ d = 0 /\ pc \in {<<"fetch", 1>>, <<"clear", 1>>}

Justified ==
    \A d \in Device :
        Cleared(d) /\ dev[d].notFound => FindIndex(ident[d]) = amount

DevicesInv ==
    TypeOK /\ Room /\ Assigned /\ Connected /\ Justified

-----------------------------------------------------------------------------
(* The search.                                                             *)

LEMMA MinIn ==
    ASSUME NEW S, S \subseteq Nat, S # {}
    PROVE  Min(S) \in S
<1> DEFINE R == OpToRel(<, Nat)
<1>1. \A x, y \in Nat : x < y => <<x, y>> \in R
  BY DEF OpToRel
<1>2. IsWellFoundedOn(R, Nat)
  BY NatLessThanWellFounded
<1> HIDE DEF R
<1>3. PICK x \in S : \A y \in S : ~(<<y, x>> \in R)
  BY <1>2, WFMin, Zenon
<1>4. \A y \in S : x <= y
  <2> TAKE y \in S
  <2>1. x \in Nat /\ y \in Nat
    OBVIOUS
  <2>2. ~(y < x)
    BY <1>1, <1>3, <2>1, Zenon
  <2> QED
    BY <2>1, <2>2
<1> QED
  BY <1>4 DEF Min

LEMMA FindIndexType ==
    ASSUME amount \in Nat, NEW id
    PROVE  FindIndex(id) \in 0..amount
<1> DEFINE exact == {i \in 0..amount - 1 :
               id.long /\ table[i + 1].long /\ table[i + 1].id = id.id}
           partial == {i \in 0..amount - 1 : table[i + 1].id[1] = id.id[1]}
<1>1. FindIndex(id) = IF exact # {} THEN Min(exact)
                      ELSE IF partial # {} THEN Min(partial) ELSE amount
  BY Zenon DEF FindIndex
<1>2. exact \subseteq 0..amount - 1 /\ partial \subseteq 0..amount - 1
  OBVIOUS
<1> HIDE DEF exact, partial
<1>3. 0..amount - 1 \subseteq Nat /\ 0..amount - 1 \subseteq 0..amount
  OBVIOUS
<1>4. exact # {} => Min(exact) \in exact
  BY <1>2, <1>3, MinIn
<1>5. partial # {} => Min(partial) \in partial
  BY <1>2, <1>3, MinIn
<1>6. CASE exact # {}
  BY <1>1, <1>2, <1>3, <1>4, <1>6
<1>7. CASE exact = {} /\ partial # {}
  BY <1>1, <1>2, <1>3, <1>5, <1>7
<1>8. CASE exact = {} /\ partial = {}
  BY <1>1, <1>8
<1> QED
  BY <1>6, <1>7, <1>8

LEMMA SameIndex ==
    ASSUME UNCHANGED <<table, amount, ident>>, NEW d \in Device
    PROVE  FindIndex(ident[d])' = FindIndex(ident[d])
  BY Zenon DEF FindIndex

\* The three outcomes of ps2_device_find_driver.
LEMMA FindDriverCases ==
    ASSUME TypeOK, NEW d \in Device, NEW ok \in BOOLEAN
    PROVE  \/ /\ FindDriver(d, ok) = dev[d]
              /\ dev[d].notFound \/ dev[d].driver # amount
           \/ /\ FindDriver(d, ok) = [dev[d] EXCEPT !.notFound = TRUE]
              /\ dev[d].driver = amount /\ FindIndex(ident[d]) = amount
           \/ \E i \in 0..amount - 1 :
                 /\ ~dev[d].notFound /\ dev[d].driver = amount
                 /\ FindDriver(d, ok) =
                       [dev[d] EXCEPT !.driver = i, !.connected = i,
                                      !.working = ok]
<1> DEFINE r == dev[d]
           i == FindIndex(ident[d])
<1>1. r.notFound \in BOOLEAN
  BY DEF TypeOK, DeviceRecord
<1>2. i \in 0..amount /\ amount \in Nat
  BY FindIndexType DEF TypeOK
<1>3. FindDriver(d, ok) =
        CASE r.notFound \/ r.driver # amount -> r
          [] ~r.notFound /\ r.driver = amount /\ i = amount ->
               [r EXCEPT !.notFound = TRUE]
          [] OTHER ->
               [r EXCEPT !.driver = i, !.connected = i, !.working = ok]
  BY Zenon DEF FindDriver
<1> HIDE DEF r, i
<1>4. CASE r.notFound \/ r.driver # amount
  BY <1>3, <1>4 DEF r
<1>5. CASE ~r.notFound /\ r.driver = amount /\ i = amount
  BY <1>3, <1>5 DEF r, i
<1>6. CASE ~r.notFound /\ r.driver = amount /\ i # amount
  <2>1. i \in 0..amount - 1
    BY <1>2, <1>6
  <2>2. FindDriver(d, ok) =
            [r EXCEPT !.driver = i, !.connected = i, !.working = ok]
    BY <1>3, <1>6
  <2> QED
    BY <1>6, <2>1, <2>2 DEF r
<1> QED
  BY <1>1, <1>4, <1>5, <1>6

-----------------------------------------------------------------------------
(* The interrupts.                                                         *)

\* What an interrupt may make of a device's record.
Kept(d, r) ==
    /\ r \in DeviceRecord
    /\ r.working => dev[d].working
    /\ r.notFound => dev[d].notFound \/ FindIndex(ident[d]) = amount
    /\ \/ r.driver = dev[d].driver /\ r.connected = dev[d].connected
       \/ r.connected = r.driver /\ r.driver < amount

LEMMA FindDriverKeeps ==
    ASSUME DevicesInv, NEW d \in Device, NEW ok \in BOOLEAN, dev[d].working
    PROVE  /\ Kept(d, FindDriver(d, ok))
           /\ ~FindDriver(d, ok).notFound /\ NoEntry(FindDriver(d, ok)) =>
                 Moved(d) /\ ~dev[d].notFound
<1> DEFINE r == FindDriver(d, ok)
<1>1. dev[d] \in DeviceRecord /\ amount \in 0..Len(Installs) /\ TypeOK
  BY DEF DevicesInv, TypeOK
<1>2. Len(table) \in Nat /\ Len(table) >= amount /\ amount \in Nat
  BY <1>1 DEF DevicesInv, TypeOK, Room
<1>3. \/ r = dev[d] /\ (dev[d].notFound \/ dev[d].driver # amount)
      \/ /\ r = [dev[d] EXCEPT !.notFound = TRUE]
         /\ FindIndex(ident[d]) = amount
      \/ \E i \in 0..amount - 1 :
            /\ ~dev[d].notFound
            /\ r = [dev[d] EXCEPT !.driver = i, !.connected = i, !.working = ok]
  BY <1>1, FindDriverCases
<1> DEFINE Tame == ~r.notFound /\ NoEntry(r) => Moved(d) /\ ~dev[d].notFound
<1> SUFFICES Kept(d, r) /\ Tame
  OBVIOUS
<1> HIDE DEF r
<1>4. CASE r = dev[d] /\ (dev[d].notFound \/ dev[d].driver # amount)
  <2>1. Kept(d, r)
    BY <1>1, <1>4 DEF Kept
  <2>2. dev[d].driver \in Int
    BY <1>1 DEF DeviceRecord
  <2>3. ASSUME ~r.notFound, NoEntry(r)
        PROVE  Moved(d) /\ ~dev[d].notFound
    <3>1. dev[d].driver # amount /\ dev[d].driver >= Len(table)
      BY <1>4, <2>3 DEF NoEntry
    <3>2. ~(dev[d].driver <= amount)
      BY <1>2, <2>2, <3>1
    <3> QED
      BY <1>4, <2>3, <3>2 DEF DevicesInv, Assigned
  <2> QED
    BY <2>1, <2>3
<1>5. CASE /\ r = [dev[d] EXCEPT !.notFound = TRUE]
           /\ FindIndex(ident[d]) = amount
  <2>1. r \in DeviceRecord
    BY <1>1, <1>5 DEF DeviceRecord
  <2>2. /\ r.notFound /\ r.working = dev[d].working
        /\ r.driver = dev[d].driver /\ r.connected = dev[d].connected
    BY <1>1, <1>5 DEF DeviceRecord
  <2> QED
    BY <1>5, <2>1, <2>2 DEF Kept
<1>6. ASSUME NEW i \in 0..amount - 1, ~dev[d].notFound,
             r = [dev[d] EXCEPT !.driver = i, !.connected = i, !.working = ok]
      PROVE  Kept(d, r) /\ Tame
  <2>1. i \in 0..Len(Installs) /\ i \in None..Len(Installs) /\ i < amount
    BY <1>1, <1>2 DEF None
  <2>2. r \in DeviceRecord
    BY <1>1, <1>6, <2>1 DEF DeviceRecord
  <2>3. r.driver = i /\ r.connected = i /\ ~r.notFound
    BY <1>1, <1>6 DEF DeviceRecord
  <2> QED
    BY <1>2, <1>6, <2>1, <2>2, <2>3 DEF Kept, NoEntry
<1> QED
  BY <1>3, <1>4, <1>5, <1>6

LEMMA Numbers ==
    ASSUME DevicesInv
    PROVE  /\ amount \in Nat /\ reg \in Nat /\ Len(table) \in Nat
           /\ Len(todo) \in Nat /\ Len(Installs) \in Nat
           /\ \A d \in Device : dev[d].driver \in Nat /\ dev[d] \in DeviceRecord
  BY ParameterAssumption DEF DevicesInv, TypeOK, DeviceRecord

LEMMA OneCounted ==
    ASSUME DevicesInv, OneDriver, Counting
    PROVE  amount = 0
  BY Numbers DEF DevicesInv, Room, OneDriver

\* An interrupt that keeps the records keeps the invariant.
LEMMA InterruptKeeps ==
    ASSUME DevicesInv,
           dev' \in [Device -> DeviceRecord],
           \A d \in Device : Kept(d, dev'[d]),
           UNCHANGED <<mainVars, ident>>,
           next' \in {"send", "check"}, silent' \subseteq Device, wild' \in BOOLEAN
    PROVE  DevicesInv'
<1> USE DEF mainVars
<1>1. TypeOK'
  BY DEF DevicesInv, TypeOK
<1>2. Counting' = Counting /\ Room'
  BY DEF DevicesInv, Counting, Room
<1>3. \A d \in Device : Bumped(d)' = Bumped(d)
  BY DEF Bumped
<1>4. \A d \in Device : dev[d] \in DeviceRecord /\ dev'[d] \in DeviceRecord
  BY DEF DevicesInv, TypeOK
<1>5. amount' = amount /\ amount \in Nat
  BY DEF DevicesInv, TypeOK
<1>6. \A d \in Device : dev[d].driver \in Int /\ dev'[d].driver \in Int
  BY <1>4 DEF DeviceRecord
<1>7. Assigned'
  BY <1>3, <1>5, <1>6 DEF DevicesInv, Assigned, Kept, Moved
<1>8. Connected'
  <2>1. \A d \in Device : Bumped(d) => Counting
    BY DEF Bumped, Counting
  <2>2. OneDriver /\ Counting => amount = 0
    BY OneCounted
  <2> SUFFICES ASSUME OneDriver, NEW d \in Device
               PROVE  /\ \/ dev'[d].driver >= amount
                         \/ dev'[d].connected = dev'[d].driver
                      /\ Bumped(d) => dev'[d].driver > amount
    BY <1>3, <1>5 DEF Connected, OneDriver
  <2>3. \/ dev[d].driver >= amount \/ dev[d].connected = dev[d].driver
    BY DEF DevicesInv, Connected
  <2>4. Bumped(d) => dev[d].driver > amount
    BY DEF DevicesInv, Connected
  <2>5. dev'[d].driver \in Nat
    BY <1>4 DEF DeviceRecord
  <2>6. \/ /\ dev'[d].driver = dev[d].driver
           /\ dev'[d].connected = dev[d].connected
        \/ dev'[d].connected = dev'[d].driver /\ dev'[d].driver < amount
    BY DEF Kept
  <2> QED
    BY <1>5, <1>6, <2>1, <2>2, <2>3, <2>4, <2>5, <2>6
<1>9. Justified'
  <2>1. \A d \in Device : FindIndex(ident[d])' = FindIndex(ident[d])
    BY SameIndex
  <2>2. amount' = amount /\ \A d \in Device : Cleared(d)' = Cleared(d)
    BY DEF Cleared
  <2> QED
    BY <2>1, <2>2 DEF DevicesInv, Justified, Kept
<1> QED
  BY <1>1, <1>2, <1>7, <1>8, <1>9 DEF DevicesInv

LEMMA UntouchedKeeps ==
    ASSUME DevicesInv, NEW d \in Device
    PROVE  Kept(d, dev[d])
  BY DEF DevicesInv, TypeOK, Kept

\* Flags that say nothing about the driver.
LEMMA FlagsKeep ==
    ASSUME NEW d \in Device, NEW r, Kept(d, r), NEW a \in BOOLEAN, NEW e \in BOOLEAN
    PROVE  /\ Kept(d, [r EXCEPT !.echoed = e])
           /\ Kept(d, [r EXCEPT !.arrived = a])
  BY DEF Kept, DeviceRecord

LEMMA BrokenKeeps ==
    ASSUME NEW d \in Device, NEW r, Kept(d, r), ~r.notFound, NEW w \in BOOLEAN
    PROVE  Kept(d, [r EXCEPT !.working = @ /\ w])
<1> DEFINE v == r.working /\ w
<1>1. r.working \in BOOLEAN /\ r \in DeviceRecord
  BY DEF Kept, DeviceRecord
<1>2. v \in BOOLEAN /\ (v => r.working)
  BY <1>1
<1> HIDE DEF v
<1>3. Kept(d, [r EXCEPT !.working = v])
  BY <1>2 DEF Kept, DeviceRecord
<1> QED
  BY <1>3 DEF v

LEMMA SendEchoKeeps ==
    ASSUME DevicesInv, NEW d \in Device, NEW ok \in BOOLEAN
    PROVE  Kept(d, SendEcho(d, ok))
<1> DEFINE r == FindDriver(d, ok)
<1>1. SendEcho(d, ok) =
         IF ~dev[d].working THEN dev[d]
         ELSE IF r.notFound THEN r
         ELSE IF r.arrived THEN [r EXCEPT !.echoed = TRUE]
         ELSE [r EXCEPT !.echoed = FALSE]
  BY Zenon DEF SendEcho
<1>2. dev[d].working => Kept(d, r)
  BY FindDriverKeeps
<1> HIDE DEF r
<1>3. CASE ~dev[d].working
  BY <1>1, <1>3, UntouchedKeeps
<1>4. CASE dev[d].working
  <2>1. /\ Kept(d, r)
        /\ Kept(d, [r EXCEPT !.echoed = TRUE])
        /\ Kept(d, [r EXCEPT !.echoed = FALSE])
    BY <1>2, <1>4, FlagsKeep
  <2> QED
    BY <1>1, <1>4, <2>1
<1> QED
  BY <1>3, <1>4

\* What an interrupt does, as far as the theorems ask.
Interrupted ==
    /\ DevicesInv' /\ \A d \in Device : Kept(d, dev'[d])
    /\ wild' => wild \/ \E d \in Device : Moved(d) /\ ~dev[d].notFound

LEMMA SendEchoStep ==
    ASSUME DevicesInv, SendEchoCallback
    PROVE  Interrupted
<1>1. PICK ok \in [Device -> Answers] :
         /\ dev' = [d \in Device |-> SendEcho(d, ok[d])]
         /\ wild' = \E d \in Device :
               LET r == FindDriver(d, ok[d])
               IN  dev[d].working /\ ~r.notFound /\ ~r.arrived /\ NoEntry(r)
  BY DEF SendEchoCallback
<1>2. \A d \in Device : ok[d] \in BOOLEAN
  BY DEF Answers
<1>3. \A d \in Device : Kept(d, SendEcho(d, ok[d]))
  BY <1>2, SendEchoKeeps
<1>4. \A d \in Device : SendEcho(d, ok[d]) \in DeviceRecord
  BY <1>3 DEF Kept
<1>5. wild' => \E d \in Device : Moved(d) /\ ~dev[d].notFound
  BY <1>1, <1>2, FindDriverKeeps
<1>6. /\ dev' \in [Device -> DeviceRecord]
      /\ \A d \in Device : Kept(d, dev'[d])
  BY <1>1, <1>3, <1>4
<1>7. /\ UNCHANGED <<mainVars, ident>>
      /\ next' \in {"send", "check"} /\ silent' \subseteq Device
  BY DEF SendEchoCallback, DevicesInv, TypeOK
<1>8. wild' \in BOOLEAN
  BY <1>1
<1>9. DevicesInv'
  BY <1>6, <1>7, <1>8, InterruptKeeps
<1> QED
  BY <1>5, <1>6, <1>9 DEF Interrupted

LEMMA CheckEchoStep ==
    ASSUME DevicesInv, CheckEchoCallback
    PROVE  Interrupted
<1>1. dev' = [d \in Device |-> [dev[d] EXCEPT !.arrived = FALSE]]
  BY DEF CheckEchoCallback
<1>2. \A d \in Device : Kept(d, [dev[d] EXCEPT !.arrived = FALSE])
  BY UntouchedKeeps, FlagsKeep
<1>3. /\ dev' \in [Device -> DeviceRecord]
      /\ \A d \in Device : Kept(d, dev'[d])
  BY <1>1, <1>2 DEF Kept
<1>4. /\ UNCHANGED <<mainVars, ident>>
      /\ next' \in {"send", "check"} /\ silent' \subseteq Device
      /\ wild' = wild /\ wild \in BOOLEAN
  BY DEF CheckEchoCallback, DevicesInv, TypeOK
<1>5. DevicesInv'
  BY <1>3, <1>4, InterruptKeeps
<1> QED
  BY <1>3, <1>4, <1>5 DEF Interrupted

\* A step that gives one device a record that is kept.
LEMMA OneDevice ==
    ASSUME DevicesInv, NEW d \in Device, NEW r, Kept(d, r),
           dev' = [dev EXCEPT ![d] = r]
    PROVE  /\ dev' \in [Device -> DeviceRecord]
           /\ \A e \in Device : Kept(e, dev'[e])
<1>1. dev \in [Device -> DeviceRecord] /\ r \in DeviceRecord
  BY DEF DevicesInv, TypeOK, Kept
<1>2. \A e \in Device : dev'[e] = IF e = d THEN r ELSE dev[e]
  BY <1>1
<1> QED
  BY <1>1, <1>2, UntouchedKeeps

LEMMA DeviceIrqStep ==
    ASSUME DevicesInv, NEW d \in Device, DeviceIrq(d)
    PROVE  Interrupted
<1>1. PICK ok \in Answers, alive \in Answers, echo \in BOOLEAN :
         LET r == [FindDriver(d, ok) EXCEPT !.arrived = TRUE]
         IN  IF r.notFound
             THEN dev' = [dev EXCEPT ![d] = r] /\ UNCHANGED wild
             ELSE /\ wild' = NoEntry(r)
                  /\ dev' = [dev EXCEPT ![d] =
                        [r EXCEPT !.echoed = @ \/ echo,
                                  !.working = @ /\ alive]]
  BY Zenon DEF DeviceIrq
<1> DEFINE f == FindDriver(d, ok)
           r == [f EXCEPT !.arrived = TRUE]
           v == [r EXCEPT !.echoed = @ \/ echo, !.working = @ /\ alive]
<1>2. ok \in BOOLEAN /\ alive \in BOOLEAN
  BY DEF Answers
<1>3. dev[d].working
  BY DEF DeviceIrq
<1>4. /\ Kept(d, f)
      /\ ~f.notFound /\ NoEntry(f) => Moved(d) /\ ~dev[d].notFound
  BY <1>2, <1>3, FindDriverKeeps
<1>5. \/ r.notFound /\ dev' = [dev EXCEPT ![d] = r] /\ wild' = wild
      \/ ~r.notFound /\ dev' = [dev EXCEPT ![d] = v] /\ wild' = NoEntry(r)
  BY <1>1
<1> HIDE DEF f
<1>6. Kept(d, r) /\ r.notFound = f.notFound /\ r.driver = f.driver
  BY <1>4, FlagsKeep DEF Kept, DeviceRecord
<1> HIDE DEF r
<1>7. ~r.notFound => Kept(d, v)
  <2> SUFFICES ASSUME ~r.notFound
               PROVE  Kept(d, v)
    OBVIOUS
  <2> DEFINE u == [r EXCEPT !.echoed = r.echoed \/ echo]
  <2>1. r \in DeviceRecord /\ (r.echoed \/ echo) \in BOOLEAN
    BY <1>6 DEF Kept, DeviceRecord
  <2>2. Kept(d, u) /\ ~u.notFound
    BY <1>6, <2>1, FlagsKeep DEF DeviceRecord
  <2>3. v = [u EXCEPT !.working = @ /\ alive]
    BY <2>1 DEF DeviceRecord
  <2> HIDE DEF u
  <2> QED
    BY <1>2, <2>2, <2>3, BrokenKeeps
<1> HIDE DEF v
<1>8. /\ dev' \in [Device -> DeviceRecord]
      /\ \A e \in Device : Kept(e, dev'[e])
  BY <1>5, <1>6, <1>7, OneDevice
<1>9. /\ wild' \in BOOLEAN
      /\ wild' => wild \/ \E e \in Device : Moved(e) /\ ~dev[e].notFound
  <2>1. wild \in BOOLEAN /\ NoEntry(r) \in BOOLEAN /\ NoEntry(f) = NoEntry(r)
    BY <1>6 DEF NoEntry, DevicesInv, TypeOK
  <2>2. ~r.notFound /\ NoEntry(r) => Moved(d) /\ ~dev[d].notFound
    BY <1>4, <1>6, <2>1, Zenon
  <2>3. \/ wild' = wild
        \/ ~r.notFound /\ wild' = NoEntry(r)
    BY <1>5
  <2>4. Moved(d) /\ ~dev[d].notFound =>
            \E e \in Device : Moved(e) /\ ~dev[e].notFound
    OBVIOUS
  <2>5. CASE wild' = wild
    BY <2>1, <2>5
  <2>6. CASE ~r.notFound /\ wild' = NoEntry(r)
    <3>1. wild' \in BOOLEAN /\ (wild' => NoEntry(r))
      BY <2>1, <2>6, Zenon
    <3>2. wild' => \E e \in Device : Moved(e) /\ ~dev[e].notFound
      BY <2>2, <2>4, <2>6, <3>1, Zenon
    <3> QED
      BY <3>1, <3>2
  <2> QED
    BY <2>3, <2>5, <2>6
<1>10. /\ UNCHANGED <<mainVars, ident>>
       /\ next' \in {"send", "check"} /\ silent' \subseteq Device
  BY DEF DeviceIrq, DevicesInv, TypeOK
<1>11. DevicesInv'
  BY <1>8, <1>9, <1>10, InterruptKeeps
<1> QED
  BY <1>8, <1>9, <1>11 DEF Interrupted

LEMMA FallSilentStep ==
    ASSUME DevicesInv, NEW d \in Device, FallSilent(d)
    PROVE  Interrupted
<1>1. /\ dev' \in [Device -> DeviceRecord]
      /\ \A e \in Device : Kept(e, dev'[e])
  BY UntouchedKeeps DEF FallSilent, DevicesInv, TypeOK
<1>2. /\ UNCHANGED <<mainVars, ident>>
      /\ next' \in {"send", "check"} /\ silent' \subseteq Device
      /\ wild' = wild /\ wild \in BOOLEAN
  BY DEF FallSilent, DevicesInv, TypeOK
<1>3. DevicesInv'
  BY <1>1, <1>2, InterruptKeeps
<1> QED
  BY <1>1, <1>2, <1>3 DEF Interrupted

-----------------------------------------------------------------------------
(* main.                                                                   *)

\* The places where main is at a device's part of the count.
LEMMA Places ==
    ASSUME NEW d \in Device
    PROVE  /\ pc = Start => ~Counting /\ ~Bumped(d)
           /\ pc = <<"compare", d>> => Counting /\ ~Bumped(d)
           /\ pc = <<"load", d>> => Counting /\ ~Bumped(d)
           /\ pc = <<"store", d>> => Counting /\ ~Bumped(d)
           /\ pc = <<"count", 0>> => Counting /\ Bumped(d)
           /\ pc = <<"fetch", d>> => ~Counting
           /\ pc = <<"clear", d>> => ~Counting
           /\ ~Counting => ~Bumped(d)
  BY DEF Counting, Bumped, Start, Device

LEMMA DevicesInit == Init => DevicesInv
<1> SUFFICES ASSUME Init
             PROVE  DevicesInv
  OBVIOUS
<1>1. Len(Installs) \in Nat /\ Installs \in Seq(Identity)
  BY ParameterAssumption
<1>2. pc \in Label /\ flags \in Flags
  BY DEF Init, Label, Flags
<1>3. dev \in [Device -> DeviceRecord]
  <2>1. \A w \in BOOLEAN :
            [working |-> w, notFound |-> FALSE, arrived |-> FALSE,
             echoed |-> FALSE, driver |-> 0, connected |-> None] \in DeviceRecord
    BY <1>1 DEF DeviceRecord, None
  <2> QED
    BY <2>1 DEF Init
<1>4. \A d \in Device : dev[d].driver = 0 /\ amount = 0
  BY DEF Init
<1>5. TypeOK
  <2>1. /\ ident \in [Device -> Ident] /\ table = <<>> /\ amount = 0
        /\ todo = Installs /\ reg = 0 /\ next \in {"send", "check"}
        /\ silent \subseteq Device /\ wild = FALSE
    BY DEF Init
  <2>2. /\ 0 \in 0..Len(Installs) /\ <<>> \in Seq(Identity)
        /\ FALSE \in BOOLEAN
    BY <1>1
  <2>3. /\ table \in Seq(Identity) /\ amount \in 0..Len(Installs)
        /\ todo \in Seq(Identity) /\ reg \in 0..Len(Installs)
        /\ wild \in BOOLEAN
    BY <1>1, <2>1, <2>2
  <2> QED
    BY <1>2, <1>3, <2>1, <2>3 DEF TypeOK
<1>6. ~Counting /\ Room
  BY <1>1 DEF Init, Room, Counting, Start
<1>7. Assigned /\ Connected
  BY <1>4 DEF Init, Assigned, Connected, Start, Bumped
<1>8. Justified
  BY DEF Init, Justified
<1> QED
  BY <1>5, <1>6, <1>7, <1>8 DEF DevicesInv

LEMMA WriteStep ==
    ASSUME DevicesInv, Write
    PROVE  DevicesInv'
<1>1. /\ ~Counting /\ \A d \in Device : ~Bumped(d)
      /\ Len(table) = amount /\ Len(table) + Len(todo) <= Len(Installs)
      /\ table \in Seq(Identity) /\ todo \in Seq(Identity) /\ todo # <<>>
  <2>1. ~Counting /\ \A d \in Device : ~Bumped(d)
    BY DEF Write, Counting, Bumped, Start, Device
  <2> QED
    BY <2>1 DEF Write, DevicesInv, Room, TypeOK
<1>2. /\ todo' = Tail(todo) /\ todo' \in Seq(Identity)
      /\ Len(todo') = Len(todo) - 1 /\ Head(todo) \in Identity
  BY <1>1 DEF Write
<1>3. CASE amount >= MaxDrivers
  <2>1. UNCHANGED <<table, pc, dev, amount, reg, flags, interruptVars>>
    BY <1>3 DEF Write
  <2>2. TypeOK'
    BY <1>2, <2>1 DEF DevicesInv, TypeOK, interruptVars
  <2>3. Room'
    BY <1>1, <1>2, <2>1, Numbers DEF Room, Counting
  <2>4. Assigned' /\ Connected'
    BY <2>1 DEF DevicesInv, Assigned, Connected, Moved, Bumped, OneDriver
  <2>5. Justified'
    <3>1. UNCHANGED <<table, amount, ident, pc, dev>>
      BY <2>1 DEF interruptVars
    <3> QED
      BY <3>1, SameIndex DEF DevicesInv, Justified, Cleared
  <2> QED
    BY <2>2, <2>3, <2>4, <2>5 DEF DevicesInv
<1>4. CASE ~(amount >= MaxDrivers)
  <2>1. /\ table' = Append(table, Head(todo)) /\ pc' = <<"compare", 0>>
        /\ UNCHANGED <<dev, amount, reg, flags, interruptVars>>
    BY <1>4 DEF Write
  <2>2. table' \in Seq(Identity) /\ Len(table') = Len(table) + 1
    <3>1. ASSUME NEW e \in Identity
          PROVE  /\ Append(table, e) \in Seq(Identity)
                 /\ Len(Append(table, e)) = Len(table) + 1
      BY <1>1, AppendProperties
    <3> QED
      BY <1>2, <2>1, <3>1
  <2>3. pc' \in Label
    BY <2>1 DEF Label, Device
  <2>4. TypeOK'
    BY <1>2, <2>1, <2>2, <2>3 DEF DevicesInv, TypeOK, interruptVars
  <2>5. Counting'
    BY <2>1 DEF Counting
  <2>6. Room'
    BY <1>1, <1>2, <2>1, <2>2, <2>5 DEF Room, DevicesInv, TypeOK
  <2>7. Assigned' /\ Connected'
    BY <1>1, <2>1 DEF DevicesInv, Assigned, Connected, Moved, Bumped, OneDriver
  <2>8. Justified'
    BY <2>1 DEF Justified, Cleared, Start
  <2> QED
    BY <2>4, <2>6, <2>7, <2>8 DEF DevicesInv
<1> QED
  BY <1>3, <1>4

LEMMA CompareStep ==
    ASSUME DevicesInv, NEW d \in Device, Compare(d)
    PROVE  DevicesInv'
<1>1. /\ Counting /\ pc = <<"compare", d>> /\ ~Bumped(d)
      /\ UNCHANGED <<dev, table, amount, todo, reg, flags, interruptVars>>
  BY Places DEF Compare
<1>2. pc' \in {<<"load", d>>, Compared(d)}
  BY DEF Compare
<1>3. pc' \in Label /\ Counting'
  BY <1>2 DEF Label, Counting, Device, Compared
<1>4. \A e \in Device \ {d} : Bumped(e)' = Bumped(e)
  BY <1>1, <1>2 DEF Bumped, Device, Compared
<1>5. Assigned'
  BY <1>1, <1>2, <1>4 DEF DevicesInv, Assigned, Moved, Compared
<1>6. Connected'
  <2>1. ASSUME OneDriver, Bumped(d)'
        PROVE  dev[d].driver > amount
    <3>1. amount = 0
      BY <1>1, <2>1, OneCounted
    <3>2. dev[d].driver # amount
      BY <1>1, <2>1 DEF Compare, Bumped, Device
    <3> QED
      BY <3>1, <3>2, Numbers
  <2> QED
    BY <1>1, <1>4, <2>1 DEF DevicesInv, Connected, OneDriver
<1>7. Justified'
  BY <1>2 DEF Justified, Cleared, Start, Compared
<1> QED
  BY <1>1, <1>3, <1>5, <1>6, <1>7 DEF DevicesInv, TypeOK, Room, interruptVars

LEMMA LoadStep ==
    ASSUME DevicesInv, NEW d \in Device, Load(d)
    PROVE  DevicesInv'
<1>1. /\ Counting /\ pc = <<"load", d>> /\ pc' = <<"store", d>> /\ ~Bumped(d)
      /\ reg' = dev[d].driver
      /\ UNCHANGED <<dev, table, amount, todo, flags, interruptVars>>
  BY Places DEF Load
<1>2. reg' <= amount /\ reg' \in 0..Len(Installs)
  BY <1>1, Numbers DEF DevicesInv, Assigned, Moved, DeviceRecord
<1>3. pc' \in Label /\ Counting'
  BY <1>1 DEF Label, Counting, Device
<1>4. \A e \in Device : Bumped(e)' = Bumped(e)
  BY <1>1 DEF Bumped, Device
<1>5. Assigned'
  BY <1>1, <1>2, <1>4 DEF DevicesInv, Assigned, Moved
<1>6. Connected'
  BY <1>1, <1>4 DEF DevicesInv, Connected, OneDriver
<1>7. Justified'
  BY <1>1 DEF Justified, Cleared, Start
<1> QED
  BY <1>1, <1>2, <1>3, <1>5, <1>6, <1>7
  DEF DevicesInv, TypeOK, Room, interruptVars

LEMMA StoreStep ==
    ASSUME DevicesInv, NEW d \in Device, Store(d)
    PROVE  DevicesInv'
<1>1. /\ Counting /\ pc = <<"store", d>> /\ pc' = Compared(d)
      /\ dev' = [dev EXCEPT ![d].driver = reg + 1]
      /\ UNCHANGED <<table, amount, todo, reg, flags, interruptVars>>
  BY Places DEF Store
<1>2. /\ reg <= amount /\ reg + 1 \in 0..Len(Installs)
      /\ OneDriver => amount = 0
  BY <1>1, Numbers, OneCounted DEF DevicesInv, Assigned, Room
<1>3. pc' \in Label /\ Counting'
  BY <1>1 DEF Label, Counting, Device, Compared
<1>4. /\ dev'[d] = [dev[d] EXCEPT !.driver = reg + 1]
      /\ \A e \in Device \ {d} : dev'[e] = dev[e]
  BY <1>1 DEF DevicesInv, TypeOK
<1>5. dev'[d] \in DeviceRecord /\ dev'[d].driver = reg + 1
  BY <1>2, <1>4, Numbers DEF DeviceRecord
<1>6. dev' \in [Device -> DeviceRecord]
  BY <1>1, <1>4, <1>5, Numbers DEF DevicesInv, TypeOK
<1>7. Bumped(d)' /\ \A e \in Device \ {d} : Bumped(e)' = Bumped(e)
  BY <1>1 DEF Bumped, Device, Compared
<1>8. Assigned'
  <2>1. dev'[d].driver <= amount \/ Moved(d)'
    BY <1>1, <1>2, <1>5, <1>7, Numbers DEF Moved
  <2>2. \A e \in Device \ {d} : dev'[e].driver <= amount \/ Moved(e)'
    BY <1>1, <1>4, <1>7 DEF DevicesInv, Assigned, Moved
  <2>3. \A e \in Device : pc' # <<"store", e>>
    BY <1>1 DEF Compared
  <2> QED
    BY <1>1, <2>1, <2>2, <2>3 DEF Assigned
<1>9. Connected'
  <2>1. OneDriver => dev'[d].driver > amount
    BY <1>2, <1>5, Numbers
  <2> QED
    BY <1>1, <1>4, <1>5, <1>7, <2>1, Numbers DEF DevicesInv, Connected, OneDriver
<1>10. Justified'
  BY <1>1 DEF Justified, Cleared, Start, Compared
<1> QED
  BY <1>1, <1>3, <1>6, <1>8, <1>9, <1>10
  DEF DevicesInv, TypeOK, Room, interruptVars

LEMMA CountStep ==
    ASSUME DevicesInv, Count
    PROVE  DevicesInv'
<1>1. /\ Counting /\ \A d \in Device : Bumped(d)
      /\ pc' = <<"fetch", 0>> /\ amount' = amount + 1
      /\ UNCHANGED <<dev, table, todo, reg, flags, interruptVars>>
  BY DEF Count, Counting, Bumped, Device
<1>2. amount' \in 0..Len(Installs)
  BY <1>1, Numbers DEF DevicesInv, Room
<1>3. pc' \in Label /\ ~Counting'
  BY <1>1 DEF Label, Device, Counting
<1>4. Assigned'
  BY <1>1, Numbers DEF DevicesInv, Assigned, Moved
<1>5. Connected'
  <2>1. \A d \in Device : ~Bumped(d)'
    BY <1>1 DEF Bumped
  <2> SUFFICES ASSUME OneDriver, NEW d \in Device
               PROVE  dev[d].driver >= amount + 1
    BY <1>1, <2>1 DEF Connected, OneDriver
  <2> QED
    BY <1>1, Numbers DEF DevicesInv, Connected
<1>6. Room'
  BY <1>1, <1>3, Numbers DEF DevicesInv, Room
<1>7. Justified'
  BY <1>1 DEF Justified, Cleared, Start
<1> QED
  BY <1>1, <1>2, <1>3, <1>4, <1>5, <1>6, <1>7
  DEF DevicesInv, TypeOK, interruptVars

LEMMA FetchStep ==
    ASSUME DevicesInv, NEW d \in Device, Fetch(d)
    PROVE  DevicesInv'
<1>1. /\ ~Counting /\ pc' = <<"clear", d>> /\ \A e \in Device : ~Bumped(e)
      /\ flags' = [f \in DOMAIN flags |-> dev[d][f]]
      /\ UNCHANGED <<dev, table, amount, todo, reg, interruptVars>>
  BY Places DEF Fetch
<1>2. dev[d] \in DeviceRecord /\ flags \in Flags
  BY DEF DevicesInv, TypeOK
<1>3. flags' \in Flags
  BY <1>1, <1>2 DEF Flags, DeviceRecord
<1>4. pc' \in Label /\ ~Counting'
  BY <1>1 DEF Label, Counting, Device
<1>5. Assigned' /\ Connected'
  BY <1>1 DEF DevicesInv, Assigned, Connected, Moved, Bumped, OneDriver
<1>6. Justified'
  <2>1. UNCHANGED <<table, amount, ident, dev>>
    BY <1>1 DEF interruptVars
  <2>2. \A e \in Device : Cleared(e)' => Cleared(e)
    BY DEF Fetch, Cleared, Device, Start
  <2> QED
    BY <2>1, <2>2, SameIndex DEF DevicesInv, Justified
<1> QED
  BY <1>1, <1>3, <1>4, <1>5, <1>6 DEF DevicesInv, TypeOK, Room, interruptVars

LEMMA ClearStep ==
    ASSUME DevicesInv, NEW d \in Device, Clear(d)
    PROVE  DevicesInv'
<1>1. /\ ~Counting /\ pc' = (IF d = 0 THEN <<"fetch", 1>> ELSE Start)
      /\ \A e \in Device : ~Bumped(e)
      /\ dev' = [dev EXCEPT ![d] =
            [dev[d] EXCEPT !.working = flags.working, !.notFound = FALSE,
                           !.arrived = flags.arrived, !.echoed = flags.echoed]]
      /\ UNCHANGED <<table, amount, todo, reg, flags, interruptVars>>
  BY Places DEF Clear, DevicesInv, TypeOK
<1>2. \A e \in Device : dev[e] \in DeviceRecord /\ flags \in Flags
  BY DEF DevicesInv, TypeOK
<1>3. dev' \in [Device -> DeviceRecord]
  BY <1>1, <1>2 DEF DevicesInv, TypeOK, DeviceRecord, Flags
<1>4. \A e \in Device : /\ dev'[e].driver = dev[e].driver
                        /\ dev'[e].connected = dev[e].connected
  BY <1>1, <1>2 DEF DevicesInv, TypeOK, DeviceRecord
<1>5. pc' \in Label /\ ~Counting' /\ \A e \in Device : pc' # <<"store", e>>
  BY <1>1 DEF Label, Counting, Device, Start
<1>6. Assigned' /\ Connected'
  <2>1. \A e \in Device : ~Bumped(e)'
    BY <1>1 DEF Bumped, Start
  <2> QED
    BY <1>1, <1>4, <1>5, <2>1
    DEF DevicesInv, Assigned, Connected, Moved, OneDriver
<1>7. Justified'
  <2>1. UNCHANGED <<table, amount, ident>>
    BY <1>1 DEF interruptVars
  <2>2. \A e \in Device : dev'[e].notFound => e # d /\ dev[e].notFound
    BY <1>1, <1>2 DEF DevicesInv, TypeOK, DeviceRecord
  <2>3. \A e \in Device \ {d} : Cleared(e)' => Cleared(e)
    BY DEF Clear, Cleared, Device, Start
  <2> QED
    BY <2>1, <2>2, <2>3, SameIndex DEF DevicesInv, Justified
<1> QED
  BY <1>1, <1>3, <1>5, <1>6, <1>7 DEF DevicesInv, TypeOK, Room, interruptVars

LEMMA DevicesStep ==
    ASSUME DevicesInv, [Next]_vars
    PROVE  DevicesInv'
<1>1. CASE UNCHANGED vars
  <2>1. UNCHANGED <<dev, ident, table, amount, todo, pc, reg, flags, next,
                    silent, wild>>
    BY <1>1 DEF vars
  <2>2. Justified'
    BY <2>1, SameIndex DEF DevicesInv, Justified, Cleared
  <2> QED
    BY <2>1, <2>2
    DEF DevicesInv, TypeOK, Room, Assigned, Connected, OneDriver, Counting,
        Moved, Bumped
<1>2. CASE Main
  BY <1>2, WriteStep, CountStep, CompareStep, LoadStep, StoreStep, FetchStep,
     ClearStep
  DEF Main
<1>3. CASE \E d \in Device : DeviceIrq(d) \/ FallSilent(d)
  BY <1>3, DeviceIrqStep, FallSilentStep DEF Interrupted
<1> QED
  BY <1>1, <1>2, <1>3, SendEchoStep, CheckEchoStep DEF Next, Interrupted

\* The two tables and main's registers keep their types.
THEOREM DevicesTypes == Spec => []TypeOK
<1>1. DevicesInv => TypeOK
  BY DEF DevicesInv
<1>2. DevicesInv /\ [Next]_vars => DevicesInv'
  BY DevicesStep
<1> QED
  BY <1>1, <1>2, DevicesInit, PTL DEF Spec

LEMMA ConnectedInv == OneDriver /\ DevicesInv => CallsConnected
  BY Numbers DEF DevicesInv, Assigned, Connected, CallsConnected, Moved

\* With at most one driver to install, an interrupt at whatever access of
\* ps2_install_device_driver (ps2.c:562) searches or calls the driver whose
\* on_connect was called for its device, if the driver's number is not ahead of
\* the amount, as it is between lines 567 and 570.
THEOREM ConnectedCalls == OneDriver => (Spec => []CallsConnected)
<1> SUFFICES ASSUME OneDriver
             PROVE  Spec => []CallsConnected
  OBVIOUS
<1>1. DevicesInv => CallsConnected
  BY ConnectedInv
<1>2. DevicesInv /\ [Next]_vars => DevicesInv'
  BY DevicesStep
<1> QED
  BY <1>1, <1>2, DevicesInit, PTL DEF Spec

\* A step calls no driver through an empty entry but in the window.
Tame == wild' => wild \/ \E d \in Device : Moved(d) /\ ~dev[d].notFound

LEMMA TameStep ==
    ASSUME DevicesInv, [Next]_vars
    PROVE  Tame
<1>1. CASE \/ SendEchoCallback \/ CheckEchoCallback
           \/ \E d \in Device : DeviceIrq(d) \/ FallSilent(d)
  BY <1>1, SendEchoStep, CheckEchoStep, DeviceIrqStep, FallSilentStep
  DEF Interrupted, Tame
<1>2. CASE Main
  BY <1>2
  DEF Main, Write, Count, Compare, Load, Store, Fetch, Clear, interruptVars,
      Tame
<1>3. CASE UNCHANGED vars
  BY <1>3 DEF vars, Tame
<1> QED
  BY <1>1, <1>2, <1>3 DEF Next

\* Whatever drivers are installed and whenever interrupts come, a driver is
\* called through an entry never written between lines 567 and 570 only, by a
\* device whose not-found flag is clear.
THEOREM TameCalls == Spec => WildOnlyMoved
<1>1. DevicesInv /\ [Next]_vars =>
         [wild' => wild \/ \E d \in Device : Moved(d) /\ ~dev[d].notFound]_vars
  BY TameStep DEF Tame
<1>2. DevicesInv /\ [Next]_vars => DevicesInv'
  BY DevicesStep
<1> QED
  BY <1>1, <1>2, DevicesInit, PTL DEF Spec, WildOnlyMoved

\* A device that no driver was found for is one that no installed driver takes,
\* also when its search and an installation interleaved (ps2.c:572).
THEOREM NoStaleFlag == Spec => []NotFoundJustified
<1>1. DevicesInv => NotFoundJustified
  BY DEF DevicesInv, NotFoundJustified, Justified, Cleared
<1>2. DevicesInv /\ [Next]_vars => DevicesInv'
  BY DevicesStep
<1> QED
  BY <1>1, <1>2, DevicesInit, PTL DEF Spec

\* A device that its driver has given up comes back to life only when main
\* writes back flags that it had read before (ps2.c:573).
THEOREM GivenUp == Spec => RevivedOnlyByWriteBack
<1> DEFINE Stays == \A d \in Device :
              ~dev[d].working /\ ~(pc = <<"clear", d>> /\ flags.working) =>
                  ~dev'[d].working
<1>1. ASSUME DevicesInv, [Next]_vars
      PROVE  [Stays]_vars
  <2>1. CASE \/ SendEchoCallback \/ CheckEchoCallback
             \/ \E d \in Device : DeviceIrq(d) \/ FallSilent(d)
    <3>1. \A d \in Device : Kept(d, dev'[d])
      BY <1>1, <2>1, SendEchoStep, CheckEchoStep, DeviceIrqStep, FallSilentStep
      DEF Interrupted
    <3> QED
      BY <3>1 DEF Kept
  <2>2. CASE \/ Write \/ Count
             \/ \E d \in Device : Compare(d) \/ Load(d) \/ Fetch(d)
    <3>1. dev' = dev
      BY <2>2 DEF Write, Count, Compare, Load, Fetch
    <3> QED
      BY <3>1
  <2>3. ASSUME NEW d \in Device, Store(d)
        PROVE  Stays
    BY <1>1, <2>3 DEF Store, DevicesInv, TypeOK, DeviceRecord
  <2>4. ASSUME NEW d \in Device, Clear(d)
        PROVE  Stays
    BY <1>1, <2>4 DEF Clear, DevicesInv, TypeOK, DeviceRecord
  <2>5. CASE UNCHANGED vars
    BY <2>5
  <2> QED
    BY <1>1, <2>1, <2>2, <2>3, <2>4, <2>5 DEF Next, Main
<1>2. DevicesInv /\ [Next]_vars => DevicesInv'
  BY DevicesStep
<1> QED
  BY <1>1, <1>2, DevicesInit, PTL DEF Spec, RevivedOnlyByWriteBack
=============================================================================
