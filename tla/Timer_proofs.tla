---------------------------- MODULE Timer_proofs ----------------------------
(***************************************************************************)
(* Type correctness of Timer, the completeness of every entry that a tick  *)
(* goes through, and the spacing of a callback's calls, for every counter  *)
(* range, table size, interval and offset.  The arguments are TimerInv,    *)
(* what the stores of an installation have done so far and which slots the *)
(* identifiers stand for, and OnTime, how the latest call and the counter  *)
(* are related on both sides of a wrap.  Last, the waits of Ps2Port, which *)
(* read the same counter: what they time out on has passed, and bytes      *)
(* reach the device they are sent to, for all time-outs.                   *)
(***************************************************************************)
EXTENDS Timer, Ps2Port, TLAPS

\* The slot that an installation fills is a free one.
Filling == pc \in {"store", "publish"} => length < MaxCallbacks

\* What has been stored is what was asked for, a positive interval.
Stored ==
    /\ pc = "store" => arg.interval \in Intervals
    /\ \A i \in Slot : "interval" \in written[i] => table[i].interval # 0

\* Publishing comes behind the last store.
Published == pc = "publish" => written[length + 1] = Field

\* Identifiers belong to published slots.
Identifiers ==
    /\ uids \subseteq 1..length
    /\ pc = "return" => length \in Slot

TimerInv == TypeOK /\ Filling /\ Stored /\ Published /\ Identifiers /\ Complete

-----------------------------------------------------------------------------
(* The tick.                                                               *)

LEMMA Wraps ==
    ASSUME NEW t \in 0..TickRange - 1
    PROVE  (t + 1) % TickRange \in 0..TickRange - 1
  BY TimerAssumption, TickAssumption

LEMMA OlderType ==
    ASSUME NEW n \in {NotYet} \cup 0..TickRange
    PROVE  Older(n) \in {NotYet} \cup 0..TickRange
  BY TimerAssumption, TickAssumption DEF Older, NotYet

LEMMA TickStep == TimerInv /\ Irq0 => TimerInv'
<1> SUFFICES ASSUME TimerInv, Irq0
             PROVE  TimerInv'
  OBVIOUS
<1>1. ticks' \in 0..TickRange - 1
  BY Wraps DEF TimerInv, TypeOK, CountTick, Irq0
<1>2. called' \subseteq Slot
  BY TimerAssumption, TickAssumption DEF TimerInv, TypeOK, CountTick, Irq0, Slot
<1>3. since' \in [Slot -> {NotYet} \cup 0..TickRange]
  <2>1. \A i \in Slot : Older(since[i]) \in {NotYet} \cup 0..TickRange
    BY OlderType DEF TimerInv, TypeOK
  <2> QED
    BY <2>1, TimerAssumption, TickAssumption DEF CountTick, Irq0
<1>4. TypeOK'
  BY <1>1, <1>2, <1>3 DEF TimerInv, TypeOK, CountTick, Irq0
<1>5. (Filling /\ Stored /\ Published /\ Identifiers /\ Complete)'
  BY DEF TimerInv, Filling, Stored, Published, Identifiers, Complete, CountTick, Irq0
<1> QED
  BY <1>4, <1>5 DEF TimerInv

-----------------------------------------------------------------------------
(* The steps of main.                                                      *)

LEMMA InstallStep ==
    ASSUME TimerInv, NEW interval \in Intervals, NEW offset \in Offsets,
           Install(interval, offset)
    PROVE  TimerInv'
<1>1. TypeOK'
  BY DEF TimerInv, TypeOK, Install, Entry, tickVars
<1>2. Filling'
  BY DEF Install, Filling
<1>3. Stored'
  BY DEF TimerInv, Stored, Install
<1>4. (Published /\ Identifiers /\ Complete)'
  BY DEF TimerInv, Published, Identifiers, Complete, Install
<1> QED
  BY <1>1, <1>2, <1>3, <1>4 DEF TimerInv

LEMMA StoreStep == TimerInv /\ Store => TimerInv'
<1> SUFFICES ASSUME TimerInv, Store
             PROVE  TimerInv'
  OBVIOUS
<1> DEFINE n == length + 1
<1>1. PICK f \in Field \ written[n] :
         /\ table' = IF f = "func" THEN table ELSE [table EXCEPT ![n][f] = arg[f]]
         /\ written' = [written EXCEPT ![n] = @ \cup {f}]
         /\ pc' = IF written'[n] = Field THEN "publish" ELSE "store"
  BY DEF Store
<1>2. n \in Slot /\ n \notin 1..length /\ length' = length
  BY TimerAssumption, TickAssumption DEF TimerInv, TypeOK, Filling, Store, Slot
<1> HIDE DEF n
<1>3. table[n] \in Entry /\ arg \in Entry /\ arg.interval \in Intervals
  BY <1>2 DEF TimerInv, TypeOK, Stored, Store
<1>4. /\ table' \in [Slot -> Entry]
      /\ \A i \in Slot \ {n} : table'[i] = table[i]
      /\ table'[n].interval = IF f = "interval" THEN arg.interval
                                                ELSE table[n].interval
  <2>1. CASE f = "func"
    BY <2>1, <1>1, <1>2, <1>3 DEF TimerInv, TypeOK
  <2>2. CASE f = "interval"
    <3>1. table' = [table EXCEPT ![n] = [table[n] EXCEPT !.interval = arg.interval]]
      BY <2>2, <1>1
    <3>2. [table[n] EXCEPT !.interval = arg.interval] \in Entry
      BY <1>3 DEF Entry
    <3> QED
      BY <3>1, <3>2, <2>2, <1>2, <1>3 DEF TimerInv, TypeOK, Entry
  <2>3. CASE f = "offset"
    <3>1. table' = [table EXCEPT ![n] = [table[n] EXCEPT !.offset = arg.offset]]
      BY <2>3, <1>1
    <3>2. [table[n] EXCEPT !.offset = arg.offset] \in Entry
      BY <1>3 DEF Entry
    <3> QED
      BY <3>1, <3>2, <2>3, <1>2, <1>3 DEF TimerInv, TypeOK, Entry
  <2> QED
    BY <1>1, <2>1, <2>2, <2>3 DEF Field
<1>5. /\ written' \in [Slot -> SUBSET Field]
      /\ \A i \in Slot \ {n} : written'[i] = written[i]
      /\ written'[n] = written[n] \cup {f}
  BY <1>1, <1>2 DEF TimerInv, TypeOK
<1>6. TypeOK'
  BY <1>1, <1>4, <1>5 DEF TimerInv, TypeOK, Store, tickVars
<1>7. Filling' /\ Published'
  BY <1>1, <1>2 DEF n, TimerInv, Filling, Published, Store
<1>8. Stored'
  <2>1. pc' = "store" => arg'.interval \in Intervals
    BY <1>3 DEF Store
  <2>2. ASSUME NEW i \in Slot, "interval" \in written'[i]
        PROVE  table'[i].interval # 0
    <3>1. CASE i = n /\ f = "interval"
      BY <3>1, <1>3, <1>4, TimerAssumption, TickAssumption
    <3>2. CASE i = n /\ f # "interval"
      <4>1. "interval" \in written[n]
        BY <3>2, <2>2, <1>5
      <4> QED
        BY <4>1, <3>2, <1>2, <1>4 DEF TimerInv, Stored
    <3>3. CASE i # n
      BY <3>3, <2>2, <1>4, <1>5 DEF TimerInv, Stored
    <3> QED
      BY <3>1, <3>2, <3>3
  <2> QED
    BY <2>1, <2>2 DEF Stored
<1>9. Identifiers' /\ Complete'
  <2>1. 1..length \subseteq Slot \ {n}
    BY <1>2, TimerAssumption, TickAssumption DEF TimerInv, TypeOK, Slot
  <2> QED
    BY <2>1, <1>1, <1>2, <1>4, <1>5
    DEF TimerInv, TypeOK, Identifiers, Complete, Store
<1> QED
  BY <1>6, <1>7, <1>8, <1>9 DEF TimerInv

LEMMA PublishStep == TimerInv /\ Publish => TimerInv'
<1> SUFFICES ASSUME TimerInv, Publish
             PROVE  TimerInv'
  OBVIOUS
<1>1. length \in Nat /\ length' = length + 1 /\ length' \in Slot
      /\ length' \in 0..MaxCallbacks
  BY TimerAssumption, TickAssumption DEF TimerInv, TypeOK, Filling, Publish, Slot
<1>2. TypeOK'
  BY <1>1 DEF TimerInv, TypeOK, Publish, tickVars
<1>3. (Filling /\ Stored /\ Published /\ Identifiers)'
  BY <1>1 DEF TimerInv, Filling, Stored, Published, Identifiers, Publish
<1>4. Complete'
  <2> SUFFICES ASSUME NEW i \in 1..length'
               PROVE  written[i] = Field /\ table[i].interval # 0
    BY DEF Complete, Publish
  <2>1. CASE i = length + 1
    BY <2>1, <1>1 DEF TimerInv, Published, Stored, Publish, Field
  <2>2. CASE i \in 1..length
    BY <2>2 DEF TimerInv, Complete
  <2> QED
    BY <2>1, <2>2, <1>1
<1> QED
  BY <1>2, <1>3, <1>4 DEF TimerInv

LEMMA ReturnStep == TimerInv /\ Return => TimerInv'
<1> SUFFICES ASSUME TimerInv, Return
             PROVE  TimerInv'
  OBVIOUS
<1>1. length \in 1..length /\ length \in Slot
  BY DEF TimerInv, TypeOK, Identifiers, Return, Slot
<1>2. TypeOK'
  BY <1>1 DEF TimerInv, TypeOK, Return, tickVars
<1>3. (Filling /\ Stored /\ Published /\ Identifiers /\ Complete)'
  BY <1>1
  DEF TimerInv, Filling, Stored, Published, Identifiers, Complete, Return
<1> QED
  BY <1>2, <1>3 DEF TimerInv

LEMMA UpdateStep ==
    ASSUME TimerInv, NEW uid \in Slot, NEW interval \in Intervals,
           Update(uid, interval)
    PROVE  TimerInv'
<1>1. interval \in Nat \ {0} /\ uid \in 1..length
  BY TimerAssumption, TickAssumption DEF TimerInv, Identifiers, Update
<1>2. table[uid] \in Entry
  BY DEF TimerInv, TypeOK
<1>3. [table[uid] EXCEPT !.interval = interval] \in Entry
      /\ [table[uid] EXCEPT !.interval = interval].interval = interval
  BY <1>2 DEF Entry
<1>4. table' = [table EXCEPT ![uid] = [table[uid] EXCEPT !.interval = interval]]
  BY DEF Update
<1>5. table' \in [Slot -> Entry] /\ table'[uid].interval = interval
      /\ \A i \in Slot \ {uid} : table'[i] = table[i]
  BY <1>3, <1>4 DEF TimerInv, TypeOK
<1>6. since' \in [Slot -> {NotYet} \cup 0..TickRange]
  BY DEF TimerInv, TypeOK, Update
<1>7. updates' \in 0..MaxUpdates
  BY TimerAssumption, TickAssumption DEF TimerInv, TypeOK, Update
<1>8. TypeOK'
  BY <1>5, <1>6, <1>7 DEF TimerInv, TypeOK, Update
<1>9. (Filling /\ Published /\ Identifiers)'
  BY DEF TimerInv, Filling, Published, Identifiers, Update
<1>10. Stored'
  BY <1>1, <1>5 DEF TimerInv, Stored, Update
<1>11. Complete'
  <2>1. \A i \in 1..length : i \in Slot
    BY TimerAssumption, TickAssumption DEF TimerInv, TypeOK, Slot
  <2> QED
    BY <2>1, <1>1, <1>5 DEF TimerInv, Complete, Update
<1> QED
  BY <1>8, <1>9, <1>10, <1>11 DEF TimerInv

-----------------------------------------------------------------------------
(* The theorems.                                                           *)

LEMMA TimerInit == Init => TimerInv
  BY TimerAssumption, TickAssumption
  DEF Init, TimerInv, TypeOK, Filling, Stored, Published, Identifiers,
      Complete, Slot, Entry, Field, NotYet

LEMMA TimerStep == TimerInv /\ [Next]_vars => TimerInv'
<1> SUFFICES ASSUME TimerInv, [Next]_vars
             PROVE  TimerInv'
  OBVIOUS
<1>1. CASE \E interval \in Intervals, offset \in Offsets : Install(interval, offset)
  BY <1>1, InstallStep
<1>2. CASE Store
  BY <1>2, StoreStep
<1>3. CASE Publish
  BY <1>3, PublishStep
<1>4. CASE Return
  BY <1>4, ReturnStep
<1>5. CASE \E uid \in Slot, interval \in Intervals : Update(uid, interval)
  BY <1>5, UpdateStep
<1>6. CASE Irq0
  BY <1>6, TickStep
<1>7. CASE UNCHANGED vars
  BY <1>7
  DEF vars, TimerInv, TypeOK, Filling, Stored, Published, Identifiers, Complete
<1> QED
  BY <1>1, <1>2, <1>3, <1>4, <1>5, <1>6, <1>7 DEF Next, Main

\* The variables of timer.c keep their types, the counter its range.
THEOREM TimerTypes == Spec => []TypeOK
<1>1. TimerInv => TypeOK
  BY DEF TimerInv
<1> QED
  BY <1>1, TimerInit, TimerStep, PTL DEF Spec

\* Wherever in an installation or between updates a tick comes, the entries it
\* goes through (timer.c:39) have been stored whole and their divisor is not 0.
THEOREM OnlyCompleteEntries == Spec => []Complete
<1>1. TimerInv => Complete
  BY DEF TimerInv
<1> QED
  BY <1>1, TimerInit, TimerStep, PTL DEF Spec
-----------------------------------------------------------------------------
(* Lemmas on the remainder.                                                *)

LEMMA Division ==
    ASSUME NEW n \in Nat \ {0}, NEW a \in Nat
    PROVE  /\ a \div n \in Nat /\ a % n \in 0..n - 1
           /\ a = n * (a \div n) + (a % n)
  OBVIOUS

\* Among n consecutive numbers there is one multiple of n.
LEMMA OneMultiple ==
    ASSUME NEW n \in Nat \ {0}, NEW q \in Int, NEW r \in 0..n - 1,
           r + n * q \in 0..n - 1
    PROVE  q = 0
<1>1. CASE q >= 1
  <2>1. n * q >= n
    BY <1>1
  <2> QED
    BY <2>1
<1>2. CASE q <= -1
  <2>1. n * q <= -n
    BY <1>2
  <2> QED
    BY <2>1
<1> QED
  BY <1>1, <1>2

LEMMA SmallRemainder ==
    ASSUME NEW n \in Nat \ {0}, NEW o \in 0..n - 1
    PROVE  o % n = o
<1>1. o \in Nat
  OBVIOUS
<1>2. o \div n \in Nat /\ o % n \in 0..n - 1
      /\ o = n * (o \div n) + (o % n)
  BY <1>1, Division
<1> DEFINE q == o \div n
           r == o % n
<1>3. q \in Int /\ r \in 0..n - 1 /\ o = n * q + r
  BY <1>2
<1> HIDE DEF q, r
<1>4. r + n * q \in 0..n - 1
  BY <1>3
<1>5. q = 0
  BY <1>3, <1>4, OneMultiple
<1>6. r = o
  BY <1>3, <1>5
<1> QED
  BY <1>6 DEF r

\* The next number with the same remainder comes n later.
LEMMA NextSame ==
    ASSUME NEW n \in Nat \ {0}, NEW a \in Nat, NEW k \in 1..n
    PROVE  (a + k) % n = a % n <=> k = n
<1> DEFINE q == (a + k) \div n
           p == a \div n
           r == a % n
           s == (a + k) % n
           d == q - p
<1>1. p \in Nat /\ r \in 0..n - 1 /\ a = n * p + r
  BY Division
<1>2. a + k \in Nat
  OBVIOUS
<1>3. q \in Nat /\ s \in 0..n - 1 /\ a + k = n * q + s
  BY <1>2, Division
<1> HIDE DEF p, q, r, s
<1>4. n * q - n * p = n * d /\ d \in Int /\ n * (d - 1) = n * d - n
  BY <1>1, <1>3
<1> HIDE DEF d
<1>5. n * (d - 1) = k - n + r - s
  BY <1>1, <1>3, <1>4
<1>6. ASSUME s = r PROVE k = n
  <2>1. (n - 1) + n * (d - 1) \in 0..n - 1
    BY <1>1, <1>5, <1>6
  <2>2. d - 1 = 0
    BY <1>4, <2>1, OneMultiple
  <2>3. n * (d - 1) = 0
    BY <2>2
  <2> QED
    BY <1>1, <1>3, <1>5, <1>6, <2>3
<1>7. ASSUME k = n PROVE s = r
  <2>1. s + n * (d - 1) \in 0..n - 1
    BY <1>1, <1>3, <1>5, <1>7
  <2>2. d - 1 = 0
    BY <1>3, <1>4, <2>1, OneMultiple
  <2> QED
    BY <1>1, <1>3, <1>5, <1>7, <2>2
<1> QED
  BY <1>6, <1>7 DEF r, s

-----------------------------------------------------------------------------
(* The spacing of the calls.                                               *)

\* Without a wrap since the last call, that was the last tick at which the
\* entry was due; behind a wrap, the first one of the new round is to come.
OnTime(i) ==
    LET interval == table[i].interval
        offset == table[i].offset
    IN  since[i] # NotYet =>
        /\ i <= length /\ offset < interval
        /\ \/ /\ since[i] <= ticks /\ since[i] < interval
              /\ (ticks - since[i]) % interval = offset
           \/ ticks < since[i] /\ since[i] - ticks <= interval /\ ticks < offset

OnTimeInv == TimerInv /\ \A i \in Slot : OnTime(i)

\* What a tick does to one of the entries that it goes through.
LEMMA OneTick ==
    ASSUME NEW n \in Nat \ {0}, NEW o \in Nat, NEW t \in 0..TickRange - 1,
           NEW s \in 0..TickRange, o < n,
           \/ s <= t /\ s < n /\ (t - s) % n = o
           \/ t < s /\ s - t <= n /\ t < o
    PROVE  LET u == (t + 1) % TickRange
               w == IF s = TickRange THEN s ELSE s + 1
           IN  /\ u % n = o =>
                     s + 1 = n \/ (s >= u /\ s + 1 <= n + o)
               /\ u % n # o =>
                     \/ w <= u /\ w < n /\ (u - w) % n = o
                     \/ u < w /\ w - u <= n /\ u < o
<1> DEFINE u == (t + 1) % TickRange
           w == IF s = TickRange THEN s ELSE s + 1
<1>1. TickRange \in Nat \ {0}
  BY TimerAssumption, TickAssumption
<1>2. u = IF t + 1 = TickRange THEN 0 ELSE t + 1
  <2>1. CASE t + 1 = TickRange
    BY <1>1, <2>1
  <2>2. CASE t + 1 < TickRange
    BY <1>1, <2>2
  <2> QED
    BY <1>1, <2>1, <2>2
<1>3. 0 % n = 0
  OBVIOUS
<1> HIDE DEF u
<1>4. CASE s <= t /\ s < n /\ (t - s) % n = o
  <2>1. t - s \in Nat /\ s + 1 \in 1..n /\ (t - s) + (s + 1) = t + 1
    BY <1>4
  <2>2. ((t - s) + (s + 1)) % n = (t - s) % n <=> s + 1 = n
    BY <2>1, NextSame
  <2>3. (t + 1) % n = o <=> s + 1 = n
    BY <1>4, <2>1, <2>2
  <2>4. s < TickRange /\ w = s + 1
    BY <1>1, <1>4
  <2>5. CASE u = t + 1
    <3>1. u - w = t - s
      BY <2>4, <2>5
    <3>2. u % n # o => w <= u /\ w < n /\ (u - w) % n = o
      BY <1>4, <2>1, <2>3, <2>4, <2>5, <3>1
    <3> QED
      BY <2>3, <2>5, <3>2 DEF u
  <2>6. CASE u = 0
    <3>1. u % n = o => s >= u /\ s + 1 <= n + o
      BY <1>4, <2>6
    <3>2. u % n # o => u < w /\ w - u <= n /\ u < o
      BY <1>3, <1>4, <2>4, <2>6
    <3> QED
      BY <3>1, <3>2 DEF u
  <2> QED
    BY <1>2, <2>5, <2>6
<1>5. CASE t < s /\ s - t <= n /\ t < o
  <2>1. w \in Nat /\ s <= w /\ w <= s + 1 /\ w <= TickRange /\ w > 0
    BY <1>1, <1>5
  <2>2. u \in Nat /\ (u = 0 \/ u = t + 1) /\ u <= o
    BY <1>2, <1>5
  <2>3. u % n = o => s >= u /\ s + 1 <= n + o
    BY <1>5, <2>2
  <2>4. ASSUME u % n # o
        PROVE  u < w /\ w - u <= n /\ u < o
    <3>1. CASE u = t + 1
      <4>1. o \in 0..n - 1
        OBVIOUS
      <4>2. o % n = o
        BY <4>1, SmallRemainder
      <4>3. u < o /\ t + 1 < TickRange
        BY <1>1, <1>2, <2>2, <2>4, <3>1, <4>2
      <4> QED
        BY <1>1, <1>5, <2>1, <3>1, <4>3
    <3>2. CASE u = 0
      <4>1. t + 1 = TickRange
        BY <1>1, <1>2, <3>2
      <4> QED
        BY <1>5, <2>1, <3>2, <4>1
    <3> QED
      BY <2>2, <3>1, <3>2
  <2> QED
    BY <2>3, <2>4 DEF u
<1> QED
  BY <1>4, <1>5

LEMMA MinusZero ==
    ASSUME NEW t \in Nat
    PROVE  t - 0 = t
  OBVIOUS

LEMMA EntryNumbers ==
    ASSUME NEW e \in Entry
    PROVE  e.interval \in Nat /\ e.offset \in Nat
<1>1. e.interval \in Intervals \cup {0} /\ e.offset \in Offsets \cup {0}
  BY DEF Entry
<1>2. Intervals \cup {0} \subseteq Nat /\ Offsets \cup {0} \subseteq Nat
  BY TimerAssumption, TickAssumption
<1> QED
  BY <1>1, <1>2

LEMMA InstallOnTime ==
    ASSUME OnTimeInv, TimerInv',
           (\E interval \in Intervals, offset \in Offsets :
               Install(interval, offset)) \/ Store \/ Publish \/ Return
    PROVE  OnTimeInv'
<1>1. UNCHANGED <<ticks, since>>
  BY DEF Install, Store, Publish, Return, tickVars
<1>2. length' = length \/ length' = length + 1
  BY DEF Install, Store, Publish, Return
<1>3. length \in Nat /\ length' \in Nat
  BY TimerAssumption, TickAssumption DEF OnTimeInv, TimerInv, TypeOK
<1>4. ASSUME NEW i \in Slot, i <= length
      PROVE  table'[i] = table[i]
  <2>1. CASE Store
    <3>1. table \in [Slot -> Entry] /\ i # length + 1
      BY <1>3, <1>4 DEF OnTimeInv, TimerInv, TypeOK, Slot
    <3>2. table' = table
          \/ \E f : table' = [table EXCEPT ![length + 1][f] = arg[f]]
      BY <2>1, Zenon DEF Store
    <3> QED
      BY <3>1, <3>2
  <2>2. CASE ~Store
    BY <2>2 DEF Install, Publish, Return
  <2> QED
    BY <2>1, <2>2
<1>5. ASSUME NEW i \in Slot
      PROVE  OnTime(i)'
  <2>1. OnTime(i)
    BY DEF OnTimeInv
  <2>2. i \in Int
    BY DEF Slot
  <2> QED
    BY <1>1, <1>2, <1>3, <1>4, <2>1, <2>2 DEF OnTime
<1> QED
  BY <1>5 DEF OnTimeInv

LEMMA UpdateOnTime ==
    ASSUME OnTimeInv, TimerInv', NEW uid \in Slot, NEW interval \in Intervals,
           Update(uid, interval)
    PROVE  OnTimeInv'
<1>1. UNCHANGED <<ticks, length>>
      /\ since' = [since EXCEPT ![uid] = NotYet]
      /\ table' = [table EXCEPT ![uid].interval = interval]
  BY DEF Update
<1>2. DOMAIN since = Slot /\ DOMAIN table = Slot
  BY DEF OnTimeInv, TimerInv, TypeOK
<1>3. ASSUME NEW i \in Slot
      PROVE  OnTime(i)'
  <2>1. CASE i = uid
    <3>1. since'[i] = NotYet
      BY <1>1, <1>2, <2>1
    <3> QED
      BY <3>1 DEF OnTime
  <2>2. CASE i # uid
    <3>1. since'[i] = since[i] /\ table'[i] = table[i]
      BY <1>1, <1>2, <2>2
    <3>2. OnTime(i)
      BY DEF OnTimeInv
    <3> QED
      BY <1>1, <3>1, <3>2 DEF OnTime
  <2> QED
    BY <2>1, <2>2
<1> QED
  BY <1>3 DEF OnTimeInv

\* What the invariant says of an entry that has been called.
LEMMA Called ==
    ASSUME OnTimeInv, NEW i \in Slot, since[i] # NotYet
    PROVE  /\ i \in 1..length
           /\ table[i].interval \in Nat \ {0} /\ table[i].offset \in Nat
           /\ ticks \in 0..TickRange - 1 /\ since[i] \in 0..TickRange
           /\ OnTime(i)
<1>1. OnTime(i) /\ i \in Nat \ {0}
  BY TimerAssumption, TickAssumption DEF OnTimeInv, Slot
<1>2. length \in Nat /\ table[i] \in Entry
  BY TimerAssumption, TickAssumption DEF OnTimeInv, TimerInv, TypeOK
<1>3. i \in 1..length
  BY <1>1, <1>2 DEF OnTime
<1>4. table[i].interval # 0
  BY <1>3 DEF OnTimeInv, TimerInv, Complete
<1>5. table[i].interval \in Nat /\ table[i].offset \in Nat
  BY <1>2, EntryNumbers
<1>6. ticks \in 0..TickRange - 1 /\ since[i] \in 0..TickRange
  BY DEF OnTimeInv, TimerInv, TypeOK
<1> QED
  BY <1>1, <1>3, <1>4, <1>5, <1>6

LEMMA TickOnTime ==
    ASSUME OnTimeInv, TimerInv', Irq0
    PROVE  OnTimeInv'
<1>1. /\ ticks' = (ticks + 1) % TickRange /\ UNCHANGED <<length, table>>
      /\ called' = {i \in 1..length : table[i].interval # 0 /\ Due(i, ticks')}
      /\ since' = [i \in Slot |-> IF i \in called' THEN 0 ELSE Older(since[i])]
  BY DEF CountTick, Irq0
<1>2. ASSUME NEW i \in Slot
      PROVE  OnTime(i)'
  <2> DEFINE n == table[i].interval
             o == table[i].offset
  <2>1. ticks' \in 0..TickRange - 1
    BY DEF TimerInv, TypeOK
  <2>2. CASE i \in called'
    <3>1. since'[i] = 0 /\ i \in 1..length
      BY <1>1, <2>2
    <3>2. table[i] \in Entry /\ n # 0 /\ ticks' % n = o /\ length \in Nat
      BY <1>1, <2>2, TimerAssumption, TickAssumption DEF Due, OnTimeInv, TimerInv, TypeOK
    <3>3. n \in Nat \ {0} /\ o \in Nat
      BY <3>2, EntryNumbers
    <3>4. ticks' \in Nat
      BY <2>1, TimerAssumption, TickAssumption
    <3> HIDE DEF n, o
    <3>5. o < n
      <4>1. ticks' % n \in 0..n - 1
        BY <3>3, <3>4, Division
      <4> QED
        BY <3>2, <3>3, <4>1
    <3>6. ticks' - 0 = ticks'
      BY <3>4, MinusZero
    <3>7. 0 <= ticks' /\ 0 < n /\ i <= length
      BY <3>1, <3>2, <3>3, <3>4
    <3>8. /\ since'[i] <= ticks' /\ since'[i] < n
          /\ (ticks' - since'[i]) % n = o
      BY <3>1, <3>2, <3>6, <3>7, Zenon
    <3> QED
      BY <1>1, <3>5, <3>7, <3>8, Zenon DEF OnTime, n, o
  <2>3. CASE i \notin called' /\ since[i] = NotYet
    <3>1. since'[i] = NotYet
      BY <1>1, <2>3 DEF Older
    <3> QED
      BY <3>1 DEF OnTime
  <2>4. CASE i \notin called' /\ since[i] # NotYet
    <3> DEFINE s == since[i]
               w == IF s = TickRange THEN s ELSE s + 1
    <3>1. /\ i \in 1..length /\ n \in Nat \ {0} /\ o \in Nat
          /\ ticks \in 0..TickRange - 1 /\ s \in 0..TickRange
          /\ OnTime(i)
      BY <2>4, Called
    <3>2. ticks' % n # o
      BY <1>1, <2>4, <3>1 DEF Due
    <3>3. /\ o < n
          /\ \/ s <= ticks /\ s < n /\ (ticks - s) % n = o
             \/ ticks < s /\ s - ticks <= n /\ ticks < o
      BY <2>4, <3>1 DEF OnTime
    <3>4. since'[i] = w
      BY <1>1, <2>4 DEF Older
    <3> HIDE DEF n, o, s
    <3>5. \/ w <= ticks' /\ w < n /\ (ticks' - w) % n = o
          \/ ticks' < w /\ w - ticks' <= n /\ ticks' < o
      BY <1>1, <3>1, <3>2, <3>3, OneTick
    <3> HIDE DEF w
    <3>6. i <= length
      BY <3>1
    <3> QED
      BY <1>1, <3>3, <3>4, <3>5, <3>6 DEF OnTime, n, o
  <2> QED
    BY <2>2, <2>3, <2>4
<1> QED
  BY <1>2 DEF OnTimeInv

LEMMA InitOnTime == Init => OnTimeInv
  BY TimerInit DEF Init, OnTimeInv, OnTime

LEMMA NextOnTime == OnTimeInv /\ [Next]_vars => OnTimeInv'
<1> SUFFICES ASSUME OnTimeInv, [Next]_vars
             PROVE  OnTimeInv'
  OBVIOUS
<1>1. TimerInv'
  BY TimerStep DEF OnTimeInv
<1>2. CASE \E interval \in Intervals, offset \in Offsets : Install(interval, offset)
  BY <1>1, <1>2, InstallOnTime
<1>3. CASE Store \/ Publish \/ Return
  BY <1>1, <1>3, InstallOnTime
<1>4. CASE \E uid \in Slot, interval \in Intervals : Update(uid, interval)
  BY <1>1, <1>4, UpdateOnTime
<1>5. CASE Irq0
  BY <1>1, <1>5, TickOnTime
<1>6. CASE UNCHANGED vars
  BY <1>1, <1>6 DEF vars, OnTimeInv, OnTime
<1> QED
  BY <1>2, <1>3, <1>4, <1>5, <1>6 DEF Next, Main

\* Whatever the counter's range, the intervals and the offsets, two calls of a
\* callback (timer.c:36-45) are its interval apart; only across a wrap of the
\* counter are they closer, or further apart by up to the offset.
THEOREM CallsAreSpaced == Spec => EvenlySpaced
<1> DEFINE Step == \A i \in Slot :
              since[i] # NotYet /\ i \in called' /\ ticks' # ticks =>
                 \/ since[i] + 1 = table[i].interval
                 \/ /\ since[i] >= ticks'
                    /\ since[i] + 1 <= table[i].interval + table[i].offset
<1>1. OnTimeInv /\ [Next]_vars => [Step]_vars
  <2> SUFFICES ASSUME OnTimeInv, Next, NEW i \in Slot,
                      since[i] # NotYet, i \in called', ticks' # ticks
               PROVE  \/ since[i] + 1 = table[i].interval
                      \/ /\ since[i] >= ticks'
                         /\ since[i] + 1 <= table[i].interval + table[i].offset
    OBVIOUS
  <2> DEFINE n == table[i].interval
             o == table[i].offset
             s == since[i]
  <2>1. Irq0
    BY DEF Next, Main, Install, Store, Publish, Return, Update, tickVars
  <2>2. ticks' = (ticks + 1) % TickRange /\ ticks' % n = o
    BY <2>1 DEF CountTick, Irq0, Due
  <2>3. /\ n \in Nat \ {0} /\ o \in Nat
        /\ ticks \in 0..TickRange - 1 /\ s \in 0..TickRange
        /\ OnTime(i)
    BY Called
  <2>4. /\ o < n
        /\ \/ s <= ticks /\ s < n /\ (ticks - s) % n = o
           \/ ticks < s /\ s - ticks <= n /\ ticks < o
    BY <2>3 DEF OnTime
  <2> HIDE DEF n, o, s
  <2>5. s + 1 = n \/ (s >= ticks' /\ s + 1 <= n + o)
    BY <2>2, <2>3, <2>4, OneTick
  <2> QED
    BY <2>5 DEF n, o, s
<1>2. []OnTimeInv /\ [][Next]_vars => [][Step]_vars
  BY <1>1, PTL
<1>3. Spec => []OnTimeInv /\ [][Next]_vars
  BY InitOnTime, NextOnTime, PTL DEF Spec
<1> QED
  BY <1>2, <1>3 DEF EvenlySpaced

-----------------------------------------------------------------------------
(* The port: its calls wait on the counter that the tick counts up.        *)

\* The byte of a call for device 1 is under way behind its 0xd4.
Announced == place \in {"writewait", "write"} /\ dev = 1

\* The controller expects a byte for device 1, or is about to, while a call has
\* announced one and not yet written it, behind a call that was cut, and not
\* otherwise.
InStep ==
    /\ IF Announced \/ cut THEN ibf = Cmd \/ prefixed
       ELSE ibf # Cmd /\ (ibf = Empty => ~prefixed)
    /\ Announced => ibf \in {Cmd, Empty} /\ ~cut
    /\ cut => ibf # 1

\* What a call writes finds the input buffer empty.
RoomToWrite == place = "write" => ibf = Empty

\* What a wait reads off the counter has really passed.
Counted ==
    place \in {"writewait", "readwait"} => elapsed >= (ticks - start) % TickRange

PortInv ==
    /\ PortTypeOK /\ Counted /\ RoomToWrite /\ InStep /\ RightDevice
    /\ place = "command" => dev = 1

-----------------------------------------------------------------------------
LEMMA Difference ==
    ASSUME NEW t \in 0..TickRange - 1, NEW s \in 0..TickRange - 1
    PROVE  (t - s) % TickRange = IF t >= s THEN t - s ELSE t - s + TickRange
<1>1. TickRange \in Nat \ {0}
  BY TickAssumption
<1>2. CASE t >= s
  BY <1>1, <1>2
<1>3. CASE ~(t >= s)
  BY <1>1, <1>3
<1> QED
  BY <1>2, <1>3

\* A tick takes at most one off what is left of a time-out.
LEMMA TickCounts ==
    ASSUME NEW t \in 0..TickRange - 1, NEW s \in 0..TickRange - 1
    PROVE  /\ (((t + 1) % TickRange) - s) % TickRange <= ((t - s) % TickRange) + 1
           /\ (t - s) % TickRange \in 0..TickRange - 1
<1>1. TickRange \in Nat \ {0}
  BY TickAssumption
<1>2. (t + 1) % TickRange = IF t = TickRange - 1 THEN 0 ELSE t + 1
  BY <1>1
<1>3. (t + 1) % TickRange \in 0..TickRange - 1
  BY Wraps
<1> QED
  BY <1>1, <1>2, <1>3, Difference

LEMMA PortStarts == PortInit => PortInv
<1> SUFFICES ASSUME PortInit
             PROVE  PortInv
  OBVIOUS
<1>1. 0 \in 0..TickRange - 1 /\ 0 \in 0..TickRange
  BY TickAssumption
<1>2. PortTypeOK
  BY <1>1 DEF PortInit, PortTypeOK, Device, Empty, Cmd
<1> QED
  BY <1>2 DEF PortInit, PortInv, RoomToWrite, InStep, RightDevice,
     Announced, Counted, Device, Empty, Cmd

LEMMA PortStep ==
    ASSUME PortInv, [PortNext]_portVars
    PROVE  PortInv'
<1> USE DEF PortInv, PortTypeOK, RoomToWrite, InStep,
        RightDevice, Announced,
        Counted, Device, Empty, Cmd, callVars, controllerVars
<1>1. ASSUME NEW c \in {"main", "handler"}, ReceiveByte(c)
      PROVE  PortInv'
  BY <1>1, PortAssumption, TickAssumption DEF ReceiveByte, StartWait
<1>2. ASSUME NEW c \in {"main", "handler"}, NEW d \in Device, SendByte(c, d)
      PROVE  PortInv'
  BY <1>2, PortAssumption, TickAssumption DEF SendByte, StartWait
<1>3. CASE SendCommand
  <2>1. ibf' = Cmd /\ cut' = FALSE /\ place' = "writewait" /\ dev' = 1
    BY <1>3 DEF SendCommand, StartWait
  <2>2. PortTypeOK'
    <3>1. start' \in 0..TickRange - 1 /\ elapsed' \in 0..TickRange
      BY <1>3, TickAssumption DEF SendCommand, StartWait
    <3>2. /\ place' = "writewait" /\ ibf' = Cmd /\ cut' = FALSE
          /\ UNCHANGED <<ticks, ctx, dev, result, obf, prefixed, hung>>
      BY <1>3 DEF SendCommand, StartWait
    <3> QED
      BY <3>1, <3>2, Zenon DEF PortInv, PortTypeOK
  <2>3. Counted'
    BY <1>3, PortAssumption, TickAssumption DEF SendCommand, StartWait
  <2> QED
    BY <2>1, <2>2, <2>3
<1>4. CASE WaitForWrite
  <2>1. CASE TimeLeft(WriteTimeout)
    <3>1. /\ ibf = Empty /\ place' = "write"
          /\ UNCHANGED <<ticks, ctx, dev, start, elapsed, result, ibf, obf,
                         prefixed, hung, cut>>
      BY <1>4, <2>1 DEF WaitForWrite
    <3> QED
      BY <1>4, <3>1 DEF WaitForWrite
  <2>2. CASE ~TimeLeft(WriteTimeout) /\ dev = 1
    <3>1. place' = "idle" /\ result' = 1 /\ cut' = TRUE
      BY <1>4, <2>2 DEF WaitForWrite, Finish
    <3>2. UNCHANGED <<ticks, ctx, dev, start, elapsed, ibf, obf, prefixed, hung>>
      BY <1>4 DEF WaitForWrite
    <3>3. ibf \in {Cmd, Empty} /\ (ibf = Cmd \/ prefixed)
      BY <1>4, <2>2 DEF WaitForWrite
    <3> QED
      BY <3>1, <3>2, <3>3
  <2>3. CASE ~TimeLeft(WriteTimeout) /\ dev # 1
    <3>1. place' = "idle" /\ result' = 1 /\ cut' = cut
      BY <1>4, <2>3 DEF WaitForWrite, Finish
    <3>2. UNCHANGED <<ticks, ctx, dev, start, elapsed, ibf, obf, prefixed, hung>>
      BY <1>4 DEF WaitForWrite
    <3> QED
      BY <2>3, <3>1, <3>2
  <2> QED
    BY <2>1, <2>2, <2>3
<1>5. CASE Write
  BY <1>5 DEF Write, Finish
<1>6. CASE WaitForRead
  BY <1>6 DEF WaitForRead, Finish
<1>7. CASE Read
  BY <1>7 DEF Read, Finish
<1>8. CASE Tick
  <2>1. ticks' \in 0..TickRange - 1
    BY <1>8, Wraps DEF CountTick, Tick
  <2>2. (ticks' - start) % TickRange <= ((ticks - start) % TickRange) + 1
    BY <1>8, TickCounts DEF CountTick, Tick
  <2>3. (ticks' - start) % TickRange \in 0..TickRange - 1
    BY <2>1, TickCounts
  <2> QED
    BY <1>8, <2>1, <2>2, <2>3, TickCounts, PortAssumption, TickAssumption DEF CountTick, Tick
<1>9. CASE Accept
  <2>1. CASE ibf = Cmd
    <3>1. prefixed' = TRUE
      BY <1>9, <2>1 DEF Accept
    <3> QED
      BY <1>9, <2>1, <3>1 DEF Accept
  <2>2. CASE ibf # Cmd
    <3>1. prefixed' = FALSE
      BY <1>9, <2>2 DEF Accept
    <3> QED
      BY <1>9, <2>2, <3>1 DEF Accept
  <2> QED
    BY <2>1, <2>2
<1>10. CASE DeviceSends
  BY <1>10 DEF DeviceSends
<1>11. CASE Hang
  BY <1>11 DEF Hang
<1>12. CASE UNCHANGED portVars
  BY <1>12 DEF portVars
<1> QED
  BY <1>1, <1>2, <1>3, <1>4, <1>5, <1>6, <1>7, <1>8, <1>9, <1>10, <1>11, <1>12
  DEF PortNext, Caller

\* The caller's variables and the controller's buffers keep their types.
THEOREM PortTypes == PortSpec => []PortTypeOK
<1>1. PortInv => PortTypeOK
  BY DEF PortInv
<1> QED
  BY <1>1, PortStarts, PortStep, PTL DEF PortSpec

\* Whoever sends, and however slow the controller is, a byte is taken for
\* device 1 exactly if it is meant for it (ps2.c:637), but for one byte behind
\* each call that was cut.
THEOREM BytesArrive == PortSpec => []RightDevice
<1>1. PortInv => RightDevice
  BY DEF PortInv
<1> QED
  BY <1>1, PortStarts, PortStep, PTL DEF PortSpec

\* A wait that gives up (ps2.c:229, :252) has seen its ticks go by, also across
\* the wrap of the counter.
THEOREM NoEarlyTimeout == PortSpec => TimeoutsAreReal
<1> DEFINE Waited ==
        /\ place = "writewait" /\ place' = "idle" => elapsed >= WriteTimeout
        /\ place = "readwait" /\ place' = "idle" => elapsed >= ReadTimeout
<1>1. ASSUME PortInv, [PortNext]_portVars
      PROVE  [Waited]_portVars
  <2> USE DEF PortInv, PortTypeOK, Counted, TimeLeft,
          StartWait, Finish
  <2>1. ASSUME NEW c \in {"main", "handler"}, ReceiveByte(c)
        PROVE  Waited
    BY <2>1 DEF ReceiveByte
  <2>2. ASSUME NEW c \in {"main", "handler"}, NEW d \in Device, SendByte(c, d)
        PROVE  Waited
    BY <2>2 DEF SendByte
  <2>3. CASE SendCommand \/ Write \/ Read
    BY <2>3 DEF SendCommand, Write, Read
  <2>4. CASE WaitForWrite \/ WaitForRead
    <3>1. (ticks - start) % TickRange \in 0..TickRange - 1
      BY <1>1, TickCounts
    <3> QED
      BY <1>1, <2>4, <3>1, PortAssumption, TickAssumption DEF WaitForWrite, WaitForRead
  <2>5. CASE Tick \/ Accept \/ DeviceSends \/ Hang
    BY <2>5 DEF CountTick, Tick, Accept, DeviceSends, Hang
  <2>6. CASE UNCHANGED portVars
    BY <2>6
  <2> QED
    BY <1>1, <2>1, <2>2, <2>3, <2>4, <2>5, <2>6 DEF PortNext, Caller
<1> QED
  BY <1>1, PortStarts, PortStep, PTL DEF PortSpec, TimeoutsAreReal
=============================================================================
