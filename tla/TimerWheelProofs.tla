-------------------------- MODULE TimerWheelProofs --------------------------
(***************************************************************************)
(* TimerWheel for every size of the wheels and any number of threads that  *)
(* add: the types, that m_TimerCount is the number of timers that have not *)
(* ended, that no hand-over from wheel to wheel loses or delays a timer    *)
(* that is due in its round, and that no callback runs early.  The count   *)
(* is kept by three paths that add and two that end, while an event that   *)
(* is not due stands in two lists until clear(); where an event is listed  *)
(* is a matter of the digits of the clock in which it differs from its end.*)
(***************************************************************************)
EXTENDS TimerWheel, FiniteSetTheorems, TLAPS

Reading == [pc : {"read"}, new : [interval : Intervals, tick : Ticks], raced : BOOLEAN]
Locking == [pc : {"locked"}, new : [interval : Intervals, tick : Ticks], slot : Ticks,
            raced : BOOLEAN]

Domains ==
    /\ event \in [Timers -> [interval : Intervals \cup {0}, tick : Ticks]]
    /\ age \in [Timers -> Int]
    /\ raced \in [Timers -> BOOLEAN]
    /\ adder \in [Adders -> {Idle} \cup Reading \cup Locking]
    /\ lock \in Adders \cup {FREE, TIMER}

\* Whoever holds the lock to add has seen that there is room.
RoomKept == \A a \in Adders : adder[a].pc = "locked" => timerCount # MaxTimers

\* The list that is walked is one, and what is still to be looked at is in it.
WalkInv ==
    /\ timerPc # "idle" => CurWheel \in Slots
    /\ timerPc # "deal" => todo = {}
    /\ timerPc = "deal" => todo \subseteq lists[CurWheel]

\* Only timers that have not ended are listed, and in one list, but for those
\* that the walk has moved on and clear() has not yet dropped.
ListInv ==
    /\ \A s \in Slots : lists[s] \subseteq Running
    /\ \A r, s \in Slots : \A t \in lists[r] \cap lists[s] :
           r # s => /\ timerPc \in {"deal", "clear"}
                    /\ t \notin todo
                    /\ CurWheel \in {r, s}

Counted == IsFiniteSet(Running) /\ TimerCountExact

IInv == TypeOK /\ Domains /\ RoomKept /\ WalkInv /\ ListInv /\ Counted

-----------------------------------------------------------------------------
(* Arithmetic.                                                             *)

\* Multiplication by a natural number keeps the order.
LEMMA TimesKeepsOrder ==
    ASSUME NEW a \in Nat, NEW b \in Int, NEW c \in Int, b <= c
    PROVE  a * b <= a * c
  OBVIOUS

\* Quotient and remainder of a natural number.
LEMMA Division ==
    ASSUME NEW x \in Nat, NEW d \in Nat \ {0}
    PROVE  /\ x \div d \in Nat /\ x % d \in Nat
           /\ x = d * (x \div d) + (x % d)
           /\ x % d < d
  OBVIOUS

\* The remainder is the only one.
LEMMA RemainderUnique ==
    ASSUME NEW d \in Nat \ {0}, NEW n \in Nat, NEW r \in Nat, r < d
    PROVE  (d * n + r) % d = r
<1> DEFINE x == d * n + r
<1>0. x \in Nat OBVIOUS
<1>1. PICK q \in Nat, s \in Nat : x = d * q + s /\ s < d /\ s = x % d
  BY <1>0, Division
<1>2. d * (q - n) = r - s /\ d * (n - q) = s - r
  <2>1. d * (q - n) = d * q - d * n /\ d * (n - q) = d * n - d * q OBVIOUS
  <2>2. d * q \in Int /\ d * n \in Int /\ d * n + r = d * q + s BY <1>1
  <2> QED BY <2>1, <2>2
<1>3. q - n < 1
  <2>1. SUFFICES ASSUME q - n >= 1 PROVE FALSE OBVIOUS
  <2>2. d * 1 <= d * (q - n) BY <2>1, TimesKeepsOrder
  <2> QED BY <2>2, <1>1, <1>2
<1>4. n - q < 1
  <2>1. SUFFICES ASSUME n - q >= 1 PROVE FALSE OBVIOUS
  <2>2. d * 1 <= d * (n - q) BY <2>1, TimesKeepsOrder
  <2> QED BY <2>2, <1>1, <1>2
<1>5. q = n BY <1>3, <1>4
<1> QED BY <1>1, <1>5

\* A multiple divided by its factor.
LEMMA ExactQuotient ==
    ASSUME NEW d \in Nat \ {0}, NEW n \in Nat
    PROVE  (d * n) \div d = n
<1>1. (d * n) % d = 0
  <2>1. d * n + 0 = d * n OBVIOUS
  <2> QED BY <2>1, RemainderUnique
<1>2. PICK q \in Nat : q = (d * n) \div d /\ d * n = d * q + 0
  <2>1. d * n \in Nat OBVIOUS
  <2> QED BY <1>1, <2>1, Division
<1>3. q <= n
  <2>1. SUFFICES ASSUME q >= n + 1 PROVE FALSE OBVIOUS
  <2>2. d * (n + 1) <= d * q BY <2>1, TimesKeepsOrder
  <2> QED BY <2>2, <1>2
<1>4. n <= q
  <2>1. SUFFICES ASSUME n >= q + 1 PROVE FALSE OBVIOUS
  <2>2. d * (q + 1) <= d * n BY <2>1, TimesKeepsOrder
  <2> QED BY <2>2, <1>2
<1> QED BY <1>2, <1>3, <1>4

\* The digit that a slot takes from a time is one of its wheel.
LEMMA DigitInRange ==
    ASSUME NEW x \in Nat, NEW a \in Nat \ {0}, NEW b \in Nat \ {0}
    PROVE  (x % (a * b)) \div a \in 0..(b - 1)
<1>1. a * b \in Nat \ {0} OBVIOUS
<1>2. PICK y \in Nat : y = x % (a * b) /\ y < a * b BY <1>1, Division
<1>3. PICK q \in Nat : q = y \div a /\ a * q <= y BY Division
<1>4. q < b
  <2>1. SUFFICES ASSUME b <= q PROVE FALSE OBVIOUS
  <2>2. a * b <= a * q BY <2>1, TimesKeepsOrder
  <2> QED BY <2>2, <1>2, <1>3
<1> QED BY <1>2, <1>3, <1>4

-----------------------------------------------------------------------------
(* The wheels.                                                             *)

\* The units of time are positive, and a round fits into a word.
LEMMA Units ==
    /\ SecMs \in Nat \ {0} /\ MinMs \in Nat \ {0} /\ RoundMs \in Nat \ {0}
    /\ RoundMs < WordSize /\ WordSize \in Nat \ {0}
<1>1. SecMs \in Nat \ {0} BY WheelAssumption DEF SecMs
<1>2. MinMs \in Nat \ {0} BY <1>1, WheelAssumption DEF MinMs
<1>3. RoundMs \in Nat \ {0}
  <2>1. MinTick \in Nat \ {0} BY WheelAssumption
  <2> QED BY ONLY <1>2, <2>1 DEF RoundMs
<1> QED BY <1>1, <1>2, <1>3, WheelAssumption

\* _calculate_msec() of a tick lies within the round, a tick before its end.
LEMMA MsecInRound ==
    ASSUME NEW tick \in Ticks
    PROVE  Msec(tick) \in Nat /\ Msec(tick) + RefreshInterval <= RoundMs
<1> DEFINE a == RefreshInterval * tick.Ms
           b == SecMs * tick.Sec
           c == MinMs * tick.Min
<1>1. tick.Ms \in Nat /\ tick.Ms <= MsecTick - 1 /\ tick.Sec \in Nat /\ tick.Sec <= SecTick - 1
      /\ tick.Min \in Nat /\ tick.Min <= MinTick - 1
  BY WheelAssumption DEF Ticks
<1>2. a \in Nat /\ a <= SecMs - RefreshInterval
  <2>1. RefreshInterval * tick.Ms <= RefreshInterval * (MsecTick - 1)
    BY <1>1, WheelAssumption, TimesKeepsOrder
  <2>2. RefreshInterval * (MsecTick - 1) = SecMs - RefreshInterval
    BY WheelAssumption DEF SecMs
  <2> QED BY <2>1, <2>2, <1>1, WheelAssumption
<1>3. b \in Nat /\ b <= MinMs - SecMs
  <2>1. SecMs * tick.Sec <= SecMs * (SecTick - 1)
    BY <1>1, WheelAssumption, Units, TimesKeepsOrder
  <2>2. SecMs * (SecTick - 1) = MinMs - SecMs
    BY WheelAssumption, Units DEF MinMs
  <2> QED BY <2>1, <2>2, <1>1, Units
<1>4. c \in Nat /\ c <= RoundMs - MinMs
  <2>1. MinMs * tick.Min <= MinMs * (MinTick - 1)
    BY <1>1, WheelAssumption, Units, TimesKeepsOrder
  <2>2. MinMs * (MinTick - 1) = RoundMs - MinMs
    BY WheelAssumption, Units DEF RoundMs
  <2> QED BY <2>1, <2>2, <1>1, Units
<1>5. Msec(tick) = a + b + c BY DEF Msec
<1> HIDE DEF a, b, c
<1> QED BY <1>2, <1>3, <1>4, <1>5, Units, WheelAssumption

\* _get_next_trigger_slot() returns a tick, whatever the interval.
LEMMA SlotIsTick ==
    ASSUME NEW now \in Ticks, NEW interval \in Int
    PROVE  NextTriggerSlot(now, interval) \in Ticks
<1> DEFINE future == (Msec(now) + interval) % WordSize
<1>1. future \in Nat BY MsecInRound, Units
<1> HIDE DEF future
<1>2. (future % SecMs) \div RefreshInterval \in 0..(MsecTick - 1)
  BY <1>1, WheelAssumption, DigitInRange DEF SecMs
<1>3. (future % MinMs) \div SecMs \in 0..(SecTick - 1)
  BY <1>1, WheelAssumption, Units, DigitInRange DEF MinMs
<1>4. (future \div MinMs) % MinTick \in 0..(MinTick - 1)
  <2>1. future \div MinMs \in Nat BY <1>1, Units, Division
  <2> QED BY <2>1, WheelAssumption, Division
<1> QED BY <1>2, <1>3, <1>4 DEF NextTriggerSlot, Ticks, future

\* A tick is never the one before it: at least their Ms differ.
LEMMA TickMoves ==
    ASSUME NEW tick \in Ticks
    PROVE  NextTriggerSlot(tick, RefreshInterval).Ms # tick.Ms
<1> DEFINE future == Msec(tick) + RefreshInterval
           n == tick.Sec + SecTick * tick.Min
           r == RefreshInterval * (tick.Ms + 1)
<1>0. /\ tick.Ms \in Nat /\ tick.Ms <= MsecTick - 1 /\ tick.Sec \in Nat /\ tick.Min \in Nat
      /\ RefreshInterval \in Nat \ {0, 1} /\ MsecTick \in Nat \ {0, 1} /\ SecTick \in Nat
  BY WheelAssumption DEF Ticks
<1>1. future \in Nat /\ future % WordSize = future
  <2>1. future \in Nat /\ future < WordSize BY MsecInRound, Units, <1>0
  <2>2. WordSize * 0 + future = future BY <2>1, Units
  <2> QED BY <2>1, <2>2, Units, RemainderUnique
<1>2. n \in Nat /\ r \in Nat BY <1>0
<1>3. future = SecMs * n + r
  <2>1. SecMs * n = SecMs * tick.Sec + MinMs * tick.Min
    BY <1>0, Units DEF MinMs
  <2>2. r = RefreshInterval * tick.Ms + RefreshInterval BY <1>0
  <2>3. RefreshInterval * tick.Ms \in Nat /\ SecMs * tick.Sec \in Nat /\ MinMs * tick.Min \in Nat
    BY <1>0, Units
  <2>4. future = RefreshInterval * tick.Ms + SecMs * tick.Sec + MinMs * tick.Min + RefreshInterval
    BY DEF Msec
  <2> HIDE DEF future, n, r
  <2> QED BY <2>1, <2>2, <2>3, <2>4, <1>0
<1>4. NextTriggerSlot(tick, RefreshInterval).Ms = (future % SecMs) \div RefreshInterval
  BY <1>1 DEF NextTriggerSlot
<1>5. CASE tick.Ms + 1 < MsecTick
  <2>1. r < SecMs
    <3>1. RefreshInterval * (tick.Ms + 2) <= RefreshInterval * MsecTick
      BY <1>0, <1>5, TimesKeepsOrder
    <3>2. RefreshInterval * (tick.Ms + 2) = r + RefreshInterval BY <1>0
    <3> HIDE DEF r
    <3> QED BY <3>1, <3>2, <1>0, <1>2, Units DEF SecMs
  <2>2. future % SecMs = r
    <3> HIDE DEF future, n, r
    <3> QED BY <2>1, <1>2, <1>3, Units, RemainderUnique
  <2>3. r \div RefreshInterval = tick.Ms + 1
    BY <1>0, ExactQuotient
  <2> QED BY <2>2, <2>3, <1>4, <1>0
<1>6. CASE tick.Ms + 1 = MsecTick
  <2>1. r = SecMs BY <1>6 DEF SecMs
  <2>2. future = SecMs * (n + 1) + 0
    <3> HIDE DEF future, n, r
    <3> QED BY <2>1, <1>2, <1>3, Units
  <2>3. future % SecMs = 0
    <3> HIDE DEF future, n, r
    <3> QED BY <2>2, <1>2, Units, RemainderUnique
  <2>4. 0 \div RefreshInterval = 0
    <3>1. RefreshInterval * 0 = 0 BY <1>0
    <3> QED BY <3>1, <1>0, ExactQuotient
  <2> QED BY <2>3, <2>4, <1>4, <1>6, <1>0
<1> QED BY <1>5, <1>6, <1>0

\* The list for a tick that is not the present one.
LEMMA WheelIsSlot ==
    ASSUME NEW e \in Ticks, NEW now \in Ticks
    PROVE  /\ WheelOf(e, now) \in Slots \cup {NOWHERE}
           /\ e.Ms # now.Ms => WheelOf(e, now) \in Slots
BY DEF WheelOf, Slots, Ticks, NOWHERE

\* A push puts a timer into one list at most.
LEMMA PushAdds ==
    ASSUME NEW ls \in [Slots -> SUBSET Timers], NEW t \in Timers, NEW slot
    PROVE  /\ Push(ls, t, slot) \in [Slots -> SUBSET Timers]
           /\ \A s \in Slots : /\ s = slot => Push(ls, t, slot)[s] = ls[s] \cup {t}
                               /\ s # slot => Push(ls, t, slot)[s] = ls[s]
BY DEF Push

-----------------------------------------------------------------------------
(* The invariant.                                                          *)

LEMMA InitIInv == Init => IInv
<1> SUFFICES ASSUME Init PROVE IInv OBVIOUS
<1>0. [Min |-> 0, Sec |-> 0, Ms |-> 0] \in Ticks BY WheelAssumption DEF Ticks
<1>1. Running = {} BY DEF Init, Running
<1>2. TypeOK
  <2>1. \A t \in Timers : age[t] \in -1..(event[t].interval + LATE)
    BY WheelAssumption DEF Init, NoEvent, LATE
  <2>2. lock = TIMER <=> timerPc = "deal" BY DEF Init, FREE, TIMER
  <2>3. \A a \in Adders : lock = a <=> adder[a].pc = "locked"
    BY AddersAssumption DEF Init, Idle
  <2> QED BY <1>0, <2>1, <2>2, <2>3, WheelAssumption DEF Init, TypeOK, NoEvent
<1>3. Domains BY <1>0 DEF Init, Domains, NoEvent
<1>4. RoomKept BY DEF Init, RoomKept, Idle
<1>5. WalkInv BY DEF Init, WalkInv
<1>6. ListInv BY DEF Init, ListInv
<1>7. Counted BY <1>1, FS_EmptySet DEF Init, Counted, TimerCountExact
<1> QED BY <1>2, <1>3, <1>4, <1>5, <1>6, <1>7 DEF IInv

\* What moves neither clock, lists nor timers keeps what is said of them.
LEMMA ListsUntouched ==
    ASSUME WalkInv, ListInv, Counted,
           UNCHANGED <<timeTick, preTick, timerPc, todo, lists, age, timerCount>>
    PROVE  WalkInv' /\ ListInv' /\ Counted'
<1>1. CurWheel' = CurWheel BY DEF CurWheel, WheelOf
<1>2. Running' = Running BY DEF Running
<1> QED BY <1>1, <1>2 DEF WalkInv, ListInv, Counted, TimerCountExact

\* An unlocked read returns a tick.
LEMMA ReadsAreTicks == ASSUME TypeOK, NEW now \in TickReads PROVE now \in Ticks
BY DEF TypeOK, TickReads, Ticks

\* The tick, where a thread has one, and its list, are in the wheels.
LEMMA AdderFields ==
    ASSUME Domains, NEW a \in Adders
    PROVE  /\ adder[a].pc = "read" => adder[a] \in Reading
           /\ adder[a].pc = "locked" => adder[a] \in Locking
           /\ adder[a].pc = "idle" => adder[a] = Idle
BY DEF Domains, Idle, Reading, Locking

LEMMA AddReadKeeps == ASSUME IInv, NEW a \in Adders, AddRead(a) PROVE IInv'
<1>1. PICK i \in Intervals, now \in TickReads :
          adder' = [adder EXCEPT ![a] =
              [pc |-> "read", new |-> [interval |-> i, tick |-> now], raced |-> now # timeTick]]
  BY DEF AddRead
<1> DEFINE rec == [pc |-> "read", new |-> [interval |-> i, tick |-> now], raced |-> now # timeTick]
<1>2. rec \in Reading
  <2>1. now \in Ticks BY ReadsAreTicks DEF IInv
  <2>2. (now # timeTick) \in BOOLEAN OBVIOUS
  <2> QED BY <2>1, <2>2 DEF Reading
<1>3. rec.pc = "read" OBVIOUS
<1>4. adder' = [adder EXCEPT ![a] = rec] BY <1>1
<1> HIDE DEF rec
<1>5. Domains' BY <1>2, <1>4 DEF IInv, Domains, AddRead
<1>6. \A x \in Adders : adder'[x].pc = "locked" <=> adder[x].pc = "locked"
  BY <1>3, <1>4 DEF IInv, Domains, AddRead
<1>7. TypeOK' BY <1>6 DEF IInv, TypeOK, AddRead
<1>8. RoomKept' BY <1>6 DEF IInv, RoomKept, AddRead
<1>9. WalkInv' /\ ListInv' /\ Counted' BY ListsUntouched DEF IInv, AddRead
<1> QED BY <1>5, <1>7, <1>8, <1>9 DEF IInv

LEMMA AddRefusedKeeps == ASSUME IInv, NEW a \in Adders, AddRefused(a) PROVE IInv'
<1>4. adder' = [adder EXCEPT ![a] = Idle] /\ adder[a].pc = "read" BY DEF AddRefused
<1>5. Domains' BY <1>4 DEF IInv, Domains, AddRefused
<1>6. \A x \in Adders : adder'[x].pc = "locked" <=> adder[x].pc = "locked"
  BY <1>4 DEF IInv, Domains, Idle
<1>7. TypeOK' BY <1>6 DEF IInv, TypeOK, AddRefused
<1>8. RoomKept' BY <1>6 DEF IInv, RoomKept, AddRefused
<1>9. WalkInv' /\ ListInv' /\ Counted' BY ListsUntouched DEF IInv, AddRefused
<1> QED BY <1>5, <1>7, <1>8, <1>9 DEF IInv

LEMMA AddLockKeeps == ASSUME IInv, NEW a \in Adders, AddLock(a) PROVE IInv'
<1>0. adder[a].pc = "read" /\ lock = FREE /\ lock' = a /\ timerCount # MaxTimers BY DEF AddLock
<1>1. PICK now \in TickReads :
          adder' = [adder EXCEPT ![a] =
               [pc |-> "locked", new |-> adder[a].new,
                slot |-> NextTriggerSlot(now, adder[a].new.interval),
                raced |-> adder[a].raced \/ now # timeTick]]
  BY DEF AddLock, IInv, Domains
<1> DEFINE rec == [pc |-> "locked", new |-> adder[a].new,
                   slot |-> NextTriggerSlot(now, adder[a].new.interval),
                   raced |-> adder[a].raced \/ now # timeTick]
<1>2. rec \in Locking
  <2>1. adder[a] \in Reading BY <1>0, AdderFields DEF IInv
  <2>2. adder[a].new \in [interval : Intervals, tick : Ticks] BY <2>1 DEF Reading
  <2>3. adder[a].new.interval \in Int BY <2>2, WheelAssumption
  <2>4. NextTriggerSlot(now, adder[a].new.interval) \in Ticks
    BY <2>3, ReadsAreTicks, SlotIsTick DEF IInv
  <2>5. (adder[a].raced \/ now # timeTick) \in BOOLEAN OBVIOUS
  <2> QED BY <2>2, <2>4, <2>5 DEF Locking
<1>3. rec.pc = "locked" OBVIOUS
<1>4. adder' = [adder EXCEPT ![a] = rec] BY <1>1
<1> HIDE DEF rec
<1>5. Domains' BY <1>0, <1>2, <1>4 DEF IInv, Domains, AddLock
<1>6. \A x \in Adders : adder'[x].pc = "locked" <=> x = a
  BY <1>0, <1>3, <1>4, AddersAssumption DEF IInv, Domains, TypeOK
<1>7. TypeOK'
  <2>1. lock' = TIMER <=> timerPc' = "deal"
    BY <1>0, AddersAssumption DEF IInv, TypeOK, AddLock, FREE, TIMER
  <2>2. \A x \in Adders : lock' = x <=> adder'[x].pc = "locked" BY <1>0, <1>6
  <2> QED BY <2>1, <2>2 DEF IInv, TypeOK, AddLock
<1>8. RoomKept' BY <1>0 DEF RoomKept, AddLock
<1>9. WalkInv' /\ ListInv' /\ Counted' BY ListsUntouched DEF IInv, AddLock
<1> QED BY <1>5, <1>7, <1>8, <1>9 DEF IInv

\* A timer that starts joins the running ones.
LEMMA OneMoreRunning ==
    ASSUME Counted, Domains, NEW t \in Timers \ Running, age' = [age EXCEPT ![t] = 0],
           timerCount' = timerCount + 1
    PROVE  Running' = Running \cup {t} /\ Counted'
<1>1. Running' = Running \cup {t} BY DEF Running, Domains
<1>2. IsFiniteSet(Running \cup {t}) /\ Cardinality(Running \cup {t}) = Cardinality(Running) + 1
  BY FS_AddElement DEF Counted
<1> QED BY <1>1, <1>2 DEF Counted, TimerCountExact

LEMMA AddPushKeeps == ASSUME IInv, NEW a \in Adders, AddPush(a) PROVE IInv'
<1>0. /\ adder[a].pc = "locked" /\ lock = a /\ lock' = FREE /\ timerCount' = timerCount + 1
      /\ adder' = [adder EXCEPT ![a] = Idle]
      /\ UNCHANGED <<timeTick, timerPc, preTick, todo>>
  BY DEF AddPush, IInv, TypeOK
<1>1. PICK t \in Timers \ Running, now \in TickReads :
          /\ lists' = Push(lists, t, WheelOf(adder[a].slot, now))
          /\ event' = [event EXCEPT ![t] = adder[a].new]
          /\ age' = [age EXCEPT ![t] = 0]
          /\ raced' = [raced EXCEPT ![t] = adder[a].raced \/ now # timeTick]
  BY DEF AddPush
<1>2. adder[a].new \in [interval : Intervals, tick : Ticks]
  BY <1>0, AdderFields DEF IInv, Locking
<1>3. Running' = Running \cup {t} /\ Counted'
  BY <1>0, <1>1, OneMoreRunning DEF IInv
<1>4. Domains'
  <2>1. (adder[a].raced \/ now # timeTick) \in BOOLEAN OBVIOUS
  <2> QED BY <1>0, <1>1, <1>2, <2>1 DEF IInv, Domains
<1>5. \A x \in Adders : adder'[x].pc # "locked"
  BY <1>0 DEF IInv, TypeOK, Domains, Idle
<1>6. lists' \in [Slots -> SUBSET Timers] BY <1>1, PushAdds DEF IInv, TypeOK
<1>7. TypeOK'
  <2>1. timerCount' \in 0..MaxTimers
    BY <1>0, WheelAssumption DEF IInv, TypeOK, RoomKept
  <2>2. \A x \in Timers : /\ event'[x].interval \in Intervals \cup {0} /\ event'[x].tick \in Ticks
                          /\ age'[x] \in -1..(event'[x].interval + LATE)
    <3> TAKE x \in Timers
    <3>1. CASE x = t
      <4>1. event'[x] = adder[a].new /\ age'[x] = 0 BY <1>1, <3>1 DEF IInv, Domains
      <4>2. adder[a].new.interval \in Nat BY <1>2, WheelAssumption
      <4> QED BY <4>1, <4>2, <1>2, WheelAssumption DEF LATE
    <3>2. CASE x # t
      <4>1. event'[x] = event[x] /\ age'[x] = age[x] BY <1>1, <3>2 DEF IInv, Domains
      <4> QED BY <4>1 DEF IInv, TypeOK
    <3> QED BY <3>1, <3>2
  <2>3. lock' = TIMER <=> timerPc' = "deal"
    BY <1>0, AddersAssumption DEF IInv, TypeOK, FREE, TIMER
  <2>4. \A x \in Adders : lock' = x <=> adder'[x].pc = "locked"
    BY <1>0, <1>5, AddersAssumption
  <2> QED BY <1>0, <1>6, <2>1, <2>2, <2>3, <2>4 DEF IInv, TypeOK
<1>8. RoomKept' BY <1>5 DEF RoomKept
<1>9. timerPc # "deal" BY <1>0, AddersAssumption DEF IInv, TypeOK
<1>10. CurWheel' = CurWheel BY <1>0 DEF CurWheel, WheelOf
<1>11. WalkInv' BY <1>0, <1>9, <1>10 DEF IInv, WalkInv
<1>12. ListInv'
  <2> DEFINE slot == WheelOf(adder[a].slot, now)
  <2>1. \A s \in Slots : /\ s = slot => lists'[s] = lists[s] \cup {t}
                         /\ s # slot => lists'[s] = lists[s]
    BY <1>1, PushAdds DEF IInv, TypeOK
  <2> HIDE DEF slot
  <2>2. \A s \in Slots : lists'[s] \subseteq Running' BY <1>3, <2>1 DEF IInv, ListInv
  <2>3. \A s \in Slots : t \notin lists[s] BY DEF IInv, ListInv
  <2>4. ASSUME NEW r \in Slots, NEW s \in Slots, NEW u \in lists'[r] \cap lists'[s], r # s
        PROVE  timerPc' \in {"deal", "clear"} /\ u \notin todo' /\ CurWheel' \in {r, s}
    <3>1. u # t BY <2>1, <2>3, <2>4
    <3>2. u \in lists[r] \cap lists[s] BY <2>1, <2>4, <3>1
    <3> QED BY <3>2, <2>4, <1>0, <1>10 DEF IInv, ListInv
  <2> QED BY <2>2, <2>4 DEF ListInv
<1> QED BY <1>3, <1>4, <1>7, <1>8, <1>11, <1>12 DEF IInv

\* What the walk finds in its list: timers that run and stand nowhere else.
LEMMA WalkFinds ==
    ASSUME IInv, NEW t \in todo, timerPc = "deal"
    PROVE  /\ t \in Timers /\ t \in Running /\ CurWheel \in Slots /\ t \in lists[CurWheel]
           /\ \A s \in Slots \ {CurWheel} : t \notin lists[s]
           /\ \A a \in Adders : adder[a].pc # "locked"
<1>1. CurWheel \in Slots /\ t \in lists[CurWheel] BY DEF IInv, WalkInv
<1>2. t \in Timers /\ t \in Running BY <1>1 DEF IInv, TypeOK, ListInv
<1>3. \A s \in Slots \ {CurWheel} : t \notin lists[s] BY <1>1 DEF IInv, ListInv
<1>4. \A a \in Adders : adder[a].pc # "locked"
  BY AddersAssumption DEF IInv, TypeOK
<1> QED BY <1>1, <1>2, <1>3, <1>4

\* A timer that ends leaves the running ones.
LEMMA OneLessRunning ==
    ASSUME IInv, NEW t \in Running
    PROVE  /\ IsFiniteSet(Running \ {t})
           /\ Cardinality(Running \ {t}) = timerCount - 1
           /\ timerCount - 1 \in 0..MaxTimers
<1>1. IsFiniteSet(Running \ {t}) /\ Cardinality(Running \ {t}) = Cardinality(Running) - 1
  BY FS_RemoveElement DEF IInv, Counted
<1>2. Cardinality(Running \ {t}) \in Nat BY <1>1, FS_CardinalityType
<1> QED BY <1>1, <1>2, WheelAssumption DEF IInv, Counted, TimerCountExact, TypeOK

\* Moving a timer that the walk looks at to the list slot.
LEMMA MoveKeepsLists ==
    ASSUME IInv, NEW t \in todo, timerPc = "deal", NEW slot, lists' = Push(lists, t, slot),
           todo' = todo \ {t}, Running' = Running, UNCHANGED <<timeTick, preTick, timerPc>>
    PROVE  lists' \in [Slots -> SUBSET Timers] /\ WalkInv' /\ ListInv'
<1>0. /\ t \in Timers /\ t \in Running /\ CurWheel \in Slots
      /\ \A s \in Slots \ {CurWheel} : t \notin lists[s]
  BY WalkFinds
<1>1. CurWheel' = CurWheel BY DEF CurWheel, WheelOf
<1>2. /\ lists' \in [Slots -> SUBSET Timers]
      /\ \A s \in Slots : /\ s = slot => lists'[s] = lists[s] \cup {t}
                          /\ s # slot => lists'[s] = lists[s]
  BY <1>0, PushAdds DEF IInv, TypeOK
<1>3. \A s \in Slots : lists[s] \subseteq lists'[s] /\ lists'[s] \subseteq lists[s] \cup {t}
  BY <1>2
<1>4. WalkInv'
  <2>1. todo \subseteq lists[CurWheel] BY DEF IInv, WalkInv
  <2>2. todo' \subseteq lists'[CurWheel'] BY <2>1, <1>0, <1>1, <1>3
  <2> QED BY <2>2, <1>0, <1>1 DEF WalkInv
<1>5. \A s \in Slots : lists'[s] \subseteq Running'
  <2>1. \A s \in Slots : lists[s] \subseteq Running BY DEF IInv, ListInv
  <2> QED BY <2>1, <1>0, <1>3
<1>6. ASSUME NEW r \in Slots, NEW s \in Slots, NEW u \in lists'[r] \cap lists'[s], r # s
      PROVE  u \notin todo' /\ CurWheel' \in {r, s}
  <2>1. CASE u = t
    <3>1. r \in {CurWheel, slot} /\ s \in {CurWheel, slot} BY <1>0, <1>2, <1>6, <2>1
    <3> QED BY <3>1, <1>1, <1>6, <2>1
  <2>2. CASE u # t
    <3>1. u \in lists[r] \cap lists[s] BY <1>3, <1>6, <2>2
    <3> QED BY <3>1, <1>1, <1>6 DEF IInv, ListInv
  <2> QED BY <2>1, <2>2
<1> QED BY <1>2, <1>4, <1>5, <1>6 DEF ListInv

LEMMA FireOnceKeeps ==
    ASSUME IInv, NEW t \in Timers, DealOne(t), FireOnce(t) PROVE IInv'
<1>0. /\ timerPc = "deal" /\ t \in todo /\ todo' = todo \ {t}
      /\ UNCHANGED <<timeTick, lock, timerPc, preTick, adder>>
  BY DEF DealOne
<1>1. /\ timerCount' = timerCount - 1
      /\ lists' = [lists EXCEPT ![CurWheel] = @ \ {t}]
      /\ event' = [event EXCEPT ![t] = NoEvent]
      /\ age' = [age EXCEPT ![t] = -1]
      /\ raced' = [raced EXCEPT ![t] = FALSE]
  BY DEF FireOnce
<1>2. CurWheel' = CurWheel BY <1>0 DEF CurWheel, WheelOf
<1>3. Running' = Running \ {t} BY <1>1 DEF IInv, Domains, Running
<1>4. Counted' /\ timerCount' \in 0..MaxTimers
  BY <1>0, <1>1, <1>3, WalkFinds, OneLessRunning DEF Counted, TimerCountExact
<1>5. NoEvent \in [interval : Intervals \cup {0}, tick : Ticks]
  BY WheelAssumption DEF NoEvent, Ticks
<1>6. Domains' BY <1>0, <1>1, <1>5 DEF IInv, Domains
<1>7. \A x \in Timers : /\ event'[x].interval \in Intervals \cup {0} /\ event'[x].tick \in Ticks
                        /\ age'[x] \in -1..(event'[x].interval + LATE)
  <2> TAKE x \in Timers
  <2>1. CASE x = t
    <3>1. event'[x] = NoEvent /\ age'[x] = -1 BY <1>1, <2>1 DEF IInv, Domains
    <3>2. NoEvent.interval = 0 BY DEF NoEvent
    <3> QED BY <3>1, <3>2, <1>5, WheelAssumption DEF LATE
  <2>2. CASE x # t
    <3>1. event'[x] = event[x] /\ age'[x] = age[x] BY <1>1, <2>2 DEF IInv, Domains
    <3> QED BY <3>1 DEF IInv, TypeOK
  <2> QED BY <2>1, <2>2
<1>8. \A s \in Slots : /\ s = CurWheel => lists'[s] = lists[s] \ {t}
                       /\ s # CurWheel => lists'[s] = lists[s]
  BY <1>1 DEF IInv, TypeOK
<1>9. TypeOK'
  <2>1. lists' \in [Slots -> SUBSET Timers] BY <1>1 DEF IInv, TypeOK
  <2> QED BY <1>0, <1>4, <1>7, <2>1 DEF IInv, TypeOK
<1>10. RoomKept' BY <1>0, WalkFinds DEF RoomKept
<1>13. CurWheel \in Slots /\ \A s \in Slots \ {CurWheel} : t \notin lists[s]
  BY <1>0, WalkFinds
<1>14. \A s \in Slots : lists'[s] \subseteq lists[s] /\ t \notin lists'[s] BY <1>8, <1>13
<1>11. WalkInv'
  <2>1. todo \subseteq lists[CurWheel] BY <1>0 DEF IInv, WalkInv
  <2>2. todo' \subseteq lists'[CurWheel'] BY <2>1, <1>0, <1>2, <1>8, <1>13
  <2> QED BY <2>2, <1>0, <1>2, <1>13 DEF WalkInv
<1>12. ListInv'
  <2>1. \A s \in Slots : lists[s] \subseteq Running BY DEF IInv, ListInv
  <2>2. \A s \in Slots : lists'[s] \subseteq Running' BY <2>1, <1>3, <1>14
  <2>3. ASSUME NEW r \in Slots, NEW s \in Slots, NEW x \in lists'[r] \cap lists'[s], r # s
        PROVE  x \notin todo' /\ CurWheel' \in {r, s}
    <3>1. x \in lists[r] \cap lists[s] BY <1>14, <2>3
    <3> QED BY <3>1, <2>3, <1>0, <1>2 DEF IInv, ListInv
  <2> QED BY <2>2, <2>3, <1>0 DEF ListInv
<1> QED BY <1>4, <1>6, <1>9, <1>10, <1>11, <1>12 DEF IInv

LEMMA FireAddingKeeps ==
    ASSUME IInv, NEW t \in Timers, DealOne(t), FireAdding(t) PROVE IInv'
<1>0. /\ timerPc = "deal" /\ t \in todo /\ todo' = todo \ {t}
      /\ UNCHANGED <<timeTick, lock, timerPc, preTick, adder, timerCount>>
  BY DEF DealOne, FireAdding
<1> DEFINE rest == [lists EXCEPT ![CurWheel] = @ \ {t}]
<1>1. PICK u \in Timers \ Running, i \in Intervals :
         /\ lists' = Push(rest, u, WheelOf(NextTriggerSlot(timeTick, i), timeTick))
         /\ event' = [event EXCEPT ![t] = NoEvent, ![u] = [interval |-> i, tick |-> timeTick]]
         /\ age' = [age EXCEPT ![t] = -1, ![u] = 0]
         /\ raced' = [raced EXCEPT ![t] = FALSE]
  BY DEF FireAdding
<1> DEFINE slot == WheelOf(NextTriggerSlot(timeTick, i), timeTick)
<1>2. CurWheel' = CurWheel BY <1>0 DEF CurWheel, WheelOf
<1>3. u # t BY <1>0, WalkFinds
<1>4. Running' = (Running \ {t}) \cup {u} BY <1>1, <1>3 DEF IInv, Domains, Running
<1>5. Counted'
  <2>1. IsFiniteSet(Running \ {t}) /\ Cardinality(Running \ {t}) = timerCount - 1
    BY <1>0, WalkFinds, OneLessRunning
  <2>2. /\ IsFiniteSet((Running \ {t}) \cup {u})
        /\ Cardinality((Running \ {t}) \cup {u}) = Cardinality(Running \ {t}) + 1
    BY <2>1, FS_AddElement
  <2>3. timerCount \in Nat BY WheelAssumption DEF IInv, TypeOK
  <2> QED BY <2>1, <2>2, <2>3, <1>0, <1>4 DEF Counted, TimerCountExact
<1> DEFINE new == [interval |-> i, tick |-> timeTick]
<1>6. /\ NoEvent \in [interval : Intervals \cup {0}, tick : Ticks] /\ NoEvent.interval = 0
      /\ new \in [interval : Intervals \cup {0}, tick : Ticks] /\ new.interval = i
  BY WheelAssumption DEF NoEvent, Ticks, IInv, TypeOK
<1>7. event' = [event EXCEPT ![t] = NoEvent, ![u] = new] BY <1>1
<1> HIDE DEF new
<1>8. Domains' BY <1>0, <1>1, <1>6, <1>7 DEF IInv, Domains
<1>9. \A x \in Timers : /\ event'[x].interval \in Intervals \cup {0} /\ event'[x].tick \in Ticks
                        /\ age'[x] \in -1..(event'[x].interval + LATE)
  <2> TAKE x \in Timers
  <2>1. CASE x = t
    <3>1. event'[x] = NoEvent /\ age'[x] = -1 BY <1>1, <1>3, <1>7, <2>1 DEF IInv, Domains
    <3> QED BY <3>1, <1>6, WheelAssumption DEF LATE
  <2>2. CASE x = u
    <3>1. event'[x] = new /\ age'[x] = 0 BY <1>1, <1>7, <2>2 DEF IInv, Domains
    <3>2. i \in Nat BY WheelAssumption
    <3> QED BY <3>1, <3>2, <1>6, WheelAssumption DEF LATE
  <2>3. CASE x # t /\ x # u
    <3>1. event'[x] = event[x] /\ age'[x] = age[x] BY <1>1, <1>7, <2>3 DEF IInv, Domains
    <3> QED BY <3>1 DEF IInv, TypeOK
  <2> QED BY <2>1, <2>2, <2>3
<1>10. /\ rest \in [Slots -> SUBSET Timers]
       /\ \A s \in Slots : /\ s = CurWheel => rest[s] = lists[s] \ {t}
                           /\ s # CurWheel => rest[s] = lists[s]
  BY DEF IInv, TypeOK
<1>11. lists' = Push(rest, u, slot) BY <1>1
<1> HIDE DEF rest, slot
<1>12. /\ lists' \in [Slots -> SUBSET Timers]
       /\ \A s \in Slots : /\ s = slot => lists'[s] = rest[s] \cup {u}
                           /\ s # slot => lists'[s] = rest[s]
  BY <1>10, <1>11, PushAdds
<1>13. TypeOK' BY <1>0, <1>9, <1>12 DEF IInv, TypeOK
<1>14. RoomKept' BY <1>0, WalkFinds DEF RoomKept
<1>16. \A s \in Slots : lists[s] \subseteq Running /\ u \notin lists[s] BY DEF IInv, ListInv
<1>18. CurWheel \in Slots /\ \A s \in Slots \ {CurWheel} : t \notin lists[s]
  BY <1>0, WalkFinds
<1>19. \A s \in Slots : /\ rest[s] \subseteq lists[s] /\ t \notin rest[s]
                        /\ rest[s] \subseteq lists'[s] /\ lists'[s] \subseteq rest[s] \cup {u}
  BY <1>10, <1>12, <1>18
<1>15. WalkInv'
  <2>1. todo \subseteq lists[CurWheel] BY <1>0 DEF IInv, WalkInv
  <2>2. rest[CurWheel] = lists[CurWheel] \ {t} BY <1>10, <1>18
  <2>3. todo' \subseteq lists'[CurWheel'] BY <2>1, <2>2, <1>0, <1>2, <1>18, <1>19
  <2> QED BY <2>3, <1>0, <1>2, <1>18 DEF WalkInv
<1>17. ListInv'
  <2>1. \A s \in Slots : lists'[s] \subseteq Running' BY <1>4, <1>16, <1>19
  <2>2. ASSUME NEW r \in Slots, NEW s \in Slots, NEW x \in lists'[r] \cap lists'[s], r # s
        PROVE  x \notin todo' /\ CurWheel' \in {r, s}
    <3>1. x # u
      <4>1. SUFFICES ASSUME x = u PROVE FALSE OBVIOUS
      <4>2. u \notin rest[r] /\ u \notin rest[s] BY <1>16, <1>19
      <4>3. r = slot /\ s = slot BY <1>12, <2>2, <4>1, <4>2
      <4> QED BY <4>3, <2>2
    <3>2. x \in lists[r] \cap lists[s] BY <1>19, <2>2, <3>1
    <3> QED BY <3>2, <2>2, <1>0, <1>2 DEF IInv, ListInv
  <2> QED BY <2>1, <2>2, <1>0 DEF ListInv
<1> QED BY <1>5, <1>8, <1>13, <1>14, <1>15, <1>17 DEF IInv

LEMMA FireAgainKeeps ==
    ASSUME IInv, NEW t \in Timers, DealOne(t), FireAgain(t) PROVE IInv'
<1>0. /\ timerPc = "deal" /\ t \in todo /\ todo' = todo \ {t}
      /\ UNCHANGED <<timeTick, lock, timerPc, preTick, adder, timerCount>>
  BY DEF DealOne, FireAgain
<1>1. /\ event' = [event EXCEPT ![t].tick = timeTick]
      /\ lists' = Push(lists, t, WheelOf(NextTriggerSlot(timeTick, event[t].interval), timeTick))
      /\ age' = [age EXCEPT ![t] = 0]
      /\ raced' = [raced EXCEPT ![t] = FALSE]
  BY DEF FireAgain
<1>2. Running' = Running BY <1>0, <1>1, WalkFinds DEF IInv, Domains, Running
<1>3. lists' \in [Slots -> SUBSET Timers] /\ WalkInv' /\ ListInv'
  BY <1>0, <1>1, <1>2, MoveKeepsLists
<1>4. Counted' BY <1>0, <1>2 DEF IInv, Counted, TimerCountExact
<1>5. Domains' BY <1>0, <1>1 DEF IInv, Domains, TypeOK
<1>6. \A x \in Timers : /\ event'[x].interval = event[x].interval /\ event'[x].tick \in Ticks
                        /\ age'[x] \in {0, age[x]}
  BY <1>1 DEF IInv, Domains, TypeOK
<1>7. \A x \in Timers : event[x].interval \in Nat BY WheelAssumption DEF IInv, TypeOK
<1>8. TypeOK'
  <2>1. \A x \in Timers : age'[x] \in -1..(event'[x].interval + LATE)
    BY <1>6, <1>7, WheelAssumption DEF IInv, TypeOK, LATE
  <2> QED BY <1>0, <1>3, <1>6, <2>1 DEF IInv, TypeOK
<1>9. RoomKept' BY <1>0, WalkFinds DEF RoomKept
<1> QED BY <1>3, <1>4, <1>5, <1>8, <1>9 DEF IInv

LEMMA NotDueKeeps ==
    ASSUME IInv, NEW t \in Timers, NEW elapsed, DealOne(t), NotDue(t, elapsed) PROVE IInv'
<1>0. /\ timerPc = "deal" /\ t \in todo /\ todo' = todo \ {t}
      /\ UNCHANGED <<timeTick, lock, timerPc, preTick, adder, timerCount, event, age, raced>>
      /\ lists' = Push(lists, t,
              WheelOf(NextTriggerSlot(timeTick, event[t].interval - elapsed), timeTick))
  BY DEF DealOne, NotDue
<1>1. Running' = Running BY <1>0 DEF Running
<1>2. lists' \in [Slots -> SUBSET Timers] /\ WalkInv' /\ ListInv'
  BY <1>0, <1>1, MoveKeepsLists
<1>3. TypeOK' BY <1>0, <1>2 DEF IInv, TypeOK
<1>4. Domains' /\ RoomKept' BY <1>0 DEF IInv, Domains, RoomKept
<1>5. Counted' BY <1>0, <1>1 DEF IInv, Counted, TimerCountExact
<1> QED BY <1>2, <1>3, <1>4, <1>5 DEF IInv

LEMMA AdvanceKeeps == ASSUME IInv, Advance PROVE IInv'
<1>0. /\ timerPc = "idle" /\ preTick' = timeTick /\ timerPc' = "ticked"
      /\ timeTick' = NextTriggerSlot(timeTick, RefreshInterval)
      /\ age' = [t \in Timers |-> Later(age[t], event[t].interval)]
      /\ adder' = [a \in Adders |->
                    IF adder[a] = Idle THEN Idle ELSE [adder[a] EXCEPT !.raced = TRUE]]
      /\ UNCHANGED <<lists, timerCount, event, lock, todo, raced>>
  BY DEF Advance
<1>1. timeTick' \in Ticks /\ timeTick'.Ms # timeTick.Ms
  <2>1. timeTick \in Ticks /\ RefreshInterval \in Int BY WheelAssumption DEF IInv, TypeOK
  <2> QED BY <2>1, <1>0, SlotIsTick, TickMoves
<1>2. CurWheel' \in Slots BY <1>0, <1>1, WheelIsSlot DEF IInv, TypeOK, CurWheel
<1>3. \A t \in Timers : /\ age'[t] \in -1..(event'[t].interval + LATE)
                        /\ age'[t] = -1 <=> age[t] = -1
  <2> TAKE t \in Timers
  <2>1. event[t].interval \in Nat /\ age[t] \in -1..(event[t].interval + LATE)
    BY WheelAssumption DEF IInv, TypeOK
  <2>2. age'[t] = Later(age[t], event[t].interval) /\ event'[t] = event[t] BY <1>0
  <2> QED BY <2>1, <2>2, WheelAssumption DEF Later, LATE
<1>4. Running' = Running BY <1>3 DEF Running
<1>5. \A a \in Adders : /\ adder'[a] \in {Idle} \cup Reading \cup Locking
                        /\ adder'[a].pc = adder[a].pc
  <2> TAKE a \in Adders
  <2>1. adder[a] \in {Idle} \cup Reading \cup Locking BY DEF IInv, Domains
  <2>2. CASE adder[a] = Idle BY <1>0, <2>2
  <2>3. CASE adder[a] # Idle
    <3>1. adder'[a] = [adder[a] EXCEPT !.raced = TRUE] BY <1>0, <2>3
    <3>2. CASE adder[a] \in Reading BY <3>1, <3>2 DEF Reading
    <3>3. CASE adder[a] \in Locking BY <3>1, <3>3 DEF Locking
    <3> QED BY <2>1, <2>3, <3>2, <3>3
  <2> QED BY <2>2, <2>3
<1>6. Domains'
  <2>1. \A t \in Timers : age'[t] \in Int
    BY <1>0, <1>3, WheelAssumption DEF IInv, TypeOK, LATE
  <2>2. age' \in [Timers -> Int] BY <1>0, <2>1
  <2>3. adder' \in [Adders -> {Idle} \cup Reading \cup Locking] BY <1>0, <1>5
  <2> QED BY <1>0, <2>2, <2>3 DEF IInv, Domains
<1>7. TypeOK'
  <2>1. \A a \in Adders : lock' = a <=> adder'[a].pc = "locked"
    BY <1>0, <1>5 DEF IInv, TypeOK
  <2>2. lock' = TIMER <=> timerPc' = "deal" BY <1>0 DEF IInv, TypeOK
  <2> QED BY <1>0, <1>1, <1>3, <2>1, <2>2 DEF IInv, TypeOK
<1>8. RoomKept' BY <1>0, <1>5 DEF IInv, RoomKept
<1>9. WalkInv' BY <1>0, <1>2 DEF IInv, WalkInv
<1>10. ListInv' BY <1>0, <1>4 DEF IInv, ListInv
<1>11. Counted' BY <1>0, <1>4 DEF IInv, Counted, TimerCountExact
<1> QED BY <1>6, <1>7, <1>8, <1>9, <1>10, <1>11 DEF IInv

LEMMA DealKeeps == ASSUME IInv, Deal PROVE IInv'
<1>0. /\ timerPc = "ticked" /\ lock = FREE /\ lock' = TIMER /\ todo' = lists[CurWheel]
      /\ timerPc' = "deal"
      /\ UNCHANGED <<timeTick, lists, timerCount, event, preTick, adder, age, raced>>
  BY DEF Deal
<1>1. CurWheel' = CurWheel /\ CurWheel \in Slots
  BY <1>0 DEF CurWheel, WheelOf, IInv, WalkInv
<1>2. Running' = Running BY <1>0 DEF Running
<1>3. \A a \in Adders : adder[a].pc # "locked"
  BY <1>0, AddersAssumption DEF IInv, TypeOK
<1>4. TypeOK'
  <2>1. todo' \subseteq Timers BY <1>0, <1>1 DEF IInv, TypeOK
  <2>2. \A a \in Adders : lock' = a <=> adder'[a].pc = "locked"
    BY <1>0, <1>3, AddersAssumption
  <2> QED BY <1>0, <2>1, <2>2 DEF IInv, TypeOK
<1>5. Domains' BY <1>0 DEF IInv, Domains
<1>6. RoomKept' BY <1>0 DEF IInv, RoomKept
<1>7. WalkInv' BY <1>0, <1>1 DEF WalkInv
<1>8. ListInv' BY <1>0, <1>2 DEF IInv, ListInv
<1>9. Counted' BY <1>0, <1>2 DEF IInv, Counted, TimerCountExact
<1> QED BY <1>4, <1>5, <1>6, <1>7, <1>8, <1>9 DEF IInv

LEMMA DealEndKeeps == ASSUME IInv, DealEnd PROVE IInv'
<1>0. /\ timerPc = "deal" /\ todo = {} /\ lock' = FREE /\ timerPc' = "clear"
      /\ UNCHANGED <<timeTick, lists, timerCount, event, preTick, todo, adder, age, raced>>
  BY DEF DealEnd
<1>1. CurWheel' = CurWheel BY <1>0 DEF CurWheel, WheelOf
<1>2. Running' = Running BY <1>0 DEF Running
<1>3. \A a \in Adders : adder[a].pc # "locked"
  BY <1>0, AddersAssumption DEF IInv, TypeOK
<1>4. TypeOK'
  <2>1. \A a \in Adders : lock' = a <=> adder'[a].pc = "locked"
    BY <1>0, <1>3, AddersAssumption
  <2>2. lock' # TIMER BY <1>0 DEF FREE, TIMER
  <2> QED BY <1>0, <2>1, <2>2 DEF IInv, TypeOK
<1>5. Domains' BY <1>0 DEF IInv, Domains
<1>6. RoomKept' BY <1>0 DEF IInv, RoomKept
<1>7. WalkInv' BY <1>0, <1>1 DEF IInv, WalkInv
<1>8. ListInv' BY <1>0, <1>1, <1>2 DEF IInv, ListInv
<1>9. Counted' BY <1>0, <1>2 DEF IInv, Counted, TimerCountExact
<1> QED BY <1>4, <1>5, <1>6, <1>7, <1>8, <1>9 DEF IInv

LEMMA ClearKeeps == ASSUME IInv, Clear PROVE IInv'
<1>0. /\ timerPc = "clear" /\ timerPc' = "idle" /\ preTick' = timeTick
      /\ lists' = [lists EXCEPT ![CurWheel] = {}]
      /\ UNCHANGED <<timeTick, timerCount, event, lock, todo, adder, age, raced>>
  BY DEF Clear
<1>1. CurWheel \in Slots /\ todo = {} BY <1>0 DEF IInv, WalkInv
<1>2. Running' = Running BY <1>0 DEF Running
<1>3. /\ lists' \in [Slots -> SUBSET Timers]
      /\ lists'[CurWheel] = {}
      /\ \A s \in Slots : lists'[s] \subseteq lists[s]
  BY <1>0, <1>1 DEF IInv, TypeOK
<1>4. TypeOK' BY <1>0, <1>3 DEF IInv, TypeOK
<1>5. Domains' BY <1>0 DEF IInv, Domains
<1>6. RoomKept' BY <1>0 DEF IInv, RoomKept
<1>7. WalkInv' BY <1>0, <1>1 DEF WalkInv
<1>8. ListInv'
  <2>1. \A s \in Slots : lists'[s] \subseteq Running' BY <1>2, <1>3 DEF IInv, ListInv
  <2>2. ASSUME NEW r \in Slots, NEW s \in Slots, NEW u \in lists'[r] \cap lists'[s], r # s
        PROVE  FALSE
    <3>1. u \in lists[r] \cap lists[s] /\ r # CurWheel /\ s # CurWheel BY <1>3, <2>2
    <3> QED BY <3>1, <2>2 DEF IInv, ListInv
  <2> QED BY <2>1, <2>2 DEF ListInv
<1>9. Counted' BY <1>0, <1>2 DEF IInv, Counted, TimerCountExact
<1> QED BY <1>4, <1>5, <1>6, <1>7, <1>8, <1>9 DEF IInv

LEMMA StepIInv == IInv /\ [Next]_vars => IInv'
<1> SUFFICES ASSUME IInv, [Next]_vars PROVE IInv' OBVIOUS
<1>1. ASSUME NEW a \in Adders, AddRead(a) \/ AddRefused(a) \/ AddLock(a) \/ AddPush(a)
      PROVE  IInv'
  BY <1>1, AddReadKeeps, AddRefusedKeeps, AddLockKeeps, AddPushKeeps
<1>2. ASSUME NEW t \in Timers, DealOne(t) PROVE IInv'
  <2>1. \/ FireOnce(t) \/ FireAdding(t) \/ FireAgain(t)
        \/ NotDue(t, ElapsedMsec(timeTick, event[t].tick))
    BY <1>2 DEF DealOne
  <2> QED BY <1>2, <2>1, FireOnceKeeps, FireAddingKeeps, FireAgainKeeps, NotDueKeeps
<1>3. CASE Advance BY <1>3, AdvanceKeeps
<1>4. CASE Deal BY <1>4, DealKeeps
<1>5. CASE DealEnd BY <1>5, DealEndKeeps
<1>6. CASE Clear BY <1>6, ClearKeeps
<1>7. CASE UNCHANGED vars
  <2>1. WalkInv' /\ ListInv' /\ Counted' BY <1>7, ListsUntouched DEF IInv, vars
  <2> QED BY <2>1, <1>7 DEF IInv, vars, TypeOK, Domains, RoomKept
<1> QED BY <1>1, <1>2, <1>3, <1>4, <1>5, <1>6, <1>7 DEF Next

LEMMA InvariantHolds == Spec => []IInv
BY InitIInv, StepIInv, PTL DEF Spec

\* Clock, lists, events and threads keep their types, and m_TimerMutex is held
\* by exactly the thread that is inside its section: for any wheels.
THEOREM TimerTypesKept == Spec => []TypeOK
<1>1. IInv => TypeOK BY DEF IInv
<1> QED BY <1>1, InvariantHolds, PTL

\* m_TimerCount is the number of timers that have not ended, so add_timer()
\* refuses one exactly when MAX_TIMER_NUM are left, and none is dropped from
\* the count although clear() drops what it finds.
THEOREM TimersAreCounted == Spec => []TimerCountExact
<1>1. IInv => TimerCountExact BY DEF IInv, Counted
<1> QED BY <1>1, InvariantHolds, PTL

-----------------------------------------------------------------------------
(* Where an undisturbed timer is and how old it is.                        *)

\* The tick at which t falls due, and the time of the tick it was armed in.
Due(t) == NextTriggerSlot(event[t].tick, event[t].interval)
Start(t) == Msec(event[t].tick)

\* t is in the list that _insert_timer() would choose for it now.
Placed(t) ==
    /\ WheelOf(Due(t), timeTick) \in Slots
    /\ t \in lists[WheelOf(Due(t), timeTick)]

ArmedInv == \A t \in Running : event[t].interval \in Intervals

\* What a thread that nobody has disturbed has read is the present tick.
AdderOk(a) ==
    adder[a] # Idle /\ ~adder[a].raced =>
        /\ adder[a].new.tick = timeTick
        /\ adder[a].pc = "locked" =>
               adder[a].slot = NextTriggerSlot(timeTick, adder[a].new.interval)

\* Until it is due, the clock has gone round once at most since t was armed.
AgeOk(t) ==
    Undisturbed(t) /\ age[t] < event[t].interval =>
        Msec(timeTick) \in {Start(t) + age[t], Start(t) + age[t] - RoundMs}

\* A timer is where it belongs, but for the tick that makes it move or run,
\* whose list it is in.
Somewhere(t) ==
    \/ Placed(t)
    \/ timerPc = "ticked" /\ t \in lists[CurWheel]
    \/ timerPc = "deal" /\ t \in todo

\* When it falls due in the round it was armed in.
PlaceOk(t) ==
    Undisturbed(t) /\ InRound(t) =>
        /\ Msec(timeTick) = Start(t) + age[t]
        /\ age[t] <= event[t].interval
        /\ Somewhere(t)

PInv ==
    /\ IInv /\ ArmedInv
    /\ \A a \in Adders : AdderOk(a)
    /\ \A t \in Timers : AgeOk(t) /\ PlaceOk(t)

\* The parts of a time.
LEMMA MsecParts ==
    ASSUME NEW tick \in Ticks
    PROVE  /\ RefreshInterval * tick.Ms \in Nat /\ RefreshInterval * tick.Ms <= SecMs - RefreshInterval
           /\ SecMs * tick.Sec \in Nat /\ SecMs * tick.Sec <= MinMs - SecMs
           /\ MinMs * tick.Min \in Nat
<1>1. tick.Ms \in Nat /\ tick.Ms <= MsecTick - 1 /\ tick.Sec \in Nat /\ tick.Sec <= SecTick - 1
      /\ tick.Min \in Nat
  BY WheelAssumption DEF Ticks
<1>2. RefreshInterval * tick.Ms <= SecMs - RefreshInterval /\ RefreshInterval * tick.Ms \in Nat
  <2>1. RefreshInterval * tick.Ms <= RefreshInterval * (MsecTick - 1)
    BY <1>1, WheelAssumption, TimesKeepsOrder
  <2>2. RefreshInterval * (MsecTick - 1) = SecMs - RefreshInterval BY WheelAssumption DEF SecMs
  <2> QED BY <2>1, <2>2, <1>1, WheelAssumption
<1>3. SecMs * tick.Sec <= MinMs - SecMs /\ SecMs * tick.Sec \in Nat
  <2>1. SecMs * tick.Sec <= SecMs * (SecTick - 1)
    BY <1>1, WheelAssumption, Units, TimesKeepsOrder
  <2>2. SecMs * (SecTick - 1) = MinMs - SecMs BY WheelAssumption, Units DEF MinMs
  <2> QED BY <2>1, <2>2, <1>1, Units
<1> QED BY <1>1, <1>2, <1>3, Units

\* The order of times is that of minutes, then seconds, then ticks.
LEMMA MsecOrder ==
    ASSUME NEW a \in Ticks, NEW b \in Ticks
    PROVE  /\ a.Min < b.Min => Msec(a) < Msec(b)
           /\ a.Min = b.Min /\ a.Sec < b.Sec => Msec(a) < Msec(b)
           /\ a.Min = b.Min /\ a.Sec = b.Sec /\ a.Ms < b.Ms => Msec(a) < Msec(b)
<1>1. /\ a.Ms \in Int /\ a.Sec \in Int /\ a.Min \in Int
      /\ b.Ms \in Int /\ b.Sec \in Int /\ b.Min \in Int
  BY WheelAssumption DEF Ticks
<1>2. PICK ams \in Int, asec \in Int, amin \in Int, bms \in Int, bsec \in Int, bmin \in Int :
          /\ ams = RefreshInterval * a.Ms /\ asec = SecMs * a.Sec /\ amin = MinMs * a.Min
          /\ bms = RefreshInterval * b.Ms /\ bsec = SecMs * b.Sec /\ bmin = MinMs * b.Min
  BY MsecParts
<1>3. /\ ams >= 0 /\ ams <= SecMs - RefreshInterval /\ asec >= 0 /\ asec <= MinMs - SecMs
      /\ bms >= 0 /\ bms <= SecMs - RefreshInterval /\ bsec >= 0 /\ bsec <= MinMs - SecMs
  BY <1>2, MsecParts
<1>4. Msec(a) = ams + asec + amin /\ Msec(b) = bms + bsec + bmin BY <1>2 DEF Msec
<1>5. RefreshInterval \in Nat \ {0} /\ SecMs \in Nat \ {0} /\ MinMs \in Nat \ {0}
  BY WheelAssumption, Units
<1>6. ASSUME NEW d \in Nat \ {0}, NEW x \in Int, NEW y \in Int, x < y PROVE d * x + d <= d * y
  <2>1. x + 1 <= y BY <1>6
  <2>2. d * (x + 1) <= d * y BY <2>1, TimesKeepsOrder
  <2> QED BY <2>2
<1>7. a.Min < b.Min => amin + MinMs <= bmin BY <1>1, <1>2, <1>5, <1>6
<1>8. a.Sec < b.Sec => asec + SecMs <= bsec BY <1>1, <1>2, <1>5, <1>6
<1>9. a.Ms < b.Ms => ams + RefreshInterval <= bms BY <1>1, <1>2, <1>5, <1>6
<1>10. (a.Min = b.Min => amin = bmin) /\ (a.Sec = b.Sec => asec = bsec) BY <1>2
<1> QED BY ONLY <1>2, <1>3, <1>4, <1>5, <1>7, <1>8, <1>9, <1>10

LEMMA MsecInjective ==
    ASSUME NEW a \in Ticks, NEW b \in Ticks, Msec(a) = Msec(b)
    PROVE  a = b
<1>1. /\ a.Ms \in Int /\ a.Sec \in Int /\ a.Min \in Int
      /\ b.Ms \in Int /\ b.Sec \in Int /\ b.Min \in Int
  BY WheelAssumption DEF Ticks
<1>2. Msec(a) \in Nat /\ Msec(b) \in Nat BY MsecInRound
<1>3. a.Min = b.Min
  <2>1. ~(a.Min < b.Min) /\ ~(b.Min < a.Min) BY <1>2, MsecOrder
  <2> QED BY <1>1, <2>1
<1>4. a.Sec = b.Sec
  <2>1. ~(a.Sec < b.Sec) /\ ~(b.Sec < a.Sec) BY <1>2, <1>3, MsecOrder
  <2> QED BY <1>1, <2>1
<1>5. a.Ms = b.Ms
  <2>1. ~(a.Ms < b.Ms) /\ ~(b.Ms < a.Ms) BY <1>2, <1>3, <1>4, MsecOrder
  <2> QED BY <1>1, <2>1
<1> QED BY <1>3, <1>4, <1>5 DEF Ticks

\* A time of the round that is a multiple of a tick is that of its slot.
LEMMA TimeOfDigits ==
    ASSUME NEW k \in Nat, NEW x \in Nat, x = RefreshInterval * k, x < RoundMs
    PROVE  /\ (x \div MinMs) % MinTick = x \div MinMs
           /\ RefreshInterval * ((x % SecMs) \div RefreshInterval)
                 + SecMs * ((x % MinMs) \div SecMs) + MinMs * (x \div MinMs) = x
<1>0. /\ RefreshInterval \in Nat \ {0} /\ MsecTick \in Nat \ {0} /\ SecTick \in Nat \ {0}
      /\ MinTick \in Nat \ {0}
      /\ SecMs \in Nat \ {0} /\ MinMs \in Nat \ {0}
  BY WheelAssumption, Units
<1>1. PICK q \in Nat, r \in Nat : q = x \div MinMs /\ r = x % MinMs /\ x = MinMs * q + r /\ r < MinMs
  BY <1>0, Division
<1>2. PICK s \in Nat, u \in Nat : s = r \div SecMs /\ u = r % SecMs /\ r = SecMs * s + u /\ u < SecMs
  BY <1>0, Division
<1>3. q < MinTick
  <2>1. SUFFICES ASSUME MinTick <= q PROVE FALSE BY <1>0
  <2>2. MinMs * MinTick <= MinMs * q BY <1>0, <2>1, TimesKeepsOrder
  <2>3. PICK a \in Int, b \in Int : a = MinMs * MinTick /\ b = MinMs * q BY <1>0
  <2> QED BY <1>1, <2>2, <2>3 DEF RoundMs
<1>4. q % MinTick = q
  <2>1. MinTick * 0 + q = q BY <1>0
  <2> QED BY <2>1, <1>0, <1>3, RemainderUnique
<1>5. x = SecMs * (SecTick * q + s) + u
  <2>1. SecMs * (SecTick * q + s) = MinMs * q + SecMs * s BY <1>0 DEF MinMs
  <2>2. PICK a \in Int, b \in Int : a = MinMs * q /\ b = SecMs * s BY <1>0
  <2> QED BY <2>1, <2>2, <1>1, <1>2
<1>6. x % SecMs = u
  <2>1. PICK n \in Nat : n = SecTick * q + s BY <1>0
  <2>2. x = SecMs * n + u BY <1>5, <2>1
  <2>3. (SecMs * n + u) % SecMs = u BY <1>0, <1>2, RemainderUnique
  <2> QED BY <2>2, <2>3
<1>7. RefreshInterval * (u \div RefreshInterval) = u
  <2>1. PICK n \in Nat : n = SecTick * q + s BY <1>0
  <2>2. u = RefreshInterval * (k - MsecTick * n)
    <3>1. SecMs * n = RefreshInterval * (MsecTick * n) BY <1>0 DEF SecMs
    <3>2. PICK m \in Nat : m = MsecTick * n BY <1>0
    <3>3. RefreshInterval * (k - m) = RefreshInterval * k - RefreshInterval * m BY <1>0
    <3>4. PICK a \in Int, b \in Int : a = RefreshInterval * k /\ b = RefreshInterval * m BY <1>0
    <3> QED BY <3>1, <3>2, <3>3, <3>4, <1>5, <2>1
  <2>3. PICK v \in Int : v = k - MsecTick * n BY <1>0
  <2>4. v >= 0
    <3>1. SUFFICES ASSUME v <= 0 - 1 PROVE FALSE BY <2>3
    <3>2. RefreshInterval * v <= RefreshInterval * (0 - 1) BY <3>1, <1>0, TimesKeepsOrder
    <3>3. RefreshInterval * (0 - 1) < 0 BY <1>0
    <3>4. RefreshInterval * v = u BY <2>2, <2>3
    <3> QED BY <3>2, <3>3, <3>4, <1>0, <1>2
  <2>5. u \div RefreshInterval = v BY <2>2, <2>3, <2>4, <1>0, ExactQuotient
  <2> QED BY <2>2, <2>3, <2>5
<1>8. PICK a \in Int, b \in Int : a = SecMs * s /\ b = MinMs * q BY <1>0
<1> QED BY <1>1, <1>2, <1>4, <1>6, <1>7, <1>8

LEMMA MsecIsMultiple ==
    ASSUME NEW tick \in Ticks
    PROVE  \E n \in Nat : Msec(tick) = RefreshInterval * n
<1> DEFINE n == tick.Ms + MsecTick * (tick.Sec + SecTick * tick.Min)
<1>0. /\ tick.Ms \in Nat /\ tick.Sec \in Nat /\ tick.Min \in Nat
      /\ RefreshInterval \in Nat \ {0} /\ MsecTick \in Nat \ {0} /\ SecTick \in Nat \ {0}
  BY WheelAssumption DEF Ticks
<1>1. n \in Nat BY <1>0
<1>2. Msec(tick) = RefreshInterval * n
  <2>1. PICK p \in Nat : p = tick.Sec + SecTick * tick.Min BY <1>0
  <2>2. SecMs * tick.Sec + MinMs * tick.Min = SecMs * p
    BY <1>0, <2>1, Units DEF MinMs
  <2>3. SecMs * p = RefreshInterval * (MsecTick * p) BY <1>0 DEF SecMs
  <2>4. PICK q \in Nat : q = MsecTick * p BY <1>0, <2>1
  <2>5. RefreshInterval * (tick.Ms + q) = RefreshInterval * tick.Ms + RefreshInterval * q
    BY <1>0
  <2>6. PICK a \in Int, b \in Int, c \in Int :
            a = RefreshInterval * tick.Ms /\ b = SecMs * tick.Sec /\ c = MinMs * tick.Min
    BY <1>0, Units
  <2>7. Msec(tick) = a + b + c /\ b + c = RefreshInterval * q BY <2>2, <2>3, <2>4, <2>6 DEF Msec
  <2> QED BY <2>1, <2>4, <2>5, <2>6, <2>7
<1> QED BY <1>1, <1>2

\* The tick that an interval leads to, within the round.
LEMMA SlotTime ==
    ASSUME NEW now \in Ticks, NEW interval \in Nat, interval % RefreshInterval = 0,
           Msec(now) + interval < RoundMs
    PROVE  Msec(NextTriggerSlot(now, interval)) = Msec(now) + interval
<1>0. RefreshInterval \in Nat \ {0} /\ Msec(now) \in Nat BY WheelAssumption, MsecInRound
<1>1. PICK x \in Nat : x = Msec(now) + interval BY <1>0
<1>2. x % WordSize = x
  <2>1. WordSize * 0 + x = x /\ x < WordSize BY <1>1, Units
  <2> QED BY <2>1, Units, RemainderUnique
<1>3. \E k \in Nat : x = RefreshInterval * k
  <2>1. PICK m \in Nat : Msec(now) = RefreshInterval * m BY MsecIsMultiple
  <2>2. PICK i \in Nat : interval = RefreshInterval * i + 0
    BY <1>0, Division
  <2>3. RefreshInterval * (m + i) = RefreshInterval * m + RefreshInterval * i BY <1>0
  <2>4. RefreshInterval * i \in Nat BY <1>0
  <2> QED BY <1>1, <2>1, <2>2, <2>3, <2>4
<1>4. NextTriggerSlot(now, interval) =
          [Min |-> (x \div MinMs) % MinTick, Sec |-> (x % MinMs) \div SecMs,
           Ms |-> (x % SecMs) \div RefreshInterval]
  BY <1>1, <1>2 DEF NextTriggerSlot
<1> DEFINE min == (x \div MinMs) % MinTick
           sec == (x % MinMs) \div SecMs
           ms == (x % SecMs) \div RefreshInterval
<1>5. RefreshInterval * ms + SecMs * sec + MinMs * min = x
  BY <1>1, <1>3, TimeOfDigits
<1> HIDE DEF min, sec, ms
<1>6. NextTriggerSlot(now, interval) = [Min |-> min, Sec |-> sec, Ms |-> ms]
  BY <1>4 DEF min, sec, ms
<1>7. Msec(NextTriggerSlot(now, interval)) = RefreshInterval * ms + SecMs * sec + MinMs * min
  BY <1>6 DEF Msec
<1> QED BY <1>1, <1>5, <1>7


\* refresh_timer() moves the clock on by a tick, or to the start of the round.
LEMMA NextTickTime ==
    ASSUME NEW tick \in Ticks
    PROVE  LET then == Msec(tick) + RefreshInterval IN
           Msec(NextTriggerSlot(tick, RefreshInterval)) = IF then < RoundMs THEN then ELSE 0
<1>0. /\ RefreshInterval \in Nat \ {0} /\ MsecTick \in Nat \ {0} /\ SecTick \in Nat \ {0}
      /\ MinTick \in Nat \ {0} /\ SecMs \in Nat \ {0} /\ MinMs \in Nat \ {0} /\ RoundMs \in Nat \ {0}
  BY WheelAssumption, Units
<1>1. RefreshInterval % RefreshInterval = 0
  <2>1. RefreshInterval * 1 + 0 = RefreshInterval BY <1>0
  <2>2. (RefreshInterval * 1 + 0) % RefreshInterval = 0 BY <1>0, RemainderUnique
  <2> QED BY <2>1, <2>2
<1>2. CASE Msec(tick) + RefreshInterval < RoundMs
  BY <1>0, <1>1, <1>2, SlotTime
<1>3. CASE Msec(tick) + RefreshInterval = RoundMs
  <2>1. RoundMs % WordSize = RoundMs
    <3>1. WordSize * 0 + RoundMs = RoundMs BY Units
    <3>2. (WordSize * 0 + RoundMs) % WordSize = RoundMs BY Units, RemainderUnique
    <3> QED BY <3>1, <3>2
  <2>2. RoundMs \div MinMs = MinTick BY <1>0, ExactQuotient DEF RoundMs
  <2>3. MinTick % MinTick = 0
    <3>1. MinTick * 1 + 0 = MinTick BY <1>0
    <3>2. (MinTick * 1 + 0) % MinTick = 0 BY <1>0, RemainderUnique
    <3> QED BY <3>1, <3>2
  <2>4. RoundMs % MinMs = 0
    <3>1. MinMs * MinTick + 0 = RoundMs BY <1>0 DEF RoundMs
    <3>2. (MinMs * MinTick + 0) % MinMs = 0 BY <1>0, RemainderUnique
    <3> QED BY <3>1, <3>2
  <2>5. RoundMs % SecMs = 0
    <3>1. PICK n \in Nat : n = SecTick * MinTick BY <1>0
    <3>2. SecMs * n + 0 = RoundMs BY <1>0, <3>1 DEF RoundMs, MinMs
    <3>3. (SecMs * n + 0) % SecMs = 0 BY <1>0, RemainderUnique
    <3> QED BY <3>2, <3>3
  <2>6. 0 \div SecMs = 0 /\ 0 \div RefreshInterval = 0
    <3>1. SecMs * 0 = 0 /\ RefreshInterval * 0 = 0 BY <1>0
    <3>2. (SecMs * 0) \div SecMs = 0 /\ (RefreshInterval * 0) \div RefreshInterval = 0
      BY <1>0, ExactQuotient
    <3> QED BY <3>1, <3>2
  <2>7. NextTriggerSlot(tick, RefreshInterval) = [Min |-> 0, Sec |-> 0, Ms |-> 0]
    BY <1>3, <2>1, <2>2, <2>3, <2>4, <2>5, <2>6 DEF NextTriggerSlot
  <2>8. Msec([Min |-> 0, Sec |-> 0, Ms |-> 0]) = 0 BY <1>0 DEF Msec
  <2> QED BY <1>0, <1>3, <2>7, <2>8
<1> QED BY <1>0, <1>2, <1>3, MsecInRound

\* DiffMsec of _deal_time_wheel(): it is a minute too long once the clock has
\* begun a new round.
LEMMA ElapsedTime ==
    ASSUME NEW now \in Ticks, NEW then \in Ticks
    PROVE  ElapsedMsec(now, then) = IF Msec(then) <= Msec(now) THEN Msec(now) - Msec(then)
                                    ELSE Msec(now) - Msec(then) + RoundMs + MinMs
<1> DEFINE m == (MinTick + 1) * MinMs
<1>0. /\ MinMs \in Nat \ {0} /\ RoundMs \in Nat \ {0} /\ Msec(now) \in Nat /\ Msec(then) \in Nat
      /\ Msec(now) < RoundMs /\ Msec(then) < RoundMs
  BY Units, MsecInRound, WheelAssumption
<1>1. m = RoundMs + MinMs /\ m \in Nat \ {0} BY <1>0, WheelAssumption DEF RoundMs
<1>2. ElapsedMsec(now, then) = (Msec(now) - Msec(then) + m) % m BY DEF ElapsedMsec
<1> HIDE DEF m
<1>3. CASE Msec(then) <= Msec(now)
  <2>1. PICK r \in Nat : r = Msec(now) - Msec(then) BY <1>0, <1>3
  <2>2. (m * 1 + r) % m = r BY <1>0, <1>1, <2>1, RemainderUnique
  <2>3. Msec(now) - Msec(then) + m = m * 1 + r BY <1>0, <1>1, <2>1
  <2> QED BY <1>2, <1>3, <2>1, <2>2, <2>3
<1>4. CASE ~(Msec(then) <= Msec(now))
  <2>1. PICK r \in Nat : r = Msec(now) - Msec(then) + m /\ r < m BY <1>0, <1>1, <1>4
  <2>2. (m * 0 + r) % m = r BY <1>1, <2>1, RemainderUnique
  <2>3. Msec(now) - Msec(then) + m = m * 0 + r BY <1>0, <1>1, <2>1
  <2>4. Msec(now) - Msec(then) + m = Msec(now) - Msec(then) + RoundMs + MinMs BY <1>0, <1>1
  <2> QED BY <1>2, <1>4, <2>1, <2>2, <2>3, <2>4
<1> QED BY <1>3, <1>4

\* The slot depends on the time alone.
LEMMA SameSlot ==
    ASSUME NEW a, NEW i, NEW b, NEW j, Msec(a) + i = Msec(b) + j
    PROVE  NextTriggerSlot(a, i) = NextTriggerSlot(b, j)
  BY DEF NextTriggerSlot

\* A tick to come has a list, and it is not the one that is walked now.
LEMMA OtherTickHasList ==
    ASSUME NEW e \in Ticks, NEW now \in Ticks, NEW pre \in Ticks, e # now
    PROVE  WheelOf(e, now) \in Slots /\ WheelOf(e, now) # WheelOf(now, pre)
<1>1. e.Min # now.Min \/ e.Sec # now.Sec \/ e.Ms # now.Ms BY DEF Ticks
<1>2. WheelOf(e, now) \in Slots BY <1>1 DEF WheelOf, Slots, Ticks
<1>3. WheelOf(e, now) # WheelOf(now, pre)
  <2>1. CASE e.Min # now.Min BY <2>1 DEF WheelOf, NOWHERE
  <2>2. CASE e.Min = now.Min /\ e.Sec # now.Sec BY <2>2 DEF WheelOf, NOWHERE
  <2>3. CASE e.Min = now.Min /\ e.Sec = now.Sec /\ e.Ms # now.Ms BY <2>3 DEF WheelOf, NOWHERE
  <2> QED BY <1>1, <2>1, <2>2, <2>3
<1> QED BY <1>2, <1>3

\* The present tick has none.
LEMMA OwnTickHasNone ==
    ASSUME NEW now \in Ticks
    PROVE  WheelOf(now, now) \notin Slots
  BY DEF WheelOf, NOWHERE, Slots

\* The cascade: when the clock moves on, the list of a tick to come is either
\* still its list or the one that is walked now.
LEMMA Cascade ==
    ASSUME NEW e \in Ticks, NEW now \in Ticks, NEW pre \in Ticks,
           Msec(pre) < Msec(now), Msec(now) <= Msec(e)
    PROVE  \/ e # now /\ WheelOf(e, now) = WheelOf(e, pre)
           \/ WheelOf(e, pre) = WheelOf(now, pre)
<1>0. /\ Msec(e) \in Nat /\ Msec(now) \in Nat /\ Msec(pre) \in Nat
      /\ e.Min \in Int /\ e.Sec \in Int /\ e.Ms \in Int
      /\ now.Min \in Int /\ now.Sec \in Int /\ now.Ms \in Int
      /\ pre.Min \in Int /\ pre.Sec \in Int /\ pre.Ms \in Int
  BY WheelAssumption, MsecInRound DEF Ticks
<1>1. CASE e.Min # pre.Min
  BY <1>1 DEF WheelOf
<1>2. CASE e.Min = pre.Min
  <2>1. now.Min = e.Min
    <3>1. ~(now.Min < pre.Min) /\ ~(e.Min < now.Min) BY <1>0, MsecOrder
    <3> QED BY <1>0, <1>2, <3>1
  <2>2. CASE e.Sec # pre.Sec BY <1>2, <2>1, <2>2 DEF WheelOf
  <2>3. CASE e.Sec = pre.Sec
    <3>1. now.Sec = e.Sec
      <4>1. ~(now.Sec < pre.Sec) /\ ~(e.Sec < now.Sec) BY <1>0, <1>2, <2>1, MsecOrder
      <4> QED BY <1>0, <2>3, <4>1
    <3>2. e.Ms # pre.Ms
      <4>1. e # pre BY <1>0
      <4> QED BY <1>2, <2>3, <4>1 DEF Ticks
    <3> QED BY <1>2, <2>1, <2>3, <3>1, <3>2 DEF WheelOf
  <2> QED BY <2>2, <2>3
<1> QED BY <1>1, <1>2

-----------------------------------------------------------------------------
(* What the steps do to a timer.                                           *)

LEMMA DueFacts ==
    ASSUME IInv, ArmedInv, NEW t \in Running
    PROVE  /\ t \in Timers /\ event[t].tick \in Ticks /\ timeTick \in Ticks
           /\ event[t].interval \in Intervals /\ event[t].interval \in Nat
           /\ event[t].interval > RefreshInterval /\ event[t].interval < RoundMs
           /\ age[t] \in Nat /\ Start(t) \in Nat /\ Start(t) < RoundMs
           /\ Due(t) \in Ticks
           /\ InRound(t) => Msec(Due(t)) = Start(t) + event[t].interval
<1>1. t \in Timers /\ event[t].tick \in Ticks /\ timeTick \in Ticks
  BY DEF Running, IInv, TypeOK
<1>2. event[t].interval \in Intervals BY DEF ArmedInv
<1>3. /\ event[t].interval \in Nat /\ event[t].interval > RefreshInterval
      /\ event[t].interval < RoundMs /\ event[t].interval % RefreshInterval = 0
  BY <1>2, WheelAssumption
<1>4. age[t] \in Nat
  <2>1. age[t] \in -1..(event[t].interval + LATE) /\ age[t] # -1
    BY <1>1 DEF IInv, TypeOK, Running
  <2>2. event[t].interval + LATE \in Nat BY <1>3, WheelAssumption DEF LATE
  <2> QED BY <2>1, <2>2
<1>5. Start(t) \in Nat /\ Start(t) < RoundMs
  <2>1. Msec(event[t].tick) \in Nat /\ Msec(event[t].tick) + RefreshInterval <= RoundMs
    BY <1>1, MsecInRound
  <2> QED BY <2>1, WheelAssumption, Units DEF Start
<1>6. Due(t) \in Ticks BY <1>1, <1>3, SlotIsTick DEF Due
<1>7. InRound(t) => Msec(Due(t)) = Start(t) + event[t].interval
  BY <1>1, <1>3, SlotTime DEF InRound, Due, Start
<1> QED BY <1>1, <1>2, <1>3, <1>4, <1>5, <1>6, <1>7

\* A timer that a step does not touch.
LEMMA TimerStays ==
    ASSUME NEW t \in Timers, AgeOk(t), PlaceOk(t), timeTick' = timeTick,
           event'[t] = event[t], age'[t] = age[t], raced'[t] = raced[t],
           Undisturbed(t) /\ InRound(t) /\ Somewhere(t) => Somewhere(t)'
    PROVE  AgeOk(t)' /\ PlaceOk(t)'
<1>1. /\ Undisturbed(t)' = Undisturbed(t) /\ InRound(t)' = InRound(t)
      /\ Start(t)' = Start(t) /\ Msec(timeTick)' = Msec(timeTick)
  BY DEF Undisturbed, Running, InRound, Start, Msec
<1> QED BY <1>1 DEF AgeOk, PlaceOk

\* The timers when the lists only grow.
LEMMA TimersStay ==
    ASSUME PInv, UNCHANGED <<timeTick, preTick, timerPc, todo, event, age, raced>>,
           \A s \in Slots : lists[s] \subseteq lists'[s]
    PROVE  /\ ArmedInv' /\ \A t \in Timers : AgeOk(t)' /\ PlaceOk(t)'
<1>1. CurWheel' = CurWheel BY DEF CurWheel, WheelOf
<1>2. timerPc = "ticked" => CurWheel \in Slots BY DEF PInv, IInv, WalkInv
<1>3. ASSUME NEW t \in Timers, Somewhere(t) PROVE Somewhere(t)'
  <2>1. Due(t)' = Due(t) BY DEF Due, NextTriggerSlot, Msec
  <2>2. WheelOf(Due(t), timeTick)' = WheelOf(Due(t), timeTick) BY <2>1 DEF WheelOf
  <2> QED BY <1>1, <1>2, <1>3, <2>2 DEF Somewhere, Placed
<1>4. ArmedInv' BY DEF PInv, ArmedInv, Running
<1> QED BY <1>3, <1>4, TimerStays DEF PInv

\* A timer that is armed now, for the present tick.
LEMMA ArmedNow ==
    ASSUME NEW t \in Timers, timeTick' \in Ticks, event'[t].tick = timeTick',
           event'[t].interval \in Intervals, age'[t] = 0,
           LET slot == WheelOf(NextTriggerSlot(timeTick', event'[t].interval), timeTick')
           IN  slot \in Slots => t \in lists'[slot]
    PROVE  AgeOk(t)' /\ PlaceOk(t)'
<1> DEFINE due == NextTriggerSlot(timeTick', event'[t].interval)
<1>1. Msec(timeTick') \in Nat /\ Start(t)' = Msec(timeTick') BY MsecInRound DEF Start
<1>2. /\ event'[t].interval \in Nat /\ event'[t].interval > RefreshInterval
      /\ event'[t].interval % RefreshInterval = 0 /\ RefreshInterval \in Nat
  BY WheelAssumption
<1>3. AgeOk(t)' BY <1>1 DEF AgeOk
<1>4. ASSUME InRound(t)' PROVE Placed(t)'
  <2>1. Msec(timeTick') + event'[t].interval < RoundMs BY <1>4, <1>1 DEF InRound, Start
  <2>2. Msec(due) = Msec(timeTick') + event'[t].interval BY <1>2, <2>1, SlotTime
  <2>3. due # timeTick' BY <1>1, <1>2, <2>2
  <2>4. due \in Ticks BY <1>2, SlotIsTick
  <2>5. WheelOf(due, timeTick') \in Slots BY <2>3, <2>4, OtherTickHasList
  <2>6. Due(t)' = due BY DEF Due
  <2> QED BY <2>5, <2>6 DEF Placed
<1>5. PlaceOk(t)' BY <1>1, <1>2, <1>4 DEF PlaceOk, Somewhere
<1> QED BY <1>3, <1>5

LEMMA AdderStays ==
    ASSUME NEW a \in Adders, AdderOk(a), UNCHANGED timeTick, adder'[a] = adder[a]
    PROVE  AdderOk(a)'
<1>1. \A i : NextTriggerSlot(timeTick, i)' = NextTriggerSlot(timeTick, i) BY DEF NextTriggerSlot, Msec
<1> QED BY <1>1 DEF AdderOk

LEMMA InitPInv == Init => PInv
<1> SUFFICES ASSUME Init PROVE PInv OBVIOUS
<1>1. Running = {} BY DEF Init, Running
<1>2. IInv /\ ArmedInv BY <1>1, InitIInv DEF ArmedInv
<1>3. \A a \in Adders : AdderOk(a) BY DEF Init, AdderOk
<1>4. \A t \in Timers : AgeOk(t) /\ PlaceOk(t) BY <1>1 DEF AgeOk, PlaceOk, Undisturbed
<1> QED BY <1>2, <1>3, <1>4 DEF PInv

\* What a thread reads before it holds the lock, and under it.
LEMMA AddReadsPInv ==
    ASSUME PInv, NEW a \in Adders, AddRead(a) \/ AddRefused(a) \/ AddLock(a)
    PROVE  PInv'
<1>1. IInv /\ IInv' BY AddReadKeeps, AddRefusedKeeps, AddLockKeeps DEF PInv
<1>2. /\ UNCHANGED <<timeTick, preTick, timerPc, todo, event, age, raced, lists>>
      /\ DOMAIN adder = Adders
  BY <1>1 DEF AddRead, AddRefused, AddLock, IInv, Domains
<1>3. ArmedInv' /\ \A t \in Timers : AgeOk(t)' /\ PlaceOk(t)' BY <1>2, TimersStay
<1>4. \A x \in Adders : x # a => adder'[x] = adder[x]
  BY <1>2 DEF AddRead, AddRefused, AddLock
<1>5. AdderOk(a)'
  <2>1. CASE AddRead(a)
    <3>1. PICK i \in Intervals, now \in TickReads :
              adder'[a] = [pc |-> "read", new |-> [interval |-> i, tick |-> now],
                           raced |-> now # timeTick]
      BY <1>2, <2>1 DEF AddRead
    <3>2. adder'[a].raced = (now # timeTick) /\ adder'[a].new.tick = now /\ adder'[a].pc = "read"
      BY <3>1
    <3> QED BY <1>2, <3>2 DEF AdderOk
  <2>2. CASE AddRefused(a) BY <1>2, <2>2 DEF AddRefused, AdderOk
  <2>3. CASE AddLock(a)
    <3>1. PICK now \in TickReads :
              adder'[a] = [pc |-> "locked", new |-> adder[a].new,
                           slot |-> NextTriggerSlot(now, adder[a].new.interval),
                           raced |-> adder[a].raced \/ now # timeTick]
      BY <1>2, <2>3 DEF AddLock
    <3>2. /\ adder'[a].raced = (adder[a].raced \/ now # timeTick) /\ adder'[a].new = adder[a].new
          /\ adder'[a].slot = NextTriggerSlot(now, adder[a].new.interval)
      BY <3>1
    <3>3. adder[a] # Idle /\ AdderOk(a) BY <2>3 DEF AddLock, Idle, PInv
    <3> QED BY <1>2, <3>2, <3>3 DEF AdderOk
  <2> QED BY <2>1, <2>2, <2>3
<1>6. \A x \in Adders : AdderOk(x)' BY <1>2, <1>4, <1>5, AdderStays DEF PInv
<1> QED BY <1>1, <1>3, <1>6 DEF PInv

LEMMA AddPushPInv == ASSUME PInv, NEW a \in Adders, AddPush(a) PROVE PInv'
<1>1. IInv /\ IInv' /\ ArmedInv BY AddPushKeeps DEF PInv
<1>2. PICK t \in Timers \ Running, now \in TickReads :
          /\ lists' = Push(lists, t, WheelOf(adder[a].slot, now))
          /\ event' = [event EXCEPT ![t] = adder[a].new]
          /\ age' = [age EXCEPT ![t] = 0]
          /\ raced' = [raced EXCEPT ![t] = adder[a].raced \/ now # timeTick]
  BY DEF AddPush
<1>3. /\ adder[a].pc = "locked" /\ adder[a] # Idle /\ adder' = [adder EXCEPT ![a] = Idle]
      /\ UNCHANGED <<timeTick, timerPc, preTick, todo>>
  BY DEF AddPush, Idle
<1>4. adder[a].new.interval \in Intervals
  <2>1. adder[a] \in Locking BY <1>1, <1>3, AdderFields DEF IInv
  <2> QED BY <2>1 DEF Locking
<1>5. \A s \in Slots : /\ lists[s] \subseteq lists'[s]
                       /\ s = WheelOf(adder[a].slot, now) => t \in lists'[s]
  BY <1>1, <1>2, PushAdds DEF IInv, TypeOK
<1>6. /\ event'[t] = adder[a].new /\ age'[t] = 0 /\ raced'[t] = (adder[a].raced \/ now # timeTick)
      /\ \A u \in Timers \ {t} : event'[u] = event[u] /\ age'[u] = age[u] /\ raced'[u] = raced[u]
  BY <1>1, <1>2 DEF IInv, Domains
<1>7. ArmedInv' BY <1>1, <1>4, <1>6 DEF ArmedInv, Running
<1>8. AgeOk(t)' /\ PlaceOk(t)'
  <2>1. CASE raced'[t] BY <2>1 DEF AgeOk, PlaceOk, Undisturbed
  <2>2. CASE ~raced'[t]
    <3>1. /\ now = timeTick /\ adder[a].new.tick = timeTick
          /\ adder[a].slot = NextTriggerSlot(timeTick, adder[a].new.interval)
      BY <1>3, <1>6, <2>2 DEF PInv, AdderOk
    <3>2. timeTick' \in Ticks BY <1>1 DEF IInv, TypeOK
    <3>3. event'[t].tick = timeTick' /\ event'[t].interval = adder[a].new.interval
      BY <1>3, <1>6, <3>1
    <3>4. LET slot == WheelOf(NextTriggerSlot(timeTick', event'[t].interval), timeTick')
          IN  slot \in Slots => t \in lists'[slot]
      BY <1>3, <1>5, <3>1, <3>3
    <3> QED BY <1>4, <1>6, <3>2, <3>3, <3>4, ArmedNow
  <2> QED BY <2>1, <2>2
<1>9. ASSUME NEW u \in Timers \ {t} PROVE AgeOk(u)' /\ PlaceOk(u)'
  <2>1. CurWheel' = CurWheel BY <1>3 DEF CurWheel, WheelOf
  <2>2. timerPc = "ticked" => CurWheel \in Slots BY <1>1 DEF IInv, WalkInv
  <2>3. Due(u)' = Due(u) BY <1>6 DEF Due, NextTriggerSlot, Msec
  <2>4. WheelOf(Due(u), timeTick)' = WheelOf(Due(u), timeTick) BY <1>3, <2>3 DEF WheelOf
  <2>5. Somewhere(u) => Somewhere(u)' BY <1>3, <1>5, <2>1, <2>2, <2>4 DEF Somewhere, Placed
  <2> QED BY <1>3, <1>6, <2>5, TimerStays DEF PInv
<1>10. ASSUME NEW x \in Adders PROVE AdderOk(x)'
  <2>1. CASE x = a BY <1>1, <1>3, <2>1 DEF IInv, Domains, AdderOk
  <2>2. CASE x # a BY <1>1, <1>3, <2>2, AdderStays DEF PInv, IInv, Domains
  <2> QED BY <2>1, <2>2
<1> QED BY <1>1, <1>7, <1>8, <1>9, <1>10 DEF PInv

LEMMA AdvancePInv == ASSUME PInv, Advance PROVE PInv'
<1>1. IInv /\ IInv' /\ ArmedInv BY AdvanceKeeps DEF PInv
<1>2. /\ timerPc = "idle" /\ preTick' = timeTick /\ timerPc' = "ticked"
      /\ timeTick' = NextTriggerSlot(timeTick, RefreshInterval)
      /\ age' = [t \in Timers |-> Later(age[t], event[t].interval)]
      /\ adder' = [a \in Adders |->
                    IF adder[a] = Idle THEN Idle ELSE [adder[a] EXCEPT !.raced = TRUE]]
      /\ UNCHANGED <<lists, event, raced>>
  BY DEF Advance
<1>3. timeTick \in Ticks /\ timeTick' \in Ticks BY <1>1 DEF IInv, TypeOK
<1>4. \A a \in Adders : AdderOk(a)'
  <2> SUFFICES ASSUME NEW a \in Adders, adder'[a] # Idle, ~adder'[a].raced PROVE FALSE
    BY DEF AdderOk
  <2>1. adder[a] # Idle /\ adder'[a] = [adder[a] EXCEPT !.raced = TRUE] BY <1>2
  <2>2. adder[a] \in Reading \cup Locking BY <1>1, <2>1 DEF IInv, Domains
  <2>3. adder'[a].raced = TRUE BY <2>1, <2>2 DEF Reading, Locking
  <2> QED BY <2>3
<1>5. ASSUME NEW t \in Timers PROVE age'[t] = -1 <=> age[t] = -1
  <2>1. age[t] \in -1..(event[t].interval + LATE) /\ event[t].interval \in Nat
    BY <1>1, WheelAssumption DEF IInv, TypeOK
  <2>2. age'[t] = Later(age[t], event[t].interval) BY <1>2
  <2> QED BY <2>1, <2>2, WheelAssumption DEF Later, LATE
<1>6. Running' = Running BY <1>5 DEF Running
<1>7. ArmedInv' BY <1>1, <1>2, <1>6 DEF ArmedInv
<1> DEFINE now == Msec(timeTick)
           next == Msec(timeTick')
<1>8. /\ now \in Nat /\ now < RoundMs /\ RefreshInterval \in Nat \ {0} /\ RoundMs \in Nat
      /\ next = IF now + RefreshInterval < RoundMs THEN now + RefreshInterval ELSE 0
      /\ now + RefreshInterval <= RoundMs
  BY <1>2, <1>3, NextTickTime, MsecInRound, WheelAssumption, Units
<1> HIDE DEF now, next
<1>9. ASSUME NEW t \in Timers PROVE AgeOk(t)' /\ PlaceOk(t)'
  <2>0. CASE ~Undisturbed(t) BY <1>2, <1>6, <2>0 DEF AgeOk, PlaceOk, Undisturbed
  <2> SUFFICES ASSUME Undisturbed(t) PROVE AgeOk(t)' /\ PlaceOk(t)' BY <2>0
  <2> DEFINE i == event[t].interval
  <2>1. /\ event[t].tick \in Ticks /\ i \in Nat /\ i < RoundMs /\ age[t] \in Nat
        /\ Start(t) \in Nat /\ Start(t) < RoundMs /\ Due(t) \in Ticks
        /\ InRound(t) => Msec(Due(t)) = Start(t) + i
    BY <1>1, DueFacts DEF Undisturbed
  <2>2. /\ event'[t] = event[t] /\ Start(t)' = Start(t) /\ InRound(t)' = InRound(t)
        /\ Due(t)' = Due(t)
    BY <1>2 DEF Start, InRound, Due, NextTriggerSlot, Msec
  <2>3. age'[t] = IF age[t] + RefreshInterval > i + RefreshInterval THEN age[t] ELSE age[t] + RefreshInterval
    BY <1>2, <2>1 DEF Later, LATE
  <2>4. AgeOk(t)'
    <3> SUFFICES ASSUME age'[t] < i PROVE next \in {Start(t) + age'[t], Start(t) + age'[t] - RoundMs}
      BY <2>2 DEF AgeOk, next
    <3>1. age[t] < i /\ age'[t] = age[t] + RefreshInterval BY <1>8, <2>1, <2>3
    <3>2. now \in {Start(t) + age[t], Start(t) + age[t] - RoundMs}
      BY <3>1 DEF PInv, AgeOk, now
    <3> HIDE DEF i
    <3> QED BY <3>1, <3>2, <1>8, <2>1
  <2>5. ASSUME InRound(t) PROVE PlaceOk(t)'
    <3>1. now = Start(t) + age[t] /\ age[t] <= i /\ Somewhere(t)
      BY <2>5 DEF PInv, PlaceOk, now
    <3>2. Placed(t) BY <1>2, <3>1 DEF Somewhere
    <3>3. Due(t) # timeTick
      <4>1. SUFFICES ASSUME Due(t) = timeTick PROVE FALSE OBVIOUS
      <4>2. WheelOf(timeTick, timeTick) \in Slots BY <3>2, <4>1 DEF Placed
      <4> QED BY <1>3, <4>2, OwnTickHasNone
    <3>4. Msec(Due(t)) # now BY <1>3, <2>1, <3>3, MsecInjective DEF now
    <3>5. age[t] < i BY <2>1, <2>5, <3>1, <3>4
    <3>6. now + RefreshInterval <= Msec(Due(t))
      <4>1. PICK m \in Nat : now = RefreshInterval * m BY <1>3, MsecIsMultiple DEF now
      <4>2. PICK k \in Nat : Msec(Due(t)) = RefreshInterval * k BY <2>1, MsecIsMultiple
      <4>3. now < Msec(Due(t)) BY <1>8, <2>1, <2>5, <3>1, <3>5
      <4>4. m < k
        <5>1. SUFFICES ASSUME k <= m PROVE FALSE OBVIOUS
        <5>2. RefreshInterval * k <= RefreshInterval * m BY <1>8, <5>1, TimesKeepsOrder
        <5> QED BY <1>8, <2>1, <2>5, <4>1, <4>2, <4>3, <5>2
      <4>5. RefreshInterval * (m + 1) <= RefreshInterval * k BY <1>8, <4>4, TimesKeepsOrder
      <4>6. RefreshInterval * (m + 1) = now + RefreshInterval BY <1>8, <4>1
      <4> QED BY <4>2, <4>5, <4>6
    <3>7. Start(t) + i < RoundMs BY <2>5 DEF InRound, Start
    <3>8. next = now + RefreshInterval /\ next <= Msec(Due(t)) /\ now < next
      BY <1>8, <2>1, <2>5, <3>6, <3>7
    <3>9. age'[t] = age[t] + RefreshInterval /\ age'[t] <= i
      BY <1>8, <2>1, <2>3, <2>5, <3>1, <3>5, <3>6
    <3>10. \/ Due(t) # timeTick' /\ WheelOf(Due(t), timeTick') = WheelOf(Due(t), timeTick)
           \/ WheelOf(Due(t), timeTick) = WheelOf(timeTick', timeTick)
      BY <1>3, <2>1, <3>8, Cascade DEF now, next
    <3>11. CurWheel' = WheelOf(timeTick', timeTick) BY <1>2 DEF CurWheel
    <3>12. Somewhere(t)'
      BY <1>2, <2>2, <3>2, <3>10, <3>11 DEF Somewhere, Placed
    <3>13. next = Start(t) + age'[t] BY <1>8, <2>1, <3>1, <3>8, <3>9
    <3> QED BY <2>2, <3>9, <3>12, <3>13 DEF PlaceOk, next
  <2> QED BY <2>2, <2>4, <2>5 DEF PlaceOk
<1> QED BY <1>1, <1>4, <1>7, <1>9 DEF PInv

\* The timer thread takes the list, and lets go of it.
LEMMA WalkPInv == ASSUME PInv, Deal \/ DealEnd \/ Clear PROVE PInv'
<1>1. IInv /\ IInv' /\ ArmedInv BY DealKeeps, DealEndKeeps, ClearKeeps DEF PInv
<1>2. UNCHANGED <<timeTick, event, age, raced, adder>> BY DEF Deal, DealEnd, Clear
<1>3. ArmedInv' BY <1>1, <1>2 DEF ArmedInv, Running
<1>4. \A a \in Adders : AdderOk(a)' BY <1>2, AdderStays DEF PInv
<1>5. ASSUME NEW t \in Timers, Undisturbed(t), InRound(t), Somewhere(t) PROVE Somewhere(t)'
  <2>1. Due(t)' = Due(t) BY <1>2 DEF Due, NextTriggerSlot, Msec
  <2>2. WheelOf(Due(t), timeTick)' = WheelOf(Due(t), timeTick) BY <1>2, <2>1 DEF WheelOf
  <2>3. CASE Deal BY <1>5, <2>2, <2>3 DEF Deal, Somewhere, Placed
  <2>4. CASE DealEnd BY <1>5, <2>2, <2>4 DEF DealEnd, Somewhere, Placed
  <2>5. CASE Clear
    <3>1. Placed(t) /\ lists' = [lists EXCEPT ![CurWheel] = {}] BY <1>5, <2>5 DEF Clear, Somewhere
    <3>2. Due(t) # timeTick
      <4>1. SUFFICES ASSUME Due(t) = timeTick PROVE FALSE OBVIOUS
      <4>2. WheelOf(timeTick, timeTick) \in Slots BY <3>1, <4>1 DEF Placed
      <4>3. timeTick \in Ticks BY <1>1 DEF IInv, TypeOK
      <4> QED BY <4>2, <4>3, OwnTickHasNone
    <3>3. timeTick \in Ticks /\ preTick \in Ticks /\ Due(t) \in Ticks
      BY <1>1, <1>5, DueFacts DEF IInv, TypeOK, Undisturbed
    <3>4. WheelOf(Due(t), timeTick) # CurWheel BY <3>2, <3>3, OtherTickHasList DEF CurWheel
    <3> QED BY <1>1, <2>2, <3>1, <3>4 DEF Somewhere, Placed, IInv, TypeOK
  <2> QED BY <2>3, <2>4, <2>5
<1>6. \A t \in Timers : AgeOk(t)' /\ PlaceOk(t)' BY <1>2, <1>5, TimerStays DEF PInv
<1> QED BY <1>1, <1>3, <1>4, <1>6 DEF PInv

\* A timer that the walk does not look at.
LEMMA OthersStay ==
    ASSUME PInv, timerPc = "deal", NEW t \in Timers, todo' = todo \ {t},
           UNCHANGED <<timeTick, preTick, timerPc>>,
           \A s \in Slots : lists[s] \ {t} \subseteq lists'[s],
           NEW u \in Timers \ {t},
           event'[u] = event[u], age'[u] = age[u], raced'[u] = raced[u]
    PROVE  AgeOk(u)' /\ PlaceOk(u)'
<1>1. Due(u)' = Due(u) BY DEF Due, NextTriggerSlot, Msec
<1>2. WheelOf(Due(u), timeTick)' = WheelOf(Due(u), timeTick) BY <1>1 DEF WheelOf
<1>3. Somewhere(u) => Somewhere(u)' BY <1>2 DEF Somewhere, Placed
<1> QED BY <1>3, TimerStays DEF PInv

LEMMA DealOnePInv == ASSUME PInv, NEW t \in Timers, DealOne(t) PROVE PInv'
<1> DEFINE elapsed == ElapsedMsec(timeTick, event[t].tick)
<1>1. IInv /\ ArmedInv BY DEF PInv
<1>2. /\ timerPc = "deal" /\ t \in todo /\ todo' = todo \ {t}
      /\ UNCHANGED <<timeTick, lock, timerPc, preTick, adder>>
      /\ FireOnce(t) \/ FireAdding(t) \/ FireAgain(t) \/ (elapsed # event[t].interval /\ NotDue(t, elapsed))
  BY DEF DealOne
<1>3. IInv'
  BY <1>1, <1>2, FireOnceKeeps, FireAddingKeeps, FireAgainKeeps, NotDueKeeps
<1>4. \A a \in Adders : AdderOk(a)' BY <1>2, AdderStays DEF PInv
<1>5. t \in Running /\ CurWheel \in Slots BY <1>1, <1>2 DEF IInv, WalkInv, ListInv
<1>6. timeTick' \in Ticks BY <1>3 DEF IInv, TypeOK
<1> HIDE DEF elapsed
<1>7. CASE FireOnce(t)
  <2>1. /\ lists' = [lists EXCEPT ![CurWheel] = @ \ {t}]
        /\ event' = [event EXCEPT ![t] = NoEvent] /\ age' = [age EXCEPT ![t] = -1]
        /\ raced' = [raced EXCEPT ![t] = FALSE]
    BY <1>7 DEF FireOnce
  <2>2. \A s \in Slots : lists[s] \ {t} \subseteq lists'[s] BY <1>1, <2>1 DEF IInv, TypeOK
  <2>3. /\ age'[t] = -1
        /\ \A u \in Timers \ {t} : event'[u] = event[u] /\ age'[u] = age[u] /\ raced'[u] = raced[u]
    BY <1>1, <2>1 DEF IInv, Domains
  <2>4. \A u \in Timers \ {t} : AgeOk(u)' /\ PlaceOk(u)' BY <1>2, <2>2, <2>3, OthersStay
  <2>5. AgeOk(t)' /\ PlaceOk(t)' BY <2>3 DEF AgeOk, PlaceOk, Undisturbed, Running
  <2>6. ArmedInv' BY <1>1, <2>3 DEF ArmedInv, Running
  <2> QED BY <1>3, <1>4, <2>4, <2>5, <2>6 DEF PInv
<1>8. CASE FireAdding(t)
  <2>1. PICK u \in Timers \ Running, i \in Intervals :
           /\ lists' = Push([lists EXCEPT ![CurWheel] = @ \ {t}], u,
                            WheelOf(NextTriggerSlot(timeTick, i), timeTick))
           /\ event' = [event EXCEPT ![t] = NoEvent,
                                     ![u] = [interval |-> i, tick |-> timeTick]]
           /\ age' = [age EXCEPT ![t] = -1, ![u] = 0]
           /\ raced' = [raced EXCEPT ![t] = FALSE]
    BY <1>8 DEF FireAdding
  <2> DEFINE rest == [lists EXCEPT ![CurWheel] = @ \ {t}]
             new == [interval |-> i, tick |-> timeTick]
             slot == WheelOf(NextTriggerSlot(timeTick, i), timeTick)
  <2>2. rest \in [Slots -> SUBSET Timers] /\ \A s \in Slots : lists[s] \ {t} \subseteq rest[s]
    BY <1>1 DEF IInv, TypeOK
  <2>3. new.interval = i /\ new.tick = timeTick OBVIOUS
  <2>4. lists' = Push(rest, u, slot) /\ event' = [event EXCEPT ![t] = NoEvent, ![u] = new]
    BY <2>1
  <2> HIDE DEF rest, new, slot
  <2>5. \A s \in Slots : lists[s] \ {t} \subseteq lists'[s] /\ (s = slot => u \in lists'[s])
    BY <2>2, <2>4, PushAdds
  <2>6. u # t BY <1>5, <2>1
  <2>7. /\ age'[t] = -1 /\ age'[u] = 0 /\ event'[u] = new
        /\ \A x \in Timers \ {t, u} : event'[x] = event[x] /\ age'[x] = age[x] /\ raced'[x] = raced[x]
    BY <1>1, <2>1, <2>4, <2>6 DEF IInv, Domains
  <2>8. \A x \in Timers \ {t, u} : AgeOk(x)' /\ PlaceOk(x)' BY <1>2, <2>5, <2>7, OthersStay
  <2>9. AgeOk(t)' /\ PlaceOk(t)' BY <2>7 DEF AgeOk, PlaceOk, Undisturbed, Running
  <2>10. AgeOk(u)' /\ PlaceOk(u)'
    <3>1. event'[u].tick = timeTick' /\ event'[u].interval = i BY <1>2, <2>3, <2>7
    <3>2. LET sl == WheelOf(NextTriggerSlot(timeTick', event'[u].interval), timeTick')
          IN  sl \in Slots => u \in lists'[sl]
      BY <1>2, <2>5, <3>1 DEF slot
    <3> QED BY <1>6, <2>7, <3>1, <3>2, ArmedNow
  <2>11. ArmedInv' BY <1>1, <2>3, <2>7 DEF ArmedInv, Running
  <2> QED BY <1>3, <1>4, <2>8, <2>9, <2>10, <2>11 DEF PInv
<1>9. CASE FireAgain(t)
  <2> DEFINE slot == WheelOf(NextTriggerSlot(timeTick, event[t].interval), timeTick)
  <2>1. /\ event' = [event EXCEPT ![t].tick = timeTick]
        /\ lists' = Push(lists, t, slot)
        /\ age' = [age EXCEPT ![t] = 0] /\ raced' = [raced EXCEPT ![t] = FALSE]
    BY <1>9 DEF FireAgain
  <2> HIDE DEF slot
  <2>2. \A s \in Slots : lists[s] \ {t} \subseteq lists'[s] /\ (s = slot => t \in lists'[s])
    BY <1>1, <2>1, PushAdds DEF IInv, TypeOK
  <2>3. /\ age'[t] = 0 /\ event'[t].tick = timeTick /\ event'[t].interval = event[t].interval
        /\ \A u \in Timers \ {t} : event'[u] = event[u] /\ age'[u] = age[u] /\ raced'[u] = raced[u]
    BY <1>1, <2>1 DEF IInv, Domains
  <2>4. \A u \in Timers \ {t} : AgeOk(u)' /\ PlaceOk(u)' BY <1>2, <2>2, <2>3, OthersStay
  <2>5. AgeOk(t)' /\ PlaceOk(t)'
    <3>1. LET sl == WheelOf(NextTriggerSlot(timeTick', event'[t].interval), timeTick')
          IN  sl \in Slots => t \in lists'[sl]
      BY <1>2, <2>2, <2>3 DEF slot
    <3>2. event[t].interval \in Intervals BY <1>1, <1>5 DEF ArmedInv
    <3> QED BY <1>2, <1>6, <2>3, <3>1, <3>2, ArmedNow
  <2>6. ArmedInv' BY <1>1, <1>5, <2>3 DEF ArmedInv, Running
  <2> QED BY <1>3, <1>4, <2>4, <2>5, <2>6 DEF PInv
<1>10. CASE elapsed # event[t].interval /\ NotDue(t, elapsed)
  <2> DEFINE slot == WheelOf(NextTriggerSlot(timeTick, event[t].interval - elapsed), timeTick)
  <2>1. lists' = Push(lists, t, slot) /\ UNCHANGED <<event, age, raced>>
    BY <1>10 DEF NotDue
  <2>2. \A s \in Slots : lists[s] \ {t} \subseteq lists'[s] /\ (s = slot => t \in lists'[s])
    <3> HIDE DEF slot
    <3> QED BY <1>1, <2>1, PushAdds DEF IInv, TypeOK
  <2>3. \A u \in Timers \ {t} : AgeOk(u)' /\ PlaceOk(u)' BY <1>2, <2>1, <2>2, OthersStay
  <2>4. AgeOk(t)' /\ PlaceOk(t)'
    <3>1. ASSUME Undisturbed(t), InRound(t) PROVE Somewhere(t)'
      <4>1. /\ event[t].tick \in Ticks /\ timeTick \in Ticks /\ event[t].interval \in Nat
            /\ age[t] \in Nat /\ Start(t) \in Nat /\ Due(t) \in Ticks
            /\ Msec(Due(t)) = Start(t) + event[t].interval
        BY <1>1, <1>5, <3>1, DueFacts
      <4>2. Msec(timeTick) = Start(t) + age[t] BY <3>1 DEF PInv, PlaceOk
      <4>3. elapsed = age[t]
        <5>1. Msec(event[t].tick) <= Msec(timeTick) /\ Msec(timeTick) - Msec(event[t].tick) = age[t]
          BY <4>1, <4>2 DEF Start
        <5> QED BY <4>1, <5>1, ElapsedTime DEF elapsed
      <4>4. Due(t) # timeTick BY <1>10, <4>1, <4>2, <4>3
      <4>5. NextTriggerSlot(timeTick, event[t].interval - elapsed) = Due(t)
        <5>1. Msec(timeTick) + (event[t].interval - elapsed) = Msec(event[t].tick) + event[t].interval
          BY <4>1, <4>2, <4>3 DEF Start
        <5> QED BY <5>1, SameSlot DEF Due
      <4>6. WheelOf(Due(t), timeTick) \in Slots BY <4>1, <4>4, OtherTickHasList
      <4>7. WheelOf(Due(t), timeTick)' = WheelOf(Due(t), timeTick)
        BY <1>2, <2>1 DEF Due, WheelOf, NextTriggerSlot, Msec
      <4> QED BY <2>2, <4>5, <4>6, <4>7 DEF Somewhere, Placed
    <3> QED BY <1>2, <2>1, <3>1, TimerStays DEF PInv
  <2>5. ArmedInv' BY <1>1, <2>1 DEF ArmedInv, Running
  <2> QED BY <1>3, <1>4, <2>3, <2>4, <2>5 DEF PInv
<1> QED BY <1>2, <1>7, <1>8, <1>9, <1>10

LEMMA StepPInv == PInv /\ [Next]_vars => PInv'
<1> SUFFICES ASSUME PInv, [Next]_vars PROVE PInv' OBVIOUS
<1>1. CASE UNCHANGED vars
  <2>1. IInv' BY <1>1, StepIInv DEF PInv
  <2>2. UNCHANGED <<timeTick, preTick, timerPc, todo, event, age, raced, lists, adder>>
    BY <1>1 DEF vars
  <2>3. ArmedInv' /\ \A t \in Timers : AgeOk(t)' /\ PlaceOk(t)' BY <2>2, TimersStay
  <2>4. \A a \in Adders : AdderOk(a)' BY <2>2, AdderStays DEF PInv
  <2> QED BY <2>1, <2>3, <2>4 DEF PInv
<1> QED BY <1>1, AddReadsPInv, AddPushPInv, AdvancePInv, WalkPInv, DealOnePInv DEF Next

LEMMA PlacesHold == Spec => []PInv
BY InitPInv, StepPInv, PTL DEF Spec

\* The cascade from minutes to seconds to ticks loses no timer and is never
\* late, for wheels of any size and any number of threads that add: a timer
\* that nobody has disturbed is in the list where refresh_timer() will look
\* for it, and the tick that it is due in serves it.
THEOREM TimersAreOnTime == Spec => []OnTime
<1>1. PInv => OnTime
  <2> SUFFICES ASSUME PInv, NEW t \in Timers, Undisturbed(t), InRound(t)
               PROVE  /\ ~Overdue(t)
                      /\ age[t] = event[t].interval => timerPc \in {"ticked", "deal"}
    BY DEF OnTime
  <2>1. /\ timeTick \in Ticks /\ event[t].interval \in Nat /\ age[t] \in Nat /\ Start(t) \in Nat
        /\ Msec(Due(t)) = Start(t) + event[t].interval
    BY DueFacts DEF PInv, Undisturbed
  <2>2. Msec(timeTick) = Start(t) + age[t] /\ age[t] <= event[t].interval /\ Somewhere(t)
    BY DEF PInv, PlaceOk
  <2>3. ASSUME age[t] = event[t].interval PROVE ~Placed(t)
    <3>1. SUFFICES ASSUME Placed(t) PROVE FALSE OBVIOUS
    <3>2. Due(t) \in Ticks BY DueFacts DEF PInv, Undisturbed
    <3>3. Due(t) = timeTick BY <2>1, <2>2, <2>3, <3>2, MsecInjective
    <3> QED BY <2>1, <3>1, <3>3, OwnTickHasNone DEF Placed
  <2> QED BY <2>1, <2>2, <2>3 DEF Overdue, Somewhere
<1> QED BY <1>1, PlacesHold, PTL

\* No callback of less than a minute runs before its time, though DiffMsec is a
\* minute too long for those that the end of the round overtakes.
THEOREM TimersAreNeverEarly == Spec => NeverEarly
<1>1. ASSUME PInv, [Next]_vars, NEW t \in Timers, Undisturbed(t), event[t].interval < MinMs,
             age'[t] < age[t], age[t] < event[t].interval
      PROVE  FALSE
  <2>0. IInv /\ ArmedInv /\ age \in [Timers -> Int] BY <1>1 DEF PInv, IInv, Domains
  <2>1. /\ timeTick \in Ticks /\ event[t].tick \in Ticks /\ event[t].interval \in Nat
        /\ event[t].interval < RoundMs
        /\ age[t] \in Nat /\ Start(t) \in Nat /\ Start(t) < RoundMs
    BY <1>1, <2>0, DueFacts DEF Undisturbed
  <2>2. PICK u \in Timers : DealOne(u)
    <3>1. ASSUME NEW a \in Adders, AddRead(a) \/ AddRefused(a) \/ AddLock(a) PROVE FALSE
      BY <1>1, <2>1, <3>1 DEF AddRead, AddRefused, AddLock
    <3>2. ASSUME NEW a \in Adders, AddPush(a) PROVE FALSE
      <4>1. PICK u \in Timers \ Running : age' = [age EXCEPT ![u] = 0] BY <3>2 DEF AddPush
      <4>2. u # t BY <1>1, <4>1 DEF Undisturbed
      <4> QED BY <1>1, <2>0, <2>1, <4>1, <4>2
    <3>3. CASE Advance
      <4>1. age'[t] = Later(age[t], event[t].interval) BY <3>3 DEF Advance
      <4> QED BY <1>1, <2>1, <4>1, WheelAssumption DEF Later
    <3>4. CASE Deal \/ DealEnd \/ Clear BY <1>1, <2>1, <3>4 DEF Deal, DealEnd, Clear
    <3>5. CASE UNCHANGED vars BY <1>1, <2>1, <3>5 DEF vars
    <3> QED BY <1>1, <3>1, <3>2, <3>3, <3>4, <3>5 DEF Next
  <2>3. u = t /\ ElapsedMsec(timeTick, event[t].tick) = event[t].interval
    <3>1. /\ FireOnce(u) \/ FireAdding(u) \/ FireAgain(u) => ElapsedMsec(timeTick, event[u].tick) = event[u].interval
          /\ \/ FireOnce(u) \/ FireAdding(u) \/ FireAgain(u)
             \/ NotDue(u, ElapsedMsec(timeTick, event[u].tick))
      <4>1. \/ ElapsedMsec(timeTick, event[u].tick) = event[u].interval
            \/ NotDue(u, ElapsedMsec(timeTick, event[u].tick)) /\ age' = age
        BY <2>2 DEF DealOne, NotDue
      <4> QED BY <1>1, <2>1, <2>2, <4>1 DEF DealOne
    <3>2. ~NotDue(u, ElapsedMsec(timeTick, event[u].tick)) BY <1>1, <2>1 DEF NotDue
    <3>3. u = t
      <4>0. age'[t] # age[t] BY <1>1, <2>1
      <4>1. SUFFICES ASSUME u # t PROVE age'[t] = age[t] BY <4>0
      <4>2. CASE FireOnce(u) BY <2>0, <2>1, <4>1, <4>2 DEF FireOnce
      <4>3. CASE FireAgain(u) BY <2>0, <2>1, <4>1, <4>3 DEF FireAgain
      <4>4. CASE FireAdding(u)
        <5>1. PICK x \in Timers \ Running : age' = [age EXCEPT ![u] = -1, ![x] = 0]
          BY <4>4 DEF FireAdding
        <5>2. x # t BY <1>1, <5>1 DEF Undisturbed
        <5> QED BY <2>0, <2>1, <4>1, <5>1, <5>2
      <4> QED BY <3>1, <3>2, <4>2, <4>3, <4>4
    <3> QED BY <3>1, <3>2, <3>3
  <2>4. Msec(timeTick) \in {Start(t) + age[t], Start(t) + age[t] - RoundMs}
    BY <1>1 DEF PInv, AgeOk
  <2>5. ElapsedMsec(timeTick, event[t].tick) =
            IF Start(t) <= Msec(timeTick) THEN Msec(timeTick) - Start(t)
            ELSE Msec(timeTick) - Start(t) + RoundMs + MinMs
    BY <2>1, ElapsedTime DEF Start
  <2> QED BY <1>1, <2>1, <2>3, <2>4, <2>5, Units
<1>2. PInv /\ [Next]_vars =>
          [\A t \in Timers :
              Undisturbed(t) /\ event[t].interval < MinMs /\ age'[t] < age[t]
              => age[t] >= event[t].interval]_vars
  <2> SUFFICES ASSUME PInv, [Next]_vars, NEW t \in Timers, Undisturbed(t),
                      event[t].interval < MinMs, age'[t] < age[t]
               PROVE  age[t] >= event[t].interval
    OBVIOUS
  <2>1. age[t] \in Nat /\ event[t].interval \in Nat BY DueFacts DEF PInv, Undisturbed
  <2> QED BY <1>1, <2>1
<1> QED BY <1>2, PlacesHold, PTL DEF Spec, NeverEarly

=============================================================================
