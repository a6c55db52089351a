----------------------------- MODULE TimerWheel -----------------------------
(***************************************************************************)
(* The class base::Timer (base/timer.cpp): three wheels of lists, for the  *)
(* ticks of a second, the seconds of a minute and the minutes of a round,  *)
(* advanced by one thread (thread_loop) and filled by others (add_timer).  *)
(*                                                                         *)
(* m_TimerMutex guards the lists, but m_TimeTick is written by the timer   *)
(* thread and read by add_timer() without it.  An add is therefore three   *)
(* steps (read the tick, lock and compute the slot, push and unlock), each *)
(* with a read of its own, and a read that overlaps the write may mix the  *)
(* fields of the old and the new tick.                                     *)
(*                                                                         *)
(* Lists are sets: the order inside a list only orders the callbacks of    *)
(* one tick.  A callback is reduced to the answer it gives: run again or   *)
(* end.  Times are in milliseconds.                                        *)
(***************************************************************************)
EXTENDS Integers, FiniteSets

CONSTANTS
    Timers,           \* the TimerEvents of the model
    Adders,           \* the threads that call add_timer()
    Intervals,        \* the intervals they ask for
    RefreshInterval,  \* m_RefreshInterval, the length of a tick
    MsecTick,         \* ticks of a second: 1000 / RefreshInterval
    SecTick,          \* m_SecTick, seconds of a minute: 60
    MinTick,          \* m_MinTick, minutes of a round
    WordSize,         \* 2^32, the modulus of the uint32_t arithmetic
    MaxTimers         \* MAX_TIMER_NUM

SecMs == RefreshInterval * MsecTick     \* the 1000 of the code
MinMs == SecMs * SecTick                \* its 60000
RoundMs == MinMs * MinTick              \* a round of the minute wheel

ASSUME WheelAssumption ==
    /\ {RefreshInterval, MsecTick, SecTick, MinTick} \subseteq Nat \ {0, 1}
    /\ WordSize \in Nat /\ WordSize > RoundMs + MinMs
    /\ MaxTimers \in Nat \ {0}
    \* The tests at the head of add_timer(); the program never asks for a
    \* single tick.
    /\ \A i \in Intervals :
           /\ i \in Nat /\ i > RefreshInterval /\ i < RoundMs
           /\ i % RefreshInterval = 0

VARIABLES
    timeTick,    \* m_TimeTick
    lists,       \* m_pWheelList
    timerCount,  \* m_TimerCount
    event,       \* event[t]: Interval and EventTimeTick of timer t
    lock,        \* the holder of m_TimerMutex, or FREE
    timerPc,     \* where the timer thread is in refresh_timer()
    preTick,     \* its PreTime
    todo,        \* the events of CurWheel it has still to look at
    adder,       \* adder[a]: where thread a is in add_timer(), with which event
    age,         \* history: the time since t was armed, up to LATE past due
    raced        \* history: m_TimeTick moved while t was being added, or tore

vars == <<timeTick, lists, timerCount, event, lock, timerPc, preTick, todo,
          adder, age, raced>>

FREE == "free"
TIMER == "timer"
NOWHERE == <<"none", 0>>

ASSUME AddersAssumption == {FREE, TIMER} \cap Adders = {}

Ticks == [Min : 0..(MinTick - 1), Sec : 0..(SecTick - 1), Ms : 0..(MsecTick - 1)]
Slots == ({"min"} \X (0..(MinTick - 1))) \cup ({"sec"} \X (0..(SecTick - 1)))
         \cup ({"ms"} \X (0..(MsecTick - 1)))

\* _calculate_msec()
Msec(tick) == RefreshInterval * tick.Ms + SecMs * tick.Sec + MinMs * tick.Min

\* _get_next_trigger_slot(), from the tick now.  The interval may be negative
\* and stands for its uint32_t value.
NextTriggerSlot(now, interval) ==
    LET future == (Msec(now) + interval) % WordSize
    IN  [Min |-> (future \div MinMs) % MinTick,
         Sec |-> (future % MinMs) \div SecMs,
         Ms  |-> (future % SecMs) \div RefreshInterval]

\* Slip: the minute wheel is consulted last.
SlipSecondsFirst(e, now) ==
    CASE e.Sec # now.Sec -> <<"sec", e.Sec>>
      [] e.Sec = now.Sec /\ e.Ms # now.Ms -> <<"ms", e.Ms>>
      [] e.Sec = now.Sec /\ e.Ms = now.Ms /\ e.Min # now.Min -> <<"min", e.Min>>
      [] OTHER -> NOWHERE

\* The list for the tick e, seen from the tick now: the wheel of the largest
\* unit in which they differ.  It decides where _insert_timer() pushes and
\* which list refresh_timer() visits.
WheelOf(e, now) ==
    CASE e.Min # now.Min -> <<"min", e.Min>>
      [] e.Min = now.Min /\ e.Sec # now.Sec -> <<"sec", e.Sec>>
      [] e.Min = now.Min /\ e.Sec = now.Sec /\ e.Ms # now.Ms -> <<"ms", e.Ms>>
      [] OTHER -> NOWHERE

\* The lists after a push of t; a push to NOWHERE is no push.
Push(ls, t, slot) ==
    [s \in Slots |-> IF s = slot THEN ls[s] \cup {t} ELSE ls[s]]

\* Slip: the tick that has just begun counts as passed.
SlipElapsedAhead(now, then) ==
    (Msec(now) - Msec(then) + RefreshInterval) % RoundMs

\* DiffMsec of _deal_time_wheel().
ElapsedMsec(now, then) ==
    (Msec(now) - Msec(then) + (MinTick + 1) * MinMs) % ((MinTick + 1) * MinMs)

\* What an unlocked read of m_TimeTick may return: while the timer thread is
\* just past the assignment, any mix of the old fields and the new.
TickReads ==
    IF timerPc = "ticked"
    THEN [Min : {preTick.Min, timeTick.Min}, Sec : {preTick.Sec, timeTick.Sec},
          Ms : {preTick.Ms, timeTick.Ms}]
    ELSE {timeTick}

Idle == [pc |-> "idle"]
NoEvent == [interval |-> 0, tick |-> [Min |-> 0, Sec |-> 0, Ms |-> 0]]
Running == {t \in Timers : age[t] # -1}
LATE == RefreshInterval   \* bound: how far past its time an age is counted

Init ==
    /\ timeTick = [Min |-> 0, Sec |-> 0, Ms |-> 0]
    /\ lists = [s \in Slots |-> {}]
    /\ timerCount = 0
    /\ event = [t \in Timers |-> NoEvent]
    /\ lock = FREE
    /\ timerPc = "idle"
    /\ preTick = timeTick
    /\ todo = {}
    /\ adder = [a \in Adders |-> Idle]
    /\ age = [t \in Timers |-> -1]
    /\ raced = [t \in Timers |-> FALSE]

-----------------------------------------------------------------------------
(* add_timer() by the thread a. *)

\* NewEvent takes its interval and, before the lock, the current tick.
AddRead(a) ==
    /\ adder[a].pc = "idle"
    /\ \E i \in Intervals, now \in TickReads :
           adder' = [adder EXCEPT ![a] =
               [pc |-> "read", new |-> [interval |-> i, tick |-> now],
                raced |-> now # timeTick]]
    /\ UNCHANGED <<timeTick, lists, timerCount, event, lock, timerPc, preTick,
                   todo, age, raced>>

\* MAX_TIMER_NUM timers exist: add_timer() returns false.
AddRefused(a) ==
    /\ adder[a].pc = "read"
    /\ lock = FREE
    /\ timerCount = MaxTimers
    /\ adder' = [adder EXCEPT ![a] = Idle]
    /\ UNCHANGED <<timeTick, lists, timerCount, event, lock, timerPc, preTick,
                   todo, age, raced>>

AddLock(a) ==
    /\ adder[a].pc = "read"
    /\ lock = FREE
    /\ timerCount # MaxTimers
    /\ lock' = a
    /\ \E now \in TickReads :
           adder' = [adder EXCEPT ![a] =
               [pc |-> "locked", new |-> @.new,
                slot |-> NextTriggerSlot(now, @.new.interval),
                raced |-> @.raced \/ now # timeTick]]
    /\ UNCHANGED <<timeTick, lists, timerCount, event, timerPc, preTick, todo,
                   age, raced>>

AddPush(a) ==
    /\ adder[a].pc = "locked"
    /\ \E t \in Timers \ Running, now \in TickReads :
           /\ lists' = Push(lists, t, WheelOf(adder[a].slot, now))
           /\ event' = [event EXCEPT ![t] = adder[a].new]
           /\ age' = [age EXCEPT ![t] = 0]
           /\ raced' = [raced EXCEPT ![t] = adder[a].raced \/ now # timeTick]
    /\ timerCount' = timerCount + 1
    /\ lock' = FREE
    /\ adder' = [adder EXCEPT ![a] = Idle]
    /\ UNCHANGED <<timeTick, timerPc, preTick, todo>>

-----------------------------------------------------------------------------
(* thread_loop(): one refresh_timer() per tick. *)

Later(x, i) == IF x = -1 THEN -1
               ELSE IF x + RefreshInterval > i + LATE THEN x ELSE x + RefreshInterval

\* m_TimeTick moves on, without the lock.
Advance ==
    /\ timerPc = "idle"
    /\ preTick' = timeTick
    /\ timeTick' = NextTriggerSlot(timeTick, RefreshInterval)
    /\ timerPc' = "ticked"
    /\ age' = [t \in Timers |-> Later(age[t], event[t].interval)]
    /\ adder' = [a \in Adders |->
                    IF adder[a] = Idle THEN Idle ELSE [adder[a] EXCEPT !.raced = TRUE]]
    /\ UNCHANGED <<lists, timerCount, event, lock, todo, raced>>

CurWheel == WheelOf(timeTick, preTick)

\* _deal_time_wheel() locks and walks the list of the new tick.
Deal ==
    /\ timerPc = "ticked"
    /\ lock = FREE
    /\ lock' = TIMER
    /\ todo' = lists[CurWheel]
    /\ timerPc' = "deal"
    /\ UNCHANGED <<timeTick, lists, timerCount, event, preTick, adder, age, raced>>

\* Slip: an event that ends is erased but still counted.
SlipFireUncounted(t) ==
    /\ lists' = [lists EXCEPT ![CurWheel] = @ \ {t}]
    /\ event' = [event EXCEPT ![t] = NoEvent]
    /\ age' = [age EXCEPT ![t] = -1]
    /\ raced' = [raced EXCEPT ![t] = FALSE]
    /\ UNCHANGED timerCount

\* The event of t is due; its callback ends it or asks to run again.
FireOnce(t) ==
    /\ timerCount' = timerCount - 1
    /\ lists' = [lists EXCEPT ![CurWheel] = @ \ {t}]
    /\ event' = [event EXCEPT ![t] = NoEvent]
    /\ age' = [age EXCEPT ![t] = -1]
    /\ raced' = [raced EXCEPT ![t] = FALSE]

\* As every callback that calls add_timer_lockless(), it adds a timer and ends.
FireAdding(t) ==
    /\ timerCount # MaxTimers
    /\ \E u \in Timers \ Running, i \in Intervals :
           /\ lists' = Push([lists EXCEPT ![CurWheel] = @ \ {t}], u,
                            WheelOf(NextTriggerSlot(timeTick, i), timeTick))
           /\ event' = [event EXCEPT ![t] = NoEvent,
                                     ![u] = [interval |-> i, tick |-> timeTick]]
           /\ age' = [age EXCEPT ![t] = -1, ![u] = 0]
           /\ raced' = [raced EXCEPT ![t] = FALSE]
    /\ UNCHANGED timerCount

FireAgain(t) ==
    /\ event' = [event EXCEPT ![t].tick = timeTick]
    /\ lists' = Push(lists, t, WheelOf(NextTriggerSlot(timeTick, event[t].interval), timeTick))
    /\ age' = [age EXCEPT ![t] = 0]
    /\ raced' = [raced EXCEPT ![t] = FALSE]
    /\ UNCHANGED timerCount

\* It is not: it goes to the list of the time that is left.
NotDue(t, elapsed) ==
    /\ lists' = Push(lists, t,
           WheelOf(NextTriggerSlot(timeTick, event[t].interval - elapsed), timeTick))
    /\ UNCHANGED <<timerCount, event, age, raced>>

DealOne(t) ==
    LET elapsed == ElapsedMsec(timeTick, event[t].tick) IN
    /\ timerPc = "deal"
    /\ t \in todo
    /\ todo' = todo \ {t}
    /\ \/ elapsed = event[t].interval /\ (FireOnce(t) \/ FireAdding(t) \/ FireAgain(t))
       \/ elapsed # event[t].interval /\ NotDue(t, elapsed)
    /\ UNCHANGED <<timeTick, lock, timerPc, preTick, adder>>

\* Slip: the walk leaves m_TimerMutex locked.
SlipDealEndLocked ==
    /\ timerPc = "deal"
    /\ todo = {}
    /\ timerPc' = "clear"
    /\ UNCHANGED <<timeTick, lists, timerCount, event, lock, preTick, todo, adder,
                   age, raced>>

DealEnd ==
    /\ timerPc = "deal"
    /\ todo = {}
    /\ lock' = FREE
    /\ timerPc' = "clear"
    /\ UNCHANGED <<timeTick, lists, timerCount, event, preTick, todo, adder, age, raced>>

\* CurWheel.clear(), after the lock is released.
Clear ==
    /\ timerPc = "clear"
    /\ lists' = [lists EXCEPT ![CurWheel] = {}]
    /\ timerPc' = "idle"
    /\ preTick' = timeTick
    /\ UNCHANGED <<timeTick, timerCount, event, lock, todo, adder, age, raced>>

Next ==
    \/ \E a \in Adders : AddRead(a) \/ AddRefused(a) \/ AddLock(a) \/ AddPush(a)
    \/ \E t \in Timers : DealOne(t)
    \/ Advance \/ Deal \/ DealEnd \/ Clear

Spec == Init /\ [][Next]_vars


-----------------------------------------------------------------------------
\* The fields have the types of timer.h, and the lock is held by whoever is
\* inside a locked section.
TypeOK ==
    /\ timeTick \in Ticks /\ preTick \in Ticks
    /\ lists \in [Slots -> SUBSET Timers]
    /\ timerCount \in 0..MaxTimers
    /\ \A t \in Timers :
           event[t].interval \in Intervals \cup {0} /\ event[t].tick \in Ticks
    /\ timerPc \in {"idle", "ticked", "deal", "clear"}
    /\ todo \subseteq Timers
    /\ \A t \in Timers : age[t] \in -1..(event[t].interval + LATE)
    /\ lock = TIMER <=> timerPc = "deal"
    /\ \A a \in Adders : lock = a <=> adder[a].pc = "locked"

\* The event is due in the round that it was armed in.
InRound(t) == Msec(event[t].tick) + event[t].interval < RoundMs
Overdue(t) == age[t] > event[t].interval
\* Nobody has moved the clock while the timer was being added.
Undisturbed(t) == t \in Running /\ ~raced[t]

\* The cascade from minutes to seconds to ticks is exact: a timer that falls
\* due in the round it was armed in is never missed, whatever wheel it began
\* on, whatever is added meanwhile, and although clear() runs outside the lock.
\* When it is due, this very tick serves it.
OnTime ==
    \A t \in Timers : Undisturbed(t) /\ InRound(t) =>
        /\ ~Overdue(t)
        /\ age[t] = event[t].interval => timerPc \in {"ticked", "deal"}

\* No undisturbed callback runs before its time, the ones included that fall
\* due in a later round, whose DiffMsec is wrong.  (An interval of a minute or
\* more can be a minute early then; the program asks for 20 seconds at most.)
NeverEarly ==
    [][\A t \in Timers :
           Undisturbed(t) /\ event[t].interval < MinMs /\ age'[t] < age[t]
           => age[t] >= event[t].interval]_vars

\* m_TimerCount is the number of timers that have not ended, those included
\* that will never be found again.
TimerCountExact == timerCount = Cardinality(Running)

-----------------------------------------------------------------------------
(* What a comment says and the code does not do. *)

\* "returns false: the timer keeps running" (the comment in
\* _deal_time_wheel): no timer is overdue, in whatever round it falls due.
KeepsRunning == \A t \in Timers : Undisturbed(t) => ~Overdue(t)

=============================================================================
