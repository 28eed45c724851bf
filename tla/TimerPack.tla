----------------------------- MODULE TimerPack -----------------------------
(***************************************************************************)
(* The virtual timers: TimerPack (src/src/pd/utils/timer_pack.h) and       *)
(* Timers (timers.h) over a clock that wraps, driven by Task::tick()       *)
(* (task.cpp), which advances their time, retires those that are due and   *)
(* arms the driver's one-shot timer for the next one.  Here a tick is the  *)
(* span between its first and its last access to the timers; Task has the  *)
(* interleavings of ticks.                                                 *)
(***************************************************************************)
EXTENDS Integers

CONSTANTS
    NTimers,    \* PD_TIMER_COUNT
    Half,       \* half the range of the clock, 2^31 in the code
    Periods,    \* the periods that timers are started with
    MaxTick,    \* bound: clock steps that may pass within one tick
    Stale       \* TRUE: a tick without a timer event may stop timers and never
                \* look at the clock, though the driver supports rearm

Range32 == 2 * Half
Timers == 1..NTimers
NoExpire == -1

ASSUME SizeAssumption == NTimers \in Nat \ {0} /\ Half \in Nat \ {0}
ASSUME PeriodAssumption == Periods \subseteq 1..(Half - 1)
\* A tick is short, next to what the clock can tell apart.
ASSUME TickAssumption == MaxTick \in Nat /\ 2 * MaxTick < Half /\ Stale \in BOOLEAN

VARIABLES
    clock,           \* what ITimer::get_time_func() returns
    now,             \* TimerPack::now, the clock when it was looked at last
    expire_at,       \* TimerPack::expire_at; that of a timer not active is never
                     \* read again and kept 0
    active,          \* TimerPack::active, the set of timers whose bit is set
    disabled,        \* TimerPack::disabled, likewise
    timers_changed,  \* TimerPack::timers_changed
    tick,            \* on: in tick(); timer: e_group has the timer event; spent: how
                     \* long it has lasted; fresh: it has looked at the clock
    event,           \* EVENT_TIMER_MSK is in Task::event_group
    driver,          \* rearm: is_rearm_supported(); alarm: the time until the one-shot
                     \* timer fires, or NoExpire
    answer           \* what is_expired() returned last, and for which timer

timerVars == <<expire_at, active, disabled, timers_changed>>
vars == <<clock, now, timerVars, tick, event, driver, answer>>

\* The static_cast to int32_t of a difference of two uint32_t.
TimeDiff(expiration, time) ==
    LET diff == (expiration - time) % Range32
    IN  IF diff < Half THEN diff ELSE diff - Range32

\* Wrong: compares the times themselves.
DueNoWrap(t, time) == t \in active /\ expire_at[t] <= time

Due(t, time) == t \in active /\ TimeDiff(expire_at[t], time) <= 0

TypeOK ==
    /\ clock \in 0..(Range32 - 1) /\ now \in 0..(Range32 - 1)
    /\ expire_at \in [Timers -> 0..(Range32 - 1)]
    /\ active \subseteq Timers /\ disabled \subseteq Timers \ active
    /\ timers_changed \in BOOLEAN /\ event \in BOOLEAN
    /\ tick \in [on : BOOLEAN, timer : BOOLEAN, spent : 0..MaxTick, fresh : BOOLEAN]
    /\ driver \in [rearm : BOOLEAN, alarm : NoExpire..(Half - 1)]
    /\ answer \in [timer : Timers, expired : BOOLEAN]

Outside == [on |-> FALSE, timer |-> FALSE, spent |-> 0, fresh |-> FALSE]

Init ==
    /\ clock \in 0..(Range32 - 1)
    /\ now = 0
    /\ expire_at = [t \in Timers |-> 0]
    /\ active = {} /\ disabled = Timers
    /\ timers_changed = FALSE
    /\ tick = Outside
    /\ event = FALSE
    /\ driver \in [rearm : BOOLEAN, alarm : {NoExpire}]
    /\ answer \in [timer : Timers, expired : {FALSE}]

-----------------------------------------------------------------------------
(* The operations, called by the handlers of a tick *)

Handler == tick.on /\ UNCHANGED <<clock, event, driver>>

\* set_time(get_time())
SetTime ==
    /\ now' = clock
    /\ tick' = [tick EXCEPT !.fresh = TRUE]

\* Wrong: the bit in disabled is forgotten.
StartOnly(t, period) ==
    /\ Handler
    /\ SetTime
    /\ active' = active \cup {t}
    /\ expire_at' = [expire_at EXCEPT ![t] = (clock + period) % Range32]
    /\ timers_changed' = TRUE
    /\ UNCHANGED <<disabled, answer>>

Start(t, period) ==
    /\ Handler
    /\ SetTime
    /\ active' = active \cup {t}
    /\ disabled' = disabled \ {t}
    /\ expire_at' = [expire_at EXCEPT ![t] = (clock + period) % Range32]
    /\ timers_changed' = TRUE
    /\ UNCHANGED answer

\* Timers that are no longer active; whether disabled tells stopped from expired.
Deactivate(S) ==
    /\ active' = active \ S
    /\ expire_at' = [t \in Timers |-> IF t \in S THEN 0 ELSE expire_at[t]]

\* stop(first) when first = last, stop_range otherwise
Stop(first, last) ==
    /\ Handler
    /\ Deactivate(first..last)
    /\ disabled' = disabled \cup (first..last)
    /\ timers_changed' = TRUE
    /\ UNCHANGED <<now, tick, answer>>

\* What deactivate() does to timers that are due.
Retire(S) ==
    /\ Deactivate(S)
    /\ disabled' = disabled \ S
    /\ timers_changed' = (timers_changed \/ S # {})

IsExpired(t) ==
    /\ Handler
    /\ SetTime
    /\ Retire({u \in {t} : Due(u, clock)})
    /\ answer' = [timer |-> t,
                  expired |-> Due(t, clock) \/ t \notin active \cup disabled]

-----------------------------------------------------------------------------
(* Task::tick() *)

\* With the timer event: set_time, cleanup.
TickTimer ==
    /\ ~tick.on /\ event
    /\ tick' = [on |-> TRUE, timer |-> TRUE, spent |-> 0, fresh |-> TRUE]
    /\ event' = FALSE
    /\ now' = clock
    /\ Retire({t \in Timers : Due(t, clock)})
    /\ UNCHANGED <<clock, driver, answer>>

\* With nothing but EVENT_WAKEUP_MSK.
TickWakeup ==
    /\ ~tick.on /\ ~event
    /\ tick' = [Outside EXCEPT !.on = TRUE]
    /\ UNCHANGED <<clock, now, timerVars, event, driver, answer>>

\* get_next_expiration
NextExpiration(time) ==
    LET diffs == {TimeDiff(expire_at[t], time) : t \in active}
    IN  IF diffs = {} THEN NoExpire
        ELSE IF \E d \in diffs : d <= 0 THEN 0
        ELSE CHOOSE d \in diffs : \A other \in diffs : d <= other

\* The end of tick(): rearm, or the timer event again when it is too late for that.
TickEnd ==
    /\ tick.on
    /\ Stale \/ tick.fresh \/ ~driver.rearm
    /\ tick' = Outside
    /\ LET next == NextExpiration(now)
           rearm == driver.rearm /\ (timers_changed \/ tick.timer)
       IN  /\ timers_changed' = (timers_changed /\ ~driver.rearm)
           /\ event' = (event \/ (rearm /\ next = 0))
           /\ driver' = IF rearm /\ next > 0 THEN [driver EXCEPT !.alarm = next]
                        ELSE driver
    /\ UNCHANGED <<clock, now, expire_at, active, disabled, answer>>

-----------------------------------------------------------------------------
(* The time, and the driver's timer *)

\* The periodic timer fires at each step of the clock.  A timer event outside
\* a tick brings one at once.
Elapse ==
    /\ IF tick.on THEN tick.spent < MaxTick ELSE ~event
    /\ clock' = (clock + 1) % Range32
    /\ tick' = IF tick.on THEN [tick EXCEPT !.spent = @ + 1] ELSE tick
    /\ event' = (event \/ ~driver.rearm \/ driver.alarm = 1)
    /\ driver' = [driver EXCEPT !.alarm = IF @ > 1 THEN @ - 1 ELSE NoExpire]
    /\ UNCHANGED <<now, timerVars, answer>>

Next ==
    \/ \E t \in Timers : IsExpired(t) \/ \E period \in Periods : Start(t, period)
    \/ \E first \in Timers : \E last \in first..NTimers : Stop(first, last)
    \/ TickTimer \/ TickWakeup \/ TickEnd
    \/ Elapse

Spec == Init /\ [][Next]_vars

-----------------------------------------------------------------------------
(* Properties *)

\* A timer that is due is noticed within the time of two ticks: in one, the clock
\* may move on between set_time() and rearm(), and another may be running when the
\* driver's timer fires.
MaxLate == 2 * MaxTick

Punctual == \A t \in active : TimeDiff(expire_at[t], clock) >= -MaxLate

\* However often the clock wraps, is_expired() says yes of a timer that has run its
\* whole period since it was started last, and only of such a one; and no timer
\* stays unnoticed for longer than MaxLate.
Abstract == INSTANCE Deadlines WITH
    mode <- [t \in Timers |-> IF t \in active THEN "running"
                              ELSE IF t \in disabled THEN "off" ELSE "over"],
    left <- [t \in Timers |-> IF t \in active THEN TimeDiff(expire_at[t], clock)
                              ELSE 0]

Implements == Abstract!Spec
=============================================================================
