------------------------------- MODULE Task -------------------------------
(***************************************************************************)
(* The event loop of the stack: class Task (src/src/pd/task.cpp, task.h)   *)
(* with the part of TimerPack it consults when it rearms the driver's      *)
(* one-shot timer.                                                         *)
(*                                                                         *)
(* set_event() ors an event into event_group and calls dispatch(), which   *)
(* runs tick() under the reentrancy guard IS_IN_TICK / HAS_DEFERRED_CALL.  *)
(* Every atomic operation of the code is one step here.  The callers are   *)
(* the contexts 1..N: context 1 is the one that runs start(), the others   *)
(* are interrupt handlers or driver threads.                               *)
(***************************************************************************)
EXTENDS Integers

CONSTANTS
    N,               \* number of contexts that call set_event
    Nested,          \* TRUE: contexts are nested interrupts, a higher number
                     \* preempts a lower one; FALSE: threads, any interleaving
    RearmSupported   \* IDriver::is_rearm_supported(): one-shot or periodic timer

ASSUME NAssumption == N \in Nat \ {0}
ASSUME NestedAssumption == Nested \in BOOLEAN
ASSUME RearmAssumption == RearmSupported \in BOOLEAN

Contexts == 1..N
WakeupOnly == {"wakeup"}           \* wrong: no bit for the timer
Events == {"timer", "wakeup"}      \* EVENT_TIMER_MSK, EVENT_WAKEUP_MSK

VARIABLES
    pc,           \* what each context does next, "idle" when outside the stack
    got,          \* tick(): the local e_group of each context
    event_group,  \* Task::event_group
    is_in_tick,   \* GUARD_FLAGS::IS_IN_TICK
    has_deferred, \* GUARD_FLAGS::HAS_DEFERRED_CALL
    soft,         \* the nearest active TimerPack timer: "none", "later" or "due"
    changed,      \* TimerPack::timers_changed
    hw            \* the driver's one-shot timer is running

vars == <<pc, got, event_group, is_in_tick, has_deferred, soft, changed, hw>>
guardVars == <<event_group, is_in_tick, has_deferred>>
timerVars == <<soft, changed, hw>>

\* The program counters inside the guarded section of dispatch().
InTick == {"fetch", "handlers", "rearm", "clear"}
PCs == InTick \cup {"boot", "setups", "idle", "enter", "defer", "check"}

TypeOK ==
    /\ pc \in [Contexts -> PCs]
    /\ got \in [Contexts -> SUBSET Events]
    /\ event_group \in SUBSET Events
    /\ is_in_tick \in BOOLEAN
    /\ has_deferred \in BOOLEAN
    /\ soft \in {"none", "later", "due"}
    /\ changed \in BOOLEAN
    /\ hw \in BOOLEAN

\* TimerPack's constructor stores false in timers_changed; nothing runs yet.
Init ==
    /\ pc = [c \in Contexts |-> IF c = 1 THEN "boot" ELSE "idle"]
    /\ got = [c \in Contexts |-> {}]
    /\ event_group = {}
    /\ is_in_tick = FALSE
    /\ has_deferred = FALSE
    /\ soft = "none"
    /\ changed = FALSE
    /\ hw = FALSE

-----------------------------------------------------------------------------
(* Scheduling *)

\* With nested interrupts a context runs only while no higher one is active.
MayRun(c) == Nested => \A d \in Contexts : d > c => pc[d] = "idle"

Goto(c, from, to) ==
    /\ pc[c] = from
    /\ MayRun(c)
    /\ pc' = [pc EXCEPT ![c] = to]

-----------------------------------------------------------------------------
(* Task::start *)

\* Set the guard, then publish the router: from here events reach the task.
StartEnter(c) ==
    /\ Goto(c, "boot", "setups")
    /\ is_in_tick' = TRUE
    /\ UNCHANGED <<got, event_group, has_deferred, timerVars>>

\* After every setup() the guard is cleared; dispatch() is not called.
StartExit(c) ==
    /\ Goto(c, "setups", "idle")
    /\ is_in_tick' = FALSE
    /\ changed' = TRUE            \* tc.setup() stops its debounce timer
    /\ UNCHANGED <<got, event_group, has_deferred, soft, hw>>

-----------------------------------------------------------------------------
(* Task::set_event and Task::dispatch *)

\* port.task_rtr is null until start() has begun; the message is then dropped.
RouterReady == pc[1] # "boot"

SetEvent(c, e) ==
    /\ RouterReady
    /\ Goto(c, "idle", "enter")
    /\ event_group' = event_group \cup {e}
    /\ UNCHANGED <<got, is_in_tick, has_deferred>>

\* Wrong: the guard is set but not tested.
EnterUntested(c) ==
    /\ Goto(c, "enter", "fetch")
    /\ is_in_tick' = TRUE
    /\ UNCHANGED <<got, event_group, has_deferred, timerVars>>

\* test_and_set(IS_IN_TICK)
Enter(c) ==
    /\ Goto(c, "enter", IF is_in_tick THEN "defer" ELSE "fetch")
    /\ is_in_tick' = TRUE
    /\ UNCHANGED <<got, event_group, has_deferred, timerVars>>

\* Wrong: a call that finds the guard set just returns.
DeferNothing(c) == Goto(c, "defer", "idle") /\ UNCHANGED <<got, guardVars, timerVars>>

\* set(HAS_DEFERRED_CALL); return
Defer(c) ==
    /\ Goto(c, "defer", "idle")
    /\ has_deferred' = TRUE
    /\ UNCHANGED <<got, event_group, is_in_tick, timerVars>>

\* clear(IS_IN_TICK) after tick(), whose e_group is gone
Clear(c) ==
    /\ Goto(c, "clear", "check")
    /\ is_in_tick' = FALSE
    /\ got' = [got EXCEPT ![c] = {}]
    /\ UNCHANGED <<event_group, has_deferred, timerVars>>

\* while test_and_clear(HAS_DEFERRED_CALL)
Check(c) ==
    /\ Goto(c, "check", IF has_deferred THEN "enter" ELSE "idle")
    /\ has_deferred' = FALSE
    /\ UNCHANGED <<got, event_group, is_in_tick, timerVars>>

-----------------------------------------------------------------------------
(* Task::tick *)

\* event_group.exchange(0); with a timer event cleanup() deactivates what is
\* expired by now.
Fetch(c) ==
    /\ Goto(c, "fetch", IF event_group = {} THEN "clear" ELSE "handlers")
    /\ got' = [got EXCEPT ![c] = event_group]
    /\ event_group' = {}
    /\ IF "timer" \in event_group /\ soft = "due"
         THEN soft' = "none" /\ changed' = TRUE
         ELSE UNCHANGED <<soft, changed>>
    /\ UNCHANGED <<is_in_tick, has_deferred, hw>>

\* notify_tc, notify_pe, notify_prl.  A handler may call port.wakeup(): the
\* nested set_event finds the guard set and only leaves HAS_DEFERRED_CALL.
HandlerWakeup(c) ==
    /\ pc[c] = "handlers" /\ MayRun(c)
    /\ event_group' = event_group \cup {"wakeup"}
    /\ has_deferred' = TRUE
    /\ UNCHANGED <<pc, got, is_in_tick, timerVars>>

\* A handler starts, stops or consumes a timer (TimerPack::start, stop,
\* is_expired -> deactivate); each of them stores true in timers_changed.
HandlerTimer(c) ==
    /\ pc[c] = "handlers" /\ MayRun(c)
    /\ \/ soft' = "later"
       \/ soft' = "none"
    /\ changed' = TRUE
    /\ UNCHANGED <<pc, got, guardVars, hw>>

HandlersDone(c) ==
    /\ Goto(c, "handlers", IF RearmSupported THEN "rearm" ELSE "clear")
    /\ UNCHANGED <<got, guardVars, timerVars>>

\* Wrong: an expired one-shot timer is not a reason to arm it again.
TimersChanged(c) == changed
RearmNeeded(c) == changed \/ "timer" \in got[c]

\* get_next_expiration() compares with the time of the last set_time(), so an
\* already due timer may still look as if it had some time left.
Rearm(c) ==
    /\ Goto(c, "rearm", "clear")
    /\ changed' = FALSE
    /\ IF RearmNeeded(c) /\ soft # "none"
         THEN \/ /\ soft = "due"
                 /\ event_group' = event_group \cup {"timer"}
                 /\ has_deferred' = TRUE
                 /\ UNCHANGED hw
              \/ /\ hw' = TRUE
                 /\ UNCHANGED <<event_group, has_deferred>>
         ELSE UNCHANGED <<event_group, has_deferred, hw>>
    /\ UNCHANGED <<got, is_in_tick, soft>>

-----------------------------------------------------------------------------
(* The driver and the time *)

\* port.wakeup() from a driver interrupt or thread.
DriverWakeup(c) == SetEvent(c, "wakeup") /\ UNCHANGED timerVars

\* The driver's timer fires: the one-shot timer, or the periodic one.
TimerFires(c) ==
    /\ RearmSupported => hw
    /\ hw' = FALSE
    /\ SetEvent(c, "timer")
    /\ UNCHANGED <<soft, changed>>

TimePasses ==
    /\ soft = "later"
    /\ soft' = "due"
    /\ UNCHANGED <<pc, got, guardVars, changed, hw>>

-----------------------------------------------------------------------------
DispatchStep(c) ==
    \/ Enter(c) \/ Defer(c) \/ Clear(c) \/ Check(c)
    \/ Fetch(c) \/ HandlersDone(c) \/ Rearm(c)

Step(c) ==
    \/ StartEnter(c) \/ StartExit(c)
    \/ DispatchStep(c)
    \/ HandlerWakeup(c) \/ HandlerTimer(c)
    \/ DriverWakeup(c) \/ TimerFires(c)

Next == TimePasses \/ \E c \in Contexts : Step(c)

Spec == Init /\ [][Next]_vars

\* The same system observed from the moment an undisturbed start() returned.
StartedInit ==
    /\ pc = [c \in Contexts |-> "idle"]
    /\ got = [c \in Contexts |-> {}]
    /\ event_group = {}
    /\ is_in_tick = FALSE
    /\ has_deferred = FALSE
    /\ soft = "none"
    /\ changed = TRUE
    /\ hw = FALSE

StartedSpec == StartedInit /\ [][Next]_vars

\* A preempted or descheduled context gets the processor again: every step of
\* dispatch() that is enabled again and again is taken.
Fairness == SF_vars(StartExit(1)) /\ \A c \in Contexts : SF_vars(DispatchStep(c))

FairSpec == Spec /\ Fairness

-----------------------------------------------------------------------------
(* Properties *)

\* The reentrancy guard of dispatch(): two contexts are never inside tick()
\* at once, not even a tick inside start()'s setups.
TickExclusive ==
    \A c, d \in Contexts :
        /\ pc[c] \in InTick /\ pc[d] \in InTick => c = d
        /\ pc[c] \in InTick => pc[d] # "setups"

\* Nobody is inside set_event, dispatch or start.
Quiescent == \A c \in Contexts : pc[c] = "idle"

\* When every call has returned no event is pending: dispatch() reran tick()
\* for whatever arrived during the last one.
NoEventLeft == Quiescent => event_group = {}

\* As NoEventLeft, but an event may remain if HAS_DEFERRED_CALL remains too,
\* which is what start() leaves behind.
NoEventForgotten == Quiescent => event_group = {} \/ has_deferred

\* A driver with rearm support: when every call has returned, a running
\* TimerPack timer has the driver's one-shot timer or a pending event behind
\* it, otherwise its timeout would never be noticed.
NoTimerForgotten ==
    RearmSupported /\ Quiescent /\ soft # "none" => hw \/ event_group # {}

\* Every event is taken by some tick(), except what start() leaves behind, a
\* deferred call, if nobody calls set_event() any more.
EventsHandled ==
    \A e \in Events :
        e \in event_group ~> e \notin event_group \/ (Quiescent /\ has_deferred)
=============================================================================
