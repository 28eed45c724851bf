---------------------------- MODULE TaskProofs ----------------------------
(***************************************************************************)
(* What dispatch() guarantees for any number of contexts: mutual exclusion *)
(* of tick() and, for nested interrupts, that no event is left behind.     *)
(***************************************************************************)
EXTENDS Task, TLAPS

\* Whoever is inside tick() or inside start()'s setups holds IS_IN_TICK.
Guarded == InTick \cup {"setups"}

\* TypeOK and the exclusion argument: the guard is held by at most one
\* context, only context 1 ever runs start(), and while it has not begun
\* the router is null, so nobody else has entered.
GuardInv ==
    /\ TypeOK
    /\ \A c \in Contexts : pc[c] \in Guarded => is_in_tick
    /\ \A c, d \in Contexts : pc[c] \in Guarded /\ pc[d] \in Guarded => c = d
    /\ \A c \in Contexts : pc[c] \in {"boot", "setups"} => c = 1
    /\ pc[1] = "boot" => is_in_tick = FALSE /\ \A c \in Contexts : c # 1 => pc[c] = "idle"

\* A pending event has somebody who will look at it: a context before its
\* exchange(0), or the flag that makes the owner of the guard run again.
PendingInv ==
    event_group # {} =>
        \/ has_deferred
        \/ \E c \in Contexts : pc[c] \in {"enter", "defer", "fetch"}

\* Nested interrupts only: the flag is always read by somebody, because the
\* context that set it, or is about to, has preempted the owner of the guard.
OwnerInv ==
    /\ \A c \in Contexts : pc[c] \notin {"boot", "setups"}
    /\ is_in_tick => \E d \in Contexts : pc[d] \in InTick
    /\ has_deferred => \E d \in Contexts : pc[d] \in InTick \cup {"check"}
    /\ \A c \in Contexts : pc[c] = "defer" =>
           \E d \in Contexts : d < c /\ pc[d] \in InTick

-----------------------------------------------------------------------------
LEMMA ContextFacts == 1 \in Contexts /\ Contexts \subseteq Int
  BY NAssumption DEF Contexts

LEMMA GuardInit == Init \/ StartedInit => GuardInv
  BY ContextFacts DEF Init, StartedInit, GuardInv, TypeOK, Guarded, InTick, PCs, Events

\* One step of the case analysis per action; each changes pc of one context.
LEMMA GuardStep == GuardInv /\ [Next]_vars => GuardInv'
<1> SUFFICES ASSUME GuardInv, [Next]_vars PROVE GuardInv'
  OBVIOUS
<1> USE ContextFacts DEF GuardInv, TypeOK, Guarded, InTick, PCs, Events,
      guardVars, timerVars, Goto
<1>1. ASSUME NEW c \in Contexts, StartEnter(c) PROVE GuardInv'
  BY <1>1 DEF StartEnter
<1>2. ASSUME NEW c \in Contexts, StartExit(c) PROVE GuardInv'
  BY <1>2 DEF StartExit
<1>3. ASSUME NEW c \in Contexts, Enter(c) PROVE GuardInv'
  BY <1>3 DEF Enter
<1>4. ASSUME NEW c \in Contexts, Defer(c) PROVE GuardInv'
  BY <1>4 DEF Defer
<1>5. ASSUME NEW c \in Contexts, Clear(c) PROVE GuardInv'
  BY <1>5 DEF Clear
<1>6. ASSUME NEW c \in Contexts, Check(c) PROVE GuardInv'
  <2> USE <1>6 DEF Check
  <2>1. TypeOK'
    OBVIOUS
  <2>2. /\ pc[c] = "check" /\ is_in_tick' = is_in_tick
        /\ \A d \in Contexts : pc'[d] = pc[d] \/ (d = c /\ pc'[c] \in {"enter", "idle"})
    OBVIOUS
  <2> QED
    BY <2>1, <2>2
<1>7. ASSUME NEW c \in Contexts, Fetch(c) PROVE GuardInv'
  <2> USE <1>7 DEF Fetch
  <2>1. TypeOK'
    OBVIOUS
  <2>2. /\ pc[c] = "fetch" /\ is_in_tick' = is_in_tick
        /\ \A d \in Contexts : pc'[d] = pc[d] \/ (d = c /\ pc'[c] \in {"clear", "handlers"})
    OBVIOUS
  <2> QED
    BY <2>1, <2>2
<1>8. ASSUME NEW c \in Contexts, HandlersDone(c) PROVE GuardInv'
  BY <1>8 DEF HandlersDone
<1>9. ASSUME NEW c \in Contexts, Rearm(c) PROVE GuardInv'
  BY <1>9 DEF Rearm, RearmNeeded
<1>10. ASSUME NEW c \in Contexts, HandlerWakeup(c) \/ HandlerTimer(c) PROVE GuardInv'
  BY <1>10 DEF HandlerWakeup, HandlerTimer
<1>11. ASSUME NEW c \in Contexts, DriverWakeup(c) \/ TimerFires(c) PROVE GuardInv'
  <2> PICK e \in Events : SetEvent(c, e) /\ soft' = soft /\ changed' = changed /\ hw' \in BOOLEAN
    BY <1>11 DEF DriverWakeup, TimerFires
  <2>1. TypeOK'
    BY DEF SetEvent
  <2>2. pc[1] # "boot" /\ \A d \in Contexts : pc'[d] = IF d = c THEN "enter" ELSE pc[d]
    BY DEF SetEvent, RouterReady
  <2> QED
    BY <2>1, <2>2 DEF SetEvent
<1>12. CASE TimePasses
  BY <1>12 DEF TimePasses
<1>13. CASE UNCHANGED vars
  BY <1>13 DEF vars
<1> QED
  BY <1>1, <1>2, <1>3, <1>4, <1>5, <1>6, <1>7, <1>8, <1>9, <1>10, <1>11,
     <1>12, <1>13 DEF Next, Step, DispatchStep

\* Every variable keeps its type, whatever the number of contexts.
THEOREM TypeCorrect == Spec => []TypeOK
<1>1. GuardInv => TypeOK
  BY DEF GuardInv
<1> QED
  BY <1>1, GuardInit, GuardStep, PTL DEF Spec

\* The reentrancy guard of Task::dispatch: tick() runs in one context at a
\* time, and never while start() is setting the parts up.
THEOREM TickIsExclusive == Spec => []TickExclusive
<1>1. GuardInv => TickExclusive
  BY DEF GuardInv, TickExclusive, Guarded, InTick
<1> QED
  BY <1>1, GuardInit, GuardStep, PTL DEF Spec

-----------------------------------------------------------------------------
LEMMA PendingStep == GuardInv /\ PendingInv /\ [Next]_vars => PendingInv'
<1> SUFFICES ASSUME GuardInv, PendingInv, [Next]_vars PROVE PendingInv'
  OBVIOUS
<1> USE ContextFacts DEF GuardInv, PendingInv, TypeOK, guardVars, timerVars, Goto
<1>1. ASSUME NEW c \in Contexts, StartEnter(c) \/ StartExit(c) PROVE PendingInv'
  BY <1>1 DEF StartEnter, StartExit
<1>2. ASSUME NEW c \in Contexts, Enter(c) PROVE PendingInv'
  BY <1>2 DEF Enter
<1>3. ASSUME NEW c \in Contexts, Defer(c) PROVE PendingInv'
  BY <1>3 DEF Defer
<1>4. ASSUME NEW c \in Contexts, Clear(c) PROVE PendingInv'
  BY <1>4 DEF Clear
<1>5. ASSUME NEW c \in Contexts, Check(c) PROVE PendingInv'
  BY <1>5 DEF Check
<1>6. ASSUME NEW c \in Contexts, Fetch(c) PROVE PendingInv'
  BY <1>6 DEF Fetch
<1>7. ASSUME NEW c \in Contexts, HandlersDone(c) PROVE PendingInv'
  BY <1>7 DEF HandlersDone
<1>8. ASSUME NEW c \in Contexts, Rearm(c) PROVE PendingInv'
  BY <1>8 DEF Rearm, RearmNeeded
<1>9. ASSUME NEW c \in Contexts, HandlerWakeup(c) \/ HandlerTimer(c) PROVE PendingInv'
  BY <1>9 DEF HandlerWakeup, HandlerTimer
<1>10. ASSUME NEW c \in Contexts, DriverWakeup(c) \/ TimerFires(c) PROVE PendingInv'
  BY <1>10 DEF DriverWakeup, TimerFires, SetEvent
<1>11. CASE TimePasses
  BY <1>11 DEF TimePasses
<1>12. CASE UNCHANGED vars
  BY <1>12 DEF vars
<1> QED
  BY <1>1, <1>2, <1>3, <1>4, <1>5, <1>6, <1>7, <1>8, <1>9, <1>10, <1>11, <1>12
     DEF Next, Step, DispatchStep

\* For threads and interrupts alike, an event that no call is going to handle
\* has at least left HAS_DEFERRED_CALL behind for the next call.
THEOREM NothingForgotten == Spec => []NoEventForgotten
<1>1. Init => PendingInv
  BY DEF Init, PendingInv
<1>2. PendingInv => NoEventForgotten
  BY DEF PendingInv, NoEventForgotten, Quiescent
<1> QED
  BY <1>1, <1>2, GuardInit, GuardStep, PendingStep, PTL DEF Spec

-----------------------------------------------------------------------------
\* A running timer has the driver's timer behind it, or the timer event, or the tick
\* that took the event or changed the timers and has yet to arm the driver's.
TimerInv ==
    RearmSupported /\ soft # "none" =>
        \/ hw
        \/ "timer" \in event_group
        \/ \E c \in Contexts : /\ pc[c] \in {"handlers", "rearm"}
                               /\ changed \/ "timer" \in got[c]

LEMMA TimerStep == GuardInv /\ TimerInv /\ [Next]_vars => TimerInv'
<1> SUFFICES ASSUME GuardInv, TimerInv, [Next]_vars PROVE TimerInv'
  OBVIOUS
<1> USE ContextFacts DEF GuardInv, TimerInv, TypeOK, guardVars, timerVars, Goto
<1>1. ASSUME NEW c \in Contexts, StartEnter(c) \/ StartExit(c) PROVE TimerInv'
  BY <1>1 DEF StartEnter, StartExit
<1>2. ASSUME NEW c \in Contexts, Enter(c) \/ Defer(c) PROVE TimerInv'
  BY <1>2 DEF Enter, Defer
<1>3. ASSUME NEW c \in Contexts, Clear(c) \/ Check(c) PROVE TimerInv'
  BY <1>3 DEF Clear, Check
<1>4. ASSUME NEW c \in Contexts, Fetch(c) PROVE TimerInv'
  <2>1. \A d \in Contexts : pc[d] \notin {"handlers", "rearm"}
    BY <1>4 DEF Fetch, Guarded, InTick
  <2> QED
    BY <1>4, <2>1 DEF Fetch
<1>5. ASSUME NEW c \in Contexts, HandlersDone(c) PROVE TimerInv'
  BY <1>5 DEF HandlersDone
<1>6. ASSUME NEW c \in Contexts, Rearm(c) PROVE TimerInv'
  <2>1. \A d \in Contexts \ {c} : pc[d] \notin {"handlers", "rearm"}
    BY <1>6 DEF Rearm, Guarded, InTick
  <2> QED
    BY <1>6, <2>1 DEF Rearm, RearmNeeded
<1>7. ASSUME NEW c \in Contexts, HandlerWakeup(c) \/ HandlerTimer(c) PROVE TimerInv'
  BY <1>7 DEF HandlerWakeup, HandlerTimer
<1>8. ASSUME NEW c \in Contexts, DriverWakeup(c) \/ TimerFires(c) PROVE TimerInv'
  BY <1>8 DEF DriverWakeup, TimerFires, SetEvent
<1>9. CASE TimePasses
  BY <1>9 DEF TimePasses
<1>10. CASE UNCHANGED vars
  BY <1>10 DEF vars
<1> QED
  BY <1>1, <1>2, <1>3, <1>4, <1>5, <1>6, <1>7, <1>8, <1>9, <1>10
     DEF Next, Step, DispatchStep

\* With a driver that has to be armed, for threads and interrupts alike, no running
\* timer is left with nothing to bring the tick in which it is noticed.
THEOREM TimersKept == Spec => []NoTimerForgotten
<1>1. Init => TimerInv
  BY DEF Init, TimerInv
<1>2. TimerInv => NoTimerForgotten
  BY DEF TimerInv, NoTimerForgotten, Quiescent
<1> QED
  BY <1>1, <1>2, GuardInit, GuardStep, TimerStep, PTL DEF Spec

-----------------------------------------------------------------------------
LEMMA OwnerStep ==
    ASSUME Nested, GuardInv, OwnerInv, [Next]_vars
    PROVE  OwnerInv'
<1> USE ContextFacts DEF GuardInv, OwnerInv, TypeOK, InTick, guardVars,
      timerVars, Goto, MayRun
<1>1. ASSUME NEW c \in Contexts, StartEnter(c) \/ StartExit(c) PROVE OwnerInv'
  BY <1>1 DEF StartEnter, StartExit
<1>2. ASSUME NEW c \in Contexts, Enter(c) PROVE OwnerInv'
  <2>1. CASE is_in_tick
    BY <1>2, <2>1 DEF Enter
  <2>2. CASE ~is_in_tick
    BY <1>2, <2>2 DEF Enter, Guarded
  <2> QED
    BY <2>1, <2>2
<1>3. ASSUME NEW c \in Contexts, Defer(c) PROVE OwnerInv'
  BY <1>3 DEF Defer
<1>4. ASSUME NEW c \in Contexts, Clear(c) PROVE OwnerInv'
  BY <1>4 DEF Clear, Guarded
<1>5. ASSUME NEW c \in Contexts, Check(c) PROVE OwnerInv'
  BY <1>5 DEF Check, Guarded
<1>6. ASSUME NEW c \in Contexts, Fetch(c) PROVE OwnerInv'
  BY <1>6 DEF Fetch
<1>7. ASSUME NEW c \in Contexts, HandlersDone(c) PROVE OwnerInv'
  BY <1>7 DEF HandlersDone
<1>8. ASSUME NEW c \in Contexts, Rearm(c) PROVE OwnerInv'
  BY <1>8 DEF Rearm, RearmNeeded
<1>9. ASSUME NEW c \in Contexts, HandlerWakeup(c) \/ HandlerTimer(c) PROVE OwnerInv'
  BY <1>9 DEF HandlerWakeup, HandlerTimer
<1>10. ASSUME NEW c \in Contexts, DriverWakeup(c) \/ TimerFires(c) PROVE OwnerInv'
  BY <1>10 DEF DriverWakeup, TimerFires, SetEvent
<1>11. CASE TimePasses
  BY <1>11 DEF TimePasses
<1>12. CASE UNCHANGED vars
  BY <1>12 DEF vars
<1> QED
  BY <1>1, <1>2, <1>3, <1>4, <1>5, <1>6, <1>7, <1>8, <1>9, <1>10, <1>11, <1>12
     DEF Next, Step, DispatchStep

\* With nested interrupts, once start() is over, dispatch() never returns from
\* its outermost call with an event pending.
THEOREM NothingLeft == Nested /\ StartedSpec => []NoEventLeft
<1> SUFFICES ASSUME Nested PROVE StartedSpec => []NoEventLeft
  OBVIOUS
<1>1. StartedInit => PendingInv /\ OwnerInv
  BY DEF StartedInit, PendingInv, OwnerInv
<1>2. PendingInv /\ OwnerInv => NoEventLeft
  BY DEF PendingInv, OwnerInv, NoEventLeft, Quiescent, InTick
<1>3. OwnerInv /\ GuardInv /\ [Next]_vars => OwnerInv'
  BY OwnerStep
<1> QED
  BY <1>1, <1>2, <1>3, GuardInit, GuardStep, PendingStep, PTL DEF StartedSpec
=============================================================================
