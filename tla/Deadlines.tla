----------------------------- MODULE Deadlines -----------------------------
(***************************************************************************)
(* What a set of timers promises, without a clock that wraps and without   *)
(* a driver: a timer started with a period is over once that much time has *)
(* passed, not before, and says so to whoever asks from then on, until it  *)
(* is stopped or started again.                                            *)
(***************************************************************************)
EXTENDS Integers

CONSTANTS
    Timers,    \* the identifiers of the timers
    Periods,   \* the periods they are started with
    MaxLate    \* how long a timer may be over before its owner hears of it

VARIABLES
    mode,    \* of each timer: "off", "running" or "over"
    left,    \* the time left of a running timer, negative once it is late
    answer   \* the timer asked about last and whether it had expired

vars == <<mode, left, answer>>

Init ==
    /\ mode = [t \in Timers |-> "off"]
    /\ left = [t \in Timers |-> 0]
    /\ answer \in [timer : Timers, expired : {FALSE}]

Start(t, period) ==
    /\ mode' = [mode EXCEPT ![t] = "running"]
    /\ left' = [left EXCEPT ![t] = period]
    /\ UNCHANGED answer

\* Timers become "off" by being stopped, "over" by having run to their end.
Retire(S, how) ==
    /\ mode' = [t \in Timers |-> IF t \in S THEN how ELSE mode[t]]
    /\ left' = [t \in Timers |-> IF t \in S THEN 0 ELSE left[t]]

Stop(S) == Retire(S, "off") /\ UNCHANGED answer

RunOut(t) == mode[t] = "running" /\ left[t] <= 0

Notice(S) ==
    /\ \A t \in S : RunOut(t)
    /\ Retire(S, "over")
    /\ UNCHANGED answer

Ask(t) ==
    /\ answer' = [timer |-> t, expired |-> mode[t] = "over" \/ RunOut(t)]
    /\ Retire({t} \cap {u \in Timers : RunOut(u)}, "over")

\* Time may not pass while a timer is late by MaxLate and nobody has noticed.
Elapse ==
    /\ \A t \in Timers : mode[t] = "running" => left[t] > -MaxLate
    /\ left' = [t \in Timers |-> IF mode[t] = "running" THEN left[t] - 1 ELSE 0]
    /\ UNCHANGED <<mode, answer>>

Next ==
    \/ \E t \in Timers : Ask(t) \/ \E period \in Periods : Start(t, period)
    \/ \E S \in SUBSET Timers : Stop(S) \/ Notice(S)
    \/ Elapse

Spec == Init /\ [][Next]_vars
=============================================================================
