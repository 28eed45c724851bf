-------------------------------- MODULE Tc ---------------------------------
(***************************************************************************)
(* Cable detection: the state machine TC (src/src/pd/tc.cpp), and the      *)
(* cable that a user plugs in, either way up, and pulls out.  TC sees the  *)
(* driver as values (VBUS, the readings of CC1 and CC2) and as slots of    *)
(* one request (LeapSync, see Mailbox); Fusb302 adds the driver behind     *)
(* them.  Each of TC's actions is one run() of TC in a tick.               *)
(***************************************************************************)
EXTENDS Naturals

CONSTANT
    Levels        \* what a CC line pulled up may read (TCPC_CC_LEVEL, not 0)

ASSUME LevelsAssumption == Levels # {} /\ Levels \subseteq Nat \ {0}

VARIABLES
    tc,           \* state, prev_cc1 and prev_cc2
    is_attached,  \* port.is_attached
    timer,        \* TC_DEBOUNCE, which serves both timeouts: disabled, active, due
    scan,         \* sync_scan_cc: "idle", "enqueued" or "working"
    set_polarity, \* sync_set_polarity: "idle" or the polarity wanted
    driver,       \* polarity, vbus_ok, cc1_value, cc2_value
    cable,        \* plug: the line it pulls up; level; vbus; quiet, see SourceOn
    steady        \* TC has seen VBUS in every run since it began to debounce it

tcVars == <<tc, is_attached, timer, scan, set_polarity, steady>>

Lines == {"CC1", "CC2"}
Readings == Levels \cup {0}

TcTypeOK ==
    /\ tc \in [state : {"DETACHED", "DETECTING", "SINK_ATTACHED"},
               cc1 : Readings, cc2 : Readings]
    /\ is_attached \in BOOLEAN
    /\ timer \in {"disabled", "active", "due"}
    /\ scan \in {"idle", "enqueued", "working"}
    /\ set_polarity \in Lines \cup {"idle", "NONE"}
    /\ driver \in [polarity : Lines \cup {"NONE"}, vbus_ok : BOOLEAN,
                   cc1 : Readings, cc2 : Readings]
    /\ cable \in [plug : Lines \cup {"none"}, level : Levels, vbus : BOOLEAN, quiet : BOOLEAN]
    /\ steady \in BOOLEAN

\* After setup(): TC has entered TC_DETACHED.
TcInit ==
    /\ tc = [state |-> "DETACHED", cc1 |-> 0, cc2 |-> 0]
    /\ is_attached = FALSE
    /\ timer = "disabled"
    /\ scan = "idle"
    /\ set_polarity = "NONE"
    /\ driver = [polarity |-> "NONE", vbus_ok |-> FALSE, cc1 |-> 0, cc2 |-> 0]
    /\ \E level \in Levels :
         cable = [plug |-> "none", level |-> level, vbus |-> FALSE, quiet |-> FALSE]
    /\ steady = FALSE

-----------------------------------------------------------------------------
(* TC *)

\* A source waits for 100 ms and more (tCCDebounce) before it applies VBUS: TC, run
\* every millisecond, the driver, and the pause of 20 ms between two scans have come
\* to an end by then, and TC has run once more.
Settled ==
    /\ scan = "idle" /\ set_polarity = "idle" /\ driver.vbus_ok = cable.vbus
    /\ tc.state = "DETECTING" => timer = "disabled"

Runs(states) ==
    /\ tc.state \in states
    /\ cable' = [cable EXCEPT !.quiet = @ \/ (Settled /\ cable.plug # "none")]

EnterDetached ==
    /\ tc' = [tc EXCEPT !.state = "DETACHED"]
    /\ is_attached' = FALSE
    /\ timer' = "disabled"
    /\ set_polarity' = "NONE"
    /\ UNCHANGED scan

EnterDetecting ==
    /\ tc' = [state |-> "DETECTING", cc1 |-> 0, cc2 |-> 0]
    /\ scan' = "enqueued"
    /\ timer' = "disabled"
    /\ UNCHANGED <<is_attached, set_polarity>>

\* Nothing to do in this run.
Waits ==
    /\ \/ Runs({"DETACHED"}) /\ set_polarity # "idle"
       \/ Runs({"DETACHED"}) /\ driver.vbus_ok /\ timer = "active"
       \/ Runs({"DETECTING"}) /\ (timer = "active" \/ (timer = "disabled" /\ scan # "idle"))
       \/ Runs({"SINK_ATTACHED"}) /\ ~is_attached /\ set_polarity # "idle"
       \/ Runs({"SINK_ATTACHED"}) /\ is_attached /\ driver.vbus_ok
    /\ UNCHANGED <<tc, is_attached, timer, scan, set_polarity, driver, steady>>

\* Wrong: VBUS lost does not stop the debounce timer.
VbusLostKeepsTimer ==
    /\ Runs({"DETACHED"}) /\ set_polarity = "idle" /\ ~driver.vbus_ok
    /\ steady' = FALSE
    /\ UNCHANGED <<tc, is_attached, timer, scan, set_polarity, driver>>

VbusLost ==
    /\ Runs({"DETACHED"}) /\ set_polarity = "idle" /\ ~driver.vbus_ok
    /\ timer' = "disabled"
    /\ steady' = FALSE
    /\ UNCHANGED <<tc, is_attached, scan, set_polarity, driver>>

DebounceVbus ==
    /\ Runs({"DETACHED"}) /\ set_polarity = "idle" /\ driver.vbus_ok /\ timer = "disabled"
    /\ timer' = "active"
    /\ steady' = TRUE
    /\ UNCHANGED <<tc, is_attached, scan, set_polarity, driver>>

VbusDebounced ==
    /\ Runs({"DETACHED"}) /\ set_polarity = "idle" /\ driver.vbus_ok /\ timer = "due"
    /\ EnterDetecting
    /\ UNCHANGED <<driver, steady>>

\* The pause between two scans is over.
ScanAgain ==
    /\ Runs({"DETECTING"}) /\ timer = "due"
    /\ timer' = "disabled"
    /\ scan' = "enqueued"
    /\ UNCHANGED <<tc, is_attached, set_polarity, driver, steady>>

\* Wrong: one scan is enough.
FirstScan(cc1, cc2) == cc1 # cc2

\* Two scans in a row agree, and tell the two lines apart.
SameScan(cc1, cc2) == cc1 # cc2 /\ cc1 = tc.cc1 /\ cc2 = tc.cc2

HasScan == Runs({"DETECTING"}) /\ timer = "disabled" /\ scan = "idle"

NoVbusAfterScan ==
    /\ HasScan /\ ~driver.vbus_ok
    /\ EnterDetached
    /\ UNCHANGED <<driver, steady>>

Attach ==
    /\ HasScan /\ driver.vbus_ok /\ SameScan(driver.cc1, driver.cc2)
    /\ set_polarity' = IF driver.cc1 > driver.cc2 THEN "CC1" ELSE "CC2"
    /\ tc' = [tc EXCEPT !.state = "SINK_ATTACHED"]
    /\ UNCHANGED <<is_attached, timer, scan, driver, steady>>

\* Wrong: the readings are not kept.
KeepNothing ==
    /\ HasScan /\ driver.vbus_ok /\ ~SameScan(driver.cc1, driver.cc2)
    /\ timer' = "active"
    /\ UNCHANGED <<tc, is_attached, scan, set_polarity, driver, steady>>

KeepScanning ==
    /\ HasScan /\ driver.vbus_ok /\ ~SameScan(driver.cc1, driver.cc2)
    /\ tc' = [tc EXCEPT !.cc1 = driver.cc1, !.cc2 = driver.cc2]
    /\ timer' = "active"
    /\ UNCHANGED <<is_attached, scan, set_polarity, driver, steady>>

\* TC_SINK_ATTACHED, the polarity being set: attached, unless VBUS has gone already.
Attached ==
    /\ Runs({"SINK_ATTACHED"}) /\ ~is_attached /\ set_polarity = "idle" /\ driver.vbus_ok
    /\ is_attached' = TRUE
    /\ UNCHANGED <<tc, timer, scan, set_polarity, driver, steady>>

\* Wrong: VBUS is not looked at once attached.
DetachEarly ==
    /\ Runs({"SINK_ATTACHED"}) /\ ~is_attached /\ set_polarity = "idle" /\ ~driver.vbus_ok
    /\ EnterDetached
    /\ UNCHANGED <<driver, steady>>

\* (Just attached, it is detached again in the same run.)
Detach ==
    /\ Runs({"SINK_ATTACHED"}) /\ (is_attached \/ set_polarity = "idle") /\ ~driver.vbus_ok
    /\ EnterDetached
    /\ UNCHANGED <<driver, steady>>

TcRun == Waits \/ VbusLost \/ DebounceVbus \/ VbusDebounced \/ ScanAgain
           \/ NoVbusAfterScan \/ Attach \/ KeepScanning \/ Attached \/ Detach

TimerDue ==
    /\ timer = "active" /\ timer' = "due"
    /\ UNCHANGED <<tc, is_attached, scan, set_polarity, driver, cable, steady>>

-----------------------------------------------------------------------------
(* The cable and the source at its end *)

PlugIn ==
    /\ cable.plug = "none"
    /\ \E line \in Lines, level \in Levels :
         cable' = [cable EXCEPT !.plug = line, !.level = level, !.quiet = FALSE]
    /\ UNCHANGED <<tcVars, driver>>

SourceOn ==
    /\ cable.plug # "none" /\ ~cable.vbus /\ cable.quiet
    /\ cable' = [cable EXCEPT !.vbus = TRUE]
    /\ UNCHANGED <<tcVars, driver>>

\* The source may also drop VBUS and apply it again, at a hard reset.
SourceOff ==
    /\ cable.vbus
    /\ cable' = [cable EXCEPT !.vbus = FALSE, !.quiet = FALSE]
    /\ UNCHANGED <<tcVars, driver>>

Unplug ==
    /\ cable.plug # "none"
    /\ cable' = [cable EXCEPT !.plug = "none", !.vbus = FALSE]
    /\ UNCHANGED <<tcVars, driver>>

Cable == PlugIn \/ SourceOn \/ SourceOff \/ Unplug

-----------------------------------------------------------------------------
(* Properties of TC *)

\* TC begins to measure only after VBUS was there in all its runs for the time of
\* TC_VBUS_DEBOUNCE.  One timer serves that timeout and TC_CC_POLL.
VbusSteady ==
    [][ tc.state = "DETACHED" /\ tc'.state = "DETECTING" => steady ]_<<tcVars, driver, cable>>
=============================================================================
