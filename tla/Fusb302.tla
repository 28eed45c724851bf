------------------------------ MODULE Fusb302 ------------------------------
(***************************************************************************)
(* The part of the driver (src/src/pd/drivers/fusb302_rtos.cpp) that looks *)
(* at the cable, register by register, under TC: the VBUS interrupt, the   *)
(* meter, which scans CC1 and CC2 for TC and measures the line in use for  *)
(* PRL, and the selection of the polarity.  The chip has one comparator:   *)
(* scan, measurement and polarity all move it.  Any access to a register   *)
(* may fail.  All actions of the driver are steps of its one task; TC and  *)
(* PRL run between any two of them.                                        *)
(***************************************************************************)
EXTENDS Tc

CONSTANTS
    MaxMisreads,  \* bound: CC readings that noise falsifies
    MaxFailures   \* bound: accesses to a register that fail

ASSUME BoundAssumption == MaxMisreads \in Nat /\ MaxFailures \in Nat

VARIABLES
    meter,        \* meter_state
    active_cc,    \* sync_active_cc
    sw,           \* meas: Switches0; tx: Switches1; backup: meter_sw0_backup
    faults        \* misreads and failures so far; unset: the latest polarity was not set

vars == <<tcVars, driver, cable, meter, active_cc, sw, faults>>

Polarities == Lines \cup {"NONE"}

TypeOK ==
    /\ TcTypeOK
    /\ meter \in {"IDLE", "CC_ACTIVE_MEASURE_WAIT", "SCAN_CC_BEGIN",
                  "SCAN_CC1_MEASURE_WAIT", "SCAN_CC2_MEASURE_WAIT"}
    /\ active_cc \in {"idle", "enqueued", "working"}
    /\ sw \in [meas : Polarities, tx : Polarities, backup : Polarities]
    /\ faults \in [misreads : 0..MaxMisreads, failures : 0..MaxFailures, unset : BOOLEAN]

Init ==
    /\ TcInit
    /\ meter = "IDLE"
    /\ active_cc = "idle"
    /\ sw = [meas |-> "NONE", tx |-> "NONE", backup |-> "NONE"]
    /\ faults = [misreads |-> 0, failures |-> 0, unset |-> FALSE]

-----------------------------------------------------------------------------
(* Registers *)

OneMoreFailure ==
    /\ faults.failures < MaxFailures
    /\ faults' = [faults EXCEPT !.failures = @ + 1]

\* The comparator reads the line it is switched to, or what noise makes of it.
Reads(reading) ==
    \/ /\ reading = IF cable.plug = sw.meas THEN cable.level ELSE 0
       /\ UNCHANGED faults
    \/ /\ faults.misreads < MaxMisreads /\ reading \in Readings
       /\ faults' = [faults EXCEPT !.misreads = @ + 1]

VbusInterrupt ==
    /\ driver.vbus_ok # cable.vbus
    /\ driver' = [driver EXCEPT !.vbus_ok = cable.vbus]
    /\ UNCHANGED <<tcVars, cable, meter, active_cc, sw, faults>>

-----------------------------------------------------------------------------
(* meter_tick(), called on every tick of the timer.  Where an access fails,  *)
(* the meter stays in the state it is in, to begin it anew.                  *)

Meter(from, to) == meter = from /\ meter' = to

\* A measurement for PRL comes first.  (CC_ACTIVE_BEGIN is passed through at once.)
MeterTakesJob ==
    /\ \/ active_cc = "enqueued" /\ active_cc' = "working"
          /\ Meter("IDLE", "CC_ACTIVE_MEASURE_WAIT") /\ UNCHANGED scan
       \/ active_cc # "enqueued" /\ scan = "enqueued" /\ scan' = "working"
          /\ Meter("IDLE", "SCAN_CC_BEGIN") /\ UNCHANGED active_cc
    /\ UNCHANGED <<tc, is_attached, timer, set_polarity, steady, driver, cable, sw, faults>>

\* Without a polarity the measurement ends all the same.
MeasureActive ==
    /\ Meter("CC_ACTIVE_MEASURE_WAIT", "IDLE")
    /\ active_cc' = IF active_cc = "working" THEN "idle" ELSE active_cc
    /\ \E reading \in Readings :
         /\ Reads(reading)
         /\ driver' = IF driver.polarity = "CC1" THEN [driver EXCEPT !.cc1 = reading]
                      ELSE IF driver.polarity = "CC2" THEN [driver EXCEPT !.cc2 = reading]
                      ELSE driver
    /\ UNCHANGED <<tcVars, cable, sw>>

ScanBegins ==
    /\ Meter("SCAN_CC_BEGIN", "SCAN_CC1_MEASURE_WAIT")
    /\ sw' = [sw EXCEPT !.backup = sw.meas, !.meas = "CC1"]
    /\ UNCHANGED <<tcVars, driver, cable, active_cc, faults>>

MeasureCc1 ==
    /\ Meter("SCAN_CC1_MEASURE_WAIT", "SCAN_CC2_MEASURE_WAIT")
    /\ \E reading \in Readings :
         Reads(reading) /\ driver' = [driver EXCEPT !.cc1 = reading]
    /\ sw' = [sw EXCEPT !.meas = "CC2"]
    /\ UNCHANGED <<tcVars, cable, active_cc>>

\* The comparator goes back to where it was.
MeasureCc2 ==
    /\ Meter("SCAN_CC2_MEASURE_WAIT", "IDLE")
    /\ scan' = "idle"
    /\ \E reading \in Readings :
         Reads(reading) /\ driver' = [driver EXCEPT !.cc2 = reading]
    /\ sw' = [sw EXCEPT !.meas = sw.backup]
    /\ UNCHANGED <<tc, is_attached, timer, set_polarity, steady, cable, active_cc>>

\* Wrong: an access that fails makes the meter begin the scan again.
FailureRestarts ==
    /\ meter \notin {"IDLE", "CC_ACTIVE_MEASURE_WAIT"}
    /\ OneMoreFailure
    /\ meter' = "SCAN_CC_BEGIN"
    /\ UNCHANGED <<tcVars, driver, cable, active_cc, sw>>

\* A state given up half-way: its backup taken, or its reading stored, or neither.
AccessFails ==
    /\ meter # "IDLE"
    /\ OneMoreFailure
    /\ \/ UNCHANGED <<driver, sw>>
       \/ /\ meter = "SCAN_CC_BEGIN"
          /\ sw' = [sw EXCEPT !.backup = sw.meas] /\ UNCHANGED driver
       \/ /\ meter \in {"SCAN_CC1_MEASURE_WAIT", "SCAN_CC2_MEASURE_WAIT"}
          /\ LET reading == IF cable.plug = sw.meas THEN cable.level ELSE 0
             IN  driver' = IF meter = "SCAN_CC1_MEASURE_WAIT"
                           THEN [driver EXCEPT !.cc1 = reading]
                           ELSE [driver EXCEPT !.cc2 = reading]
          /\ UNCHANGED sw
    /\ UNCHANGED <<tcVars, cable, meter, active_cc>>

-----------------------------------------------------------------------------
(* Calls of TC and PRL *)

\* PRL measures before a first message of an AMS, and may ask anew at any moment.
RequestActive ==
    /\ is_attached /\ active_cc # "enqueued"
    /\ active_cc' = "enqueued"
    /\ UNCHANGED <<tcVars, driver, cable, meter, sw, faults>>

\* The job is over whether it succeeded or not; what was being measured is dropped.
PolarityJob ==
    /\ set_polarity # "idle" /\ set_polarity' = "idle"
    /\ scan' = "idle" /\ active_cc' = "idle" /\ meter' = "IDLE"
    /\ UNCHANGED <<tc, is_attached, timer, steady, cable>>

SetPolarity ==
    /\ PolarityJob
    /\ sw' = [sw EXCEPT !.meas = set_polarity, !.tx = set_polarity]
    /\ driver' = [driver EXCEPT !.polarity = set_polarity]
    /\ faults' = [faults EXCEPT !.unset = FALSE]

\* Switches0, then Switches1, then the flush that goes with no polarity: the accesses
\* before the one that fails have been made.  It is logged.
SetPolarityFails ==
    /\ PolarityJob
    /\ faults.failures < MaxFailures
    /\ faults' = [faults EXCEPT !.failures = @ + 1, !.unset = TRUE]
    /\ \/ UNCHANGED sw
       \/ sw' = [sw EXCEPT !.meas = set_polarity]
       \/ set_polarity = "NONE" /\ sw' = [sw EXCEPT !.meas = "NONE", !.tx = "NONE"]
    /\ UNCHANGED driver

-----------------------------------------------------------------------------
(* TC, the cable and the driver *)

Around == (TcRun \/ TimerDue \/ Cable) /\ UNCHANGED <<meter, active_cc, sw, faults>>
ScanStep == ScanBegins \/ MeasureCc1 \/ MeasureCc2
Next == Around \/ VbusInterrupt \/ MeterTakesJob \/ MeasureActive \/ ScanStep
          \/ AccessFails \/ RequestActive \/ SetPolarity \/ SetPolarityFails

Spec == Init /\ [][Next]_vars

\* TC is run in every tick, the driver's task is not starved, its interrupts are
\* not lost and the chip answers at last; a timer ends.
Fairness ==
    /\ WF_vars(TcRun /\ UNCHANGED <<meter, active_cc, sw, faults>>)
    /\ WF_vars(TimerDue /\ UNCHANGED <<meter, active_cc, sw, faults>>)
    /\ WF_vars(VbusInterrupt) /\ WF_vars(SetPolarity \/ SetPolarityFails)
    /\ WF_vars(MeterTakesJob) /\ WF_vars(MeasureActive \/ ScanStep)

FairSpec == Spec /\ Fairness

-----------------------------------------------------------------------------
(* Properties *)

\* The line selected for transmission is the one the cable uses, whichever way up it
\* was plugged in and however often it was turned over, though one reading of the two
\* scans was wrong and accesses of the meter failed.  A failure to set it goes
\* unnoticed (the driver logs it) and is made good by the next polarity set.
RightLine ==
    is_attached /\ cable.vbus /\ ~faults.unset => driver.polarity = cable.plug

\* The one comparator is where each of its users takes it to be, wherever a scan was
\* interrupted by a failing access or a measurement by a new polarity: on the line in
\* use, from which PRL reads SinkTxOK, unless a scan has it.
ComparatorInPlace ==
    /\ ~faults.unset => sw.tx = driver.polarity
    /\ meter \in {"IDLE", "CC_ACTIVE_MEASURE_WAIT"} /\ ~faults.unset => sw.meas = driver.polarity
    /\ meter = "SCAN_CC1_MEASURE_WAIT" => sw.meas = "CC1"
    /\ meter = "SCAN_CC2_MEASURE_WAIT" => sw.meas = "CC2"

\* A source that keeps VBUS on is found, and the port stays attached to it.
Attaches ==
    <>[](cable.vbus) =>
        <>[](is_attached /\ (driver.polarity = cable.plug \/ faults.unset))

\* Without a source the port ends up detached, no line being selected.
Detaches ==
    <>[](~cable.vbus) =>
        <>[](~is_attached /\ (driver.polarity = "NONE" \/ faults.unset))
=============================================================================
