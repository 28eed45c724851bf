---------------------------- MODULE CableProofs ----------------------------
(***************************************************************************)
(* For any readings, any number of failing accesses and any noise: the     *)
(* types, the place of the comparator, and the debouncing of VBUS; and, if *)
(* noise falsifies one reading at most, that the line found is the right   *)
(* one (with two, both scans may agree on the wrong one).                  *)
(***************************************************************************)
EXTENDS Fusb302, TLAPS

USE LevelsAssumption, BoundAssumption DEF Lines, Readings, Polarities, TcTypeOK, TypeOK

\* The variables of the driver, and those it leaves to TC.
chip == <<meter, active_cc, sw, faults>>

LEMMA InitTypeOK == Init => TypeOK
<1> SUFFICES ASSUME Init PROVE TypeOK
  OBVIOUS
<1> USE DEF Init, TcInit
<1>1. tc \in [state : {"DETACHED", "DETECTING", "SINK_ATTACHED"},
              cc1 : Readings, cc2 : Readings]
  OBVIOUS
<1>2. driver \in [polarity : Lines \cup {"NONE"}, vbus_ok : BOOLEAN,
                  cc1 : Readings, cc2 : Readings]
  OBVIOUS
<1>3. cable \in [plug : Lines \cup {"none"}, level : Levels, vbus : BOOLEAN, quiet : BOOLEAN]
  OBVIOUS
<1>4. sw \in [meas : Polarities, tx : Polarities, backup : Polarities]
  OBVIOUS
<1>5. faults \in [misreads : 0..MaxMisreads, failures : 0..MaxFailures, unset : BOOLEAN]
  OBVIOUS
<1> QED
  BY <1>1, <1>2, <1>3, <1>4, <1>5

\* What every run of TC does to the cable's history.
LEMMA RunsCable ==
    ASSUME TcTypeOK, NEW states, Runs(states)
    PROVE  cable' \in [plug : Lines \cup {"none"}, level : Levels, vbus : BOOLEAN, quiet : BOOLEAN]
<1> DEFINE b == cable.quiet \/ (Settled /\ cable.plug # "none")
<1>1. b \in BOOLEAN
  OBVIOUS
<1>2. cable' = [cable EXCEPT !.quiet = b]
  BY DEF Runs
<1> HIDE DEF b
<1> QED BY <1>1, <1>2

\* A run of TC, variable by variable.
LEMMA TcRunTypeOK ==
    ASSUME TcTypeOK, TcRun
    PROVE  TcTypeOK'
<1> USE DEF Runs, EnterDetached, EnterDetecting, HasScan, Waits, VbusLost, DebounceVbus,
      VbusDebounced, ScanAgain, NoVbusAfterScan, Attach, KeepScanning, Attached, Detach, TcRun
<1>1. tc' \in [state : {"DETACHED", "DETECTING", "SINK_ATTACHED"},
               cc1 : Readings, cc2 : Readings]
  <2>1. \/ tc' = tc
        \/ tc' = [tc EXCEPT !.state = "DETACHED"]
        \/ tc' = [state |-> "DETECTING", cc1 |-> 0, cc2 |-> 0]
        \/ tc' = [tc EXCEPT !.state = "SINK_ATTACHED"]
        \/ tc' = [tc EXCEPT !.cc1 = driver.cc1, !.cc2 = driver.cc2]
    BY Zenon
  <2>2. CASE tc' = [tc EXCEPT !.cc1 = driver.cc1, !.cc2 = driver.cc2]
    BY <2>2
  <2>3. CASE tc' = [state |-> "DETECTING", cc1 |-> 0, cc2 |-> 0]
    BY <2>3
  <2>4. CASE tc' = [tc EXCEPT !.state = "DETACHED"]
    BY <2>4
  <2>5. CASE tc' = [tc EXCEPT !.state = "SINK_ATTACHED"]
    BY <2>5
  <2> QED BY <2>1, <2>2, <2>3, <2>4, <2>5, Zenon
<1>2. is_attached' \in BOOLEAN
  <2>1. is_attached' = is_attached \/ is_attached' = TRUE \/ is_attached' = FALSE
    BY Zenon
  <2> QED BY <2>1, Zenon
<1>3. timer' \in {"disabled", "active", "due"}
  OBVIOUS
<1>4. scan' \in {"idle", "enqueued", "working"} /\ set_polarity' \in Lines \cup {"idle", "NONE"}
  OBVIOUS
<1>5. driver' = driver
  OBVIOUS
<1>6. cable' \in [plug : Lines \cup {"none"}, level : Levels, vbus : BOOLEAN, quiet : BOOLEAN]
  <2>1. \E states : Runs(states)
    BY Zenon
  <2> QED BY <2>1, RunsCable
<1>7. steady' \in BOOLEAN
  BY Zenon
<1> QED
  BY <1>1, <1>2, <1>3, <1>4, <1>5, <1>6, <1>7

LEMMA AroundTypeOK == TypeOK /\ Around => TypeOK'
<1> SUFFICES ASSUME TypeOK, Around PROVE TypeOK'
  OBVIOUS
<1>1. UNCHANGED chip
  BY DEF Around, chip
<1>2. TcTypeOK => TcTypeOK'
  <2> HAVE TcTypeOK
  <2>1. CASE TcRun
    BY <2>1, TcRunTypeOK
  <2>2. CASE TimerDue
    BY <2>2 DEF TimerDue
  <2>3. CASE Cable
    <3>1. UNCHANGED <<tc, is_attached, timer, scan, set_polarity, driver, steady>>
      BY <2>3 DEF Cable, PlugIn, SourceOn, SourceOff, Unplug, tcVars
    <3>2. cable' \in [plug : Lines \cup {"none"}, level : Levels, vbus : BOOLEAN, quiet : BOOLEAN]
      <4>1. CASE PlugIn
        <5>1. PICK line \in Lines, level \in Levels :
                cable' = [cable EXCEPT !.plug = line, !.level = level, !.quiet = FALSE]
          BY <4>1 DEF PlugIn
        <5>2. cable' = [plug |-> line, level |-> level, vbus |-> cable.vbus, quiet |-> FALSE]
          BY <5>1 DEF TcTypeOK
        <5> QED BY <5>2 DEF TcTypeOK
      <4>2. CASE SourceOn
        BY <4>2 DEF SourceOn
      <4>3. CASE SourceOff
        BY <4>3 DEF SourceOff
      <4>4. CASE Unplug
        BY <4>4 DEF Unplug
      <4> QED BY <2>3, <4>1, <4>2, <4>3, <4>4 DEF Cable
    <3> QED BY <3>1, <3>2
  <2> QED
    BY <2>1, <2>2, <2>3 DEF Around
<1> QED
  BY <1>1, <1>2 DEF chip

LEMMA FaultsType ==
    ASSUME TypeOK, NEW n \in 0..MaxFailures, NEW u \in BOOLEAN
    PROVE  [faults EXCEPT !.failures = n, !.unset = u] \in
             [misreads : 0..MaxMisreads, failures : 0..MaxFailures, unset : BOOLEAN]
  OBVIOUS

LEMMA UnsetType ==
    ASSUME TypeOK, NEW u \in BOOLEAN
    PROVE  [faults EXCEPT !.unset = u] \in
             [misreads : 0..MaxMisreads, failures : 0..MaxFailures, unset : BOOLEAN]
  OBVIOUS

LEMMA SwType ==
    ASSUME TypeOK, NEW k \in Polarities
    PROVE  /\ [sw EXCEPT !.meas = k] \in
                [meas : Polarities, tx : Polarities, backup : Polarities]
           /\ [sw EXCEPT !.meas = k, !.tx = k] \in
                [meas : Polarities, tx : Polarities, backup : Polarities]
  OBVIOUS

LEMMA NextTypeOK == TypeOK /\ [Next]_vars => TypeOK'
<1> SUFFICES ASSUME TypeOK, [Next]_vars PROVE TypeOK'
  OBVIOUS
<1> USE DEF tcVars, Meter
<1>1. CASE Around
  BY <1>1, AroundTypeOK
<1>2. CASE VbusInterrupt
  BY <1>2 DEF VbusInterrupt
<1>3. CASE MeterTakesJob
  BY <1>3 DEF MeterTakesJob
<1>4. CASE MeasureActive
  BY <1>4 DEF MeasureActive, Reads
<1>5. CASE ScanBegins
  <2>1. sw' \in [meas : Polarities, tx : Polarities, backup : Polarities]
    BY <1>5 DEF ScanBegins
  <2> QED BY <1>5, <2>1 DEF ScanBegins
<1>6. CASE MeasureCc1
  BY <1>6 DEF MeasureCc1, Reads
<1>7. CASE MeasureCc2
  BY <1>7 DEF MeasureCc2, Reads
<1>8. CASE AccessFails
  BY <1>8 DEF AccessFails, OneMoreFailure
<1>9. CASE RequestActive
  BY <1>9 DEF RequestActive
<1>10. CASE SetPolarity
  <2> USE <1>10 DEF SetPolarity, PolarityJob
  <2>1. sw' \in [meas : Polarities, tx : Polarities, backup : Polarities]
    OBVIOUS
  <2>2. driver' \in [polarity : Lines \cup {"NONE"}, vbus_ok : BOOLEAN,
                     cc1 : Readings, cc2 : Readings]
    OBVIOUS
  <2>3. faults' \in [misreads : 0..MaxMisreads, failures : 0..MaxFailures, unset : BOOLEAN]
    BY UnsetType
  <2> QED BY <2>1, <2>2, <2>3
<1>11. CASE SetPolarityFails
  <2> USE <1>11 DEF SetPolarityFails, PolarityJob
  <2>1. sw' \in [meas : Polarities, tx : Polarities, backup : Polarities]
    <3>1. \A k \in Polarities : [sw EXCEPT !.meas = k] \in
             [meas : Polarities, tx : Polarities, backup : Polarities]
      BY SwType
    <3>2. [sw EXCEPT !.meas = "NONE", !.tx = "NONE"] \in
             [meas : Polarities, tx : Polarities, backup : Polarities]
      BY SwType DEF Polarities
    <3>3. set_polarity \in Polarities
      BY DEF Polarities
    <3> QED BY <3>1, <3>2, <3>3
  <2>2. faults' \in [misreads : 0..MaxMisreads, failures : 0..MaxFailures, unset : BOOLEAN]
    <3>1. faults.failures + 1 \in 0..MaxFailures
      OBVIOUS
    <3>2. faults' = [faults EXCEPT !.failures = faults.failures + 1, !.unset = TRUE]
      OBVIOUS
    <3> HIDE DEF SetPolarityFails, PolarityJob
    <3> QED BY <3>1, <3>2, FaultsType
  <2> QED BY <2>1, <2>2
<1>12. CASE UNCHANGED vars
  BY <1>12 DEF vars
<1> QED
  BY <1>1, <1>2, <1>3, <1>4, <1>5, <1>6, <1>7, <1>8, <1>9, <1>10, <1>11, <1>12
     DEF Next, ScanStep

\* Every variable keeps its type, whatever the bounds.
THEOREM TypeCorrect == Spec => []TypeOK
  BY InitTypeOK, NextTypeOK, PTL DEF Spec

-----------------------------------------------------------------------------
\* While a scan has the comparator, its place is kept in the backup; before the scan
\* has moved it, and without a scan, it is on the line in use.
PlaceInv ==
    /\ ComparatorInPlace
    /\ ~faults.unset =>
         /\ meter = "SCAN_CC_BEGIN" => sw.meas = driver.polarity
         /\ meter \in {"SCAN_CC1_MEASURE_WAIT", "SCAN_CC2_MEASURE_WAIT"} =>
              sw.backup = driver.polarity

LEMMA NextPlaceInv == TypeOK /\ PlaceInv /\ [Next]_vars => PlaceInv'
<1> SUFFICES ASSUME TypeOK, PlaceInv, [Next]_vars PROVE PlaceInv'
  OBVIOUS
<1> USE DEF PlaceInv, ComparatorInPlace, tcVars, Meter
<1>1. CASE Around
  <2>1. UNCHANGED <<meter, sw, faults>>
    BY <1>1 DEF Around
  <2>2. UNCHANGED driver
    BY <1>1 DEF Around, TcRun, TimerDue, Cable, PlugIn, SourceOn, SourceOff, Unplug,
         Waits, VbusLost, DebounceVbus, VbusDebounced, ScanAgain, NoVbusAfterScan,
         Attach, KeepScanning, Attached, Detach
  <2> QED BY <2>1, <2>2
<1>2. CASE VbusInterrupt
  BY <1>2 DEF VbusInterrupt
<1>3. CASE MeterTakesJob
  BY <1>3 DEF MeterTakesJob
<1>4. CASE MeasureActive
  BY <1>4 DEF MeasureActive, Reads
<1>5. CASE ScanBegins
  BY <1>5 DEF ScanBegins
<1>6. CASE MeasureCc1
  BY <1>6 DEF MeasureCc1, Reads
<1>7. CASE MeasureCc2
  BY <1>7 DEF MeasureCc2, Reads
<1>8. CASE AccessFails
  BY <1>8 DEF AccessFails, OneMoreFailure
<1>9. CASE RequestActive
  BY <1>9 DEF RequestActive
<1>10. CASE SetPolarity
  BY <1>10 DEF SetPolarity, PolarityJob
<1>11. CASE SetPolarityFails
  BY <1>11 DEF SetPolarityFails, PolarityJob
<1>12. CASE UNCHANGED vars
  BY <1>12 DEF vars
<1> QED
  BY <1>1, <1>2, <1>3, <1>4, <1>5, <1>6, <1>7, <1>8, <1>9, <1>10, <1>11, <1>12
     DEF Next, ScanStep

\* However often accesses fail and wherever, the comparator is where the meter and
\* PRL take it to be.
THEOREM ComparatorIsInPlace == Spec => []ComparatorInPlace
<1>1. Init => PlaceInv
  BY DEF Init, TcInit, PlaceInv, ComparatorInPlace
<1>2. PlaceInv => ComparatorInPlace
  BY DEF PlaceInv
<1> QED
  BY <1>1, <1>2, NextPlaceInv, TypeCorrect, PTL DEF Spec

-----------------------------------------------------------------------------
\* A debounce timer left over from an earlier time with VBUS would break this.
SteadyInv == tc.state = "DETACHED" /\ timer # "disabled" => steady

LEMMA NextSteadyInv ==
    ASSUME TypeOK, SteadyInv, [Next]_vars
    PROVE  /\ SteadyInv'
           /\ tc.state = "DETACHED" /\ tc'.state = "DETECTING" => steady
<1> USE DEF SteadyInv
<1>1. CASE TcRun
  <2> USE DEF Runs, EnterDetached, EnterDetecting, HasScan
  <2>1. CASE Waits
    BY <2>1 DEF Waits
  <2>2. CASE VbusLost
    BY <2>2 DEF VbusLost
  <2>3. CASE DebounceVbus
    BY <2>3 DEF DebounceVbus
  <2>4. CASE VbusDebounced
    BY <2>4 DEF VbusDebounced
  <2>5. CASE ScanAgain
    BY <2>5 DEF ScanAgain
  <2>6. CASE NoVbusAfterScan
    BY <2>6 DEF NoVbusAfterScan
  <2>7. CASE Attach
    BY <2>7 DEF Attach
  <2>8. CASE KeepScanning
    BY <2>8 DEF KeepScanning
  <2>9. CASE Attached
    BY <2>9 DEF Attached
  <2>10. CASE Detach
    BY <2>10 DEF Detach
  <2> QED
    BY <1>1, <2>1, <2>2, <2>3, <2>4, <2>5, <2>6, <2>7, <2>8, <2>9, <2>10 DEF TcRun
<1>2. CASE TimerDue
  BY <1>2 DEF TimerDue
<1>3. CASE Cable
  BY <1>3 DEF Cable, PlugIn, SourceOn, SourceOff, Unplug, tcVars
<1>4. CASE UNCHANGED <<tc, timer, steady>>
  BY <1>4
<1>5. ASSUME ~Around PROVE UNCHANGED <<tc, timer, steady>>
  BY <1>5 DEF Next, vars, tcVars, VbusInterrupt, MeterTakesJob, MeasureActive, ScanStep,
       ScanBegins, MeasureCc1, MeasureCc2, AccessFails, RequestActive, SetPolarity,
       SetPolarityFails, PolarityJob
<1> QED BY <1>1, <1>2, <1>3, <1>4, <1>5 DEF Around

\* TC_DETECTING is entered only after VBUS has been seen without a break.
THEOREM VbusIsDebounced == Spec => VbusSteady
<1>1. Init => SteadyInv
  BY DEF Init, TcInit, SteadyInv
<1>2. TypeOK /\ SteadyInv /\ [Next]_vars => SteadyInv'
  BY NextSteadyInv
<1>3. TypeOK /\ SteadyInv /\ [Next]_vars =>
        [tc.state = "DETACHED" /\ tc'.state = "DETECTING" => steady]_<<tcVars, driver, cable>>
  BY NextSteadyInv
<1> QED
  BY <1>1, <1>2, <1>3, TypeCorrect, PTL DEF Spec, VbusSteady

-----------------------------------------------------------------------------
(* The line selected is the one in use. *)

Scanning == {"SCAN_CC_BEGIN", "SCAN_CC1_MEASURE_WAIT", "SCAN_CC2_MEASURE_WAIT"}

\* Who may be asking the driver for what, and when.
JobsInv ==
    /\ is_attached => tc.state = "SINK_ATTACHED" /\ set_polarity = "idle"
    /\ scan # "idle" => tc.state = "DETECTING" /\ timer = "disabled"
    /\ tc.state = "DETECTING" => set_polarity = "idle"
    /\ scan = "working" <=> meter \in Scanning
    /\ meter = "CC_ACTIVE_MEASURE_WAIT" => active_cc # "idle"
    /\ ~is_attached /\ set_polarity = "idle" => active_cc = "idle"

\* A source applies VBUS only when TC is back in TC_DETACHED: no reading of an earlier
\* cable is used for it.
QuietInv ==
    /\ cable.vbus => cable.plug # "none"
    /\ cable.plug # "none" /\ ~cable.vbus /\ cable.quiet =>
         tc.state = "DETACHED" /\ ~driver.vbus_ok

\* What a line reads without noise; the readings of the scan under way, or just over.
Right(line) == IF cable.plug = line THEN cable.level ELSE 0
Cc1Good == driver.cc1 = Right("CC1")
Cc2Good == driver.cc2 = Right("CC2")
ScanOver == scan = "idle" /\ timer = "disabled"
FreshGood ==
    /\ meter = "SCAN_CC2_MEASURE_WAIT" \/ ScanOver => Cc1Good
    /\ ScanOver => Cc2Good
KeptGood == \/ tc.cc1 = 0 /\ tc.cc2 = 0
            \/ tc.cc1 = Right("CC1") /\ tc.cc2 = Right("CC2")

\* Of the two scans compared, noise has reached one at most, and that one used it up.
LineInv ==
    /\ cable.vbus /\ tc.state = "DETECTING" =>
         /\ KeptGood \/ FreshGood
         /\ ~KeptGood \/ ~FreshGood => faults.misreads >= 1
    /\ cable.vbus /\ tc.state = "SINK_ATTACHED" =>
         /\ set_polarity \in {cable.plug, "idle"}
         /\ set_polarity = "idle" /\ ~faults.unset => driver.polarity = cable.plug

\* What the steps leave alone.
LEMMA AroundKeeps == TypeOK /\ Around => UNCHANGED <<driver, chip>>
  BY DEF Around, TcRun, TimerDue, Cable, PlugIn, SourceOn, SourceOff, Unplug,
     Waits, VbusLost, DebounceVbus, VbusDebounced, ScanAgain, NoVbusAfterScan,
     Attach, KeepScanning, Attached, Detach, chip

LEMMA NextJobsInv == TypeOK /\ JobsInv /\ [Next]_vars => JobsInv'
<1> SUFFICES ASSUME TypeOK, JobsInv, [Next]_vars PROVE JobsInv'
  OBVIOUS
<1> USE DEF JobsInv, Scanning, tcVars, Meter
<1>1. CASE Around
  <2>0. meter' = meter /\ active_cc' = active_cc
    BY <1>1, AroundKeeps DEF chip
  <2>1. CASE TcRun
    <3> USE <2>0 DEF Runs, EnterDetached, EnterDetecting, HasScan
    <3>1. CASE Waits
      BY <3>1 DEF Waits
    <3>2. CASE VbusLost
      BY <3>2 DEF VbusLost
    <3>3. CASE DebounceVbus
      BY <3>3 DEF DebounceVbus
    <3>4. CASE VbusDebounced
      BY <3>4 DEF VbusDebounced
    <3>5. CASE ScanAgain
      BY <3>5 DEF ScanAgain
    <3>6. CASE NoVbusAfterScan
      BY <3>6 DEF NoVbusAfterScan
    <3>7. CASE Attach
      BY <3>7 DEF Attach
    <3>8. CASE KeepScanning
      BY <3>8 DEF KeepScanning
    <3>9. CASE Attached
      BY <3>9 DEF Attached
    <3>10. CASE Detach
      BY <3>10 DEF Detach
    <3> QED
      BY <2>1, <3>1, <3>2, <3>3, <3>4, <3>5, <3>6, <3>7, <3>8, <3>9, <3>10 DEF TcRun
  <2>2. CASE TimerDue
    BY <2>0, <2>2 DEF TimerDue
  <2>3. CASE Cable
    <3>1. UNCHANGED tcVars
      BY <2>3 DEF Cable, PlugIn, SourceOn, SourceOff, Unplug
    <3> QED BY <2>0, <3>1
  <2> QED BY <1>1, <2>1, <2>2, <2>3 DEF Around
<1>2. CASE VbusInterrupt
  BY <1>2 DEF VbusInterrupt
<1>3. CASE MeterTakesJob
  BY <1>3 DEF MeterTakesJob
<1>4. CASE MeasureActive
  BY <1>4 DEF MeasureActive, Reads
<1>5. CASE ScanBegins
  BY <1>5 DEF ScanBegins
<1>6. CASE MeasureCc1
  BY <1>6 DEF MeasureCc1, Reads
<1>7. CASE MeasureCc2
  BY <1>7 DEF MeasureCc2, Reads
<1>8. CASE AccessFails
  BY <1>8 DEF AccessFails, OneMoreFailure
<1>9. CASE RequestActive
  BY <1>9 DEF RequestActive
<1>10. CASE SetPolarity
  BY <1>10 DEF SetPolarity, PolarityJob
<1>11. CASE SetPolarityFails
  BY <1>11 DEF SetPolarityFails, PolarityJob
<1>12. CASE UNCHANGED vars
  BY <1>12 DEF vars
<1> QED
  BY <1>1, <1>2, <1>3, <1>4, <1>5, <1>6, <1>7, <1>8, <1>9, <1>10, <1>11, <1>12
     DEF Next, ScanStep

\* A run of TC notes that all is settled, and changes nothing else of the cable.
LEMMA RunsNotes ==
    ASSUME TypeOK, TcRun
    PROVE  /\ cable'.plug = cable.plug /\ cable'.vbus = cable.vbus
           /\ cable'.level = cable.level
           /\ cable'.quiet => cable.quiet \/ Settled
<1> DEFINE b == cable.quiet \/ (Settled /\ cable.plug # "none")
<1>1. PICK states : Runs(states)
  BY Zenon DEF TcRun, Waits, VbusLost, DebounceVbus, VbusDebounced, ScanAgain, NoVbusAfterScan,
     Attach, KeepScanning, Attached, Detach, HasScan
<1>2. cable' = [cable EXCEPT !.quiet = b]
  BY <1>1 DEF Runs
<1>3. b => cable.quiet \/ Settled
  OBVIOUS
<1> HIDE DEF b
<1> QED BY <1>2, <1>3

LEMMA NextQuietInv == TypeOK /\ JobsInv /\ QuietInv /\ [Next]_vars => QuietInv'
<1> SUFFICES ASSUME TypeOK, JobsInv, QuietInv, [Next]_vars PROVE QuietInv'
  OBVIOUS
<1> USE DEF QuietInv, tcVars
<1>1. CASE TcRun /\ Around
  <2>1. driver' = driver
    BY <1>1, AroundKeeps
  <2>2. ASSUME ~cable.vbus, ~driver.vbus_ok, cable.plug # "none", cable.quiet \/ Settled
        PROVE  tc'.state = "DETACHED"
    <3> USE <2>2 DEF Runs, EnterDetached, EnterDetecting, HasScan, Settled, JobsInv
    <3>1. CASE Waits
      BY <3>1 DEF Waits
    <3>2. CASE VbusLost \/ DebounceVbus \/ VbusDebounced
      BY <3>2 DEF VbusLost, DebounceVbus, VbusDebounced
    <3>3. CASE ScanAgain \/ NoVbusAfterScan
      BY <3>3 DEF ScanAgain, NoVbusAfterScan
    <3>4. CASE Attach \/ KeepScanning
      BY <3>4 DEF Attach, KeepScanning
    <3>5. CASE Attached \/ Detach
      BY <3>5 DEF Attached, Detach
    <3> QED
      BY <1>1, <3>1, <3>2, <3>3, <3>4, <3>5 DEF TcRun
  <2>3. ASSUME ~cable.vbus, cable.plug # "none", cable.quiet \/ Settled
        PROVE  ~driver.vbus_ok
    BY <2>3 DEF Settled
  <2> QED BY <1>1, <2>1, <2>2, <2>3, RunsNotes
<1>2. CASE (TimerDue \/ Cable) /\ Around
  <2>1. CASE TimerDue
    BY <2>1, <1>2 DEF TimerDue
  <2>2. CASE PlugIn \/ SourceOn
    BY <2>2, <1>2 DEF PlugIn, SourceOn
  <2>3. CASE SourceOff \/ Unplug
    BY <2>3, <1>2 DEF SourceOff, Unplug
  <2> QED BY <1>2, <2>1, <2>2, <2>3 DEF Cable
<1>3. CASE VbusInterrupt
  BY <1>3 DEF VbusInterrupt
<1>4. ASSUME ~Around, ~VbusInterrupt
      PROVE  UNCHANGED <<tc, cable>> /\ driver'.vbus_ok = driver.vbus_ok
  BY <1>4 DEF Next, vars, MeterTakesJob, MeasureActive, ScanStep, ScanBegins,
     MeasureCc1, MeasureCc2, AccessFails, RequestActive, SetPolarity, SetPolarityFails, PolarityJob
<1> QED BY <1>1, <1>2, <1>3, <1>4 DEF Around

\* The readings of one line at a time.
LEMMA NextLineInv ==
    ASSUME MaxMisreads <= 1, TypeOK, PlaceInv, JobsInv, QuietInv, LineInv, [Next]_vars
    PROVE  LineInv'
<1> USE DEF LineInv, tcVars, Meter, KeptGood, FreshGood, ScanOver, Cc1Good, Cc2Good, Right
<1>1. CASE Around /\ TcRun
  <2> USE <1>1, AroundKeeps, RunsNotes DEF chip
  <2> USE DEF Runs, EnterDetached, EnterDetecting, HasScan, JobsInv, QuietInv
  <2>1. CASE Waits
    BY <2>1 DEF Waits
  <2>2. CASE VbusLost
    BY <2>2 DEF VbusLost
  <2>3. CASE DebounceVbus
    BY <2>3 DEF DebounceVbus
  <2>4. CASE VbusDebounced
    BY <2>4 DEF VbusDebounced, Scanning
  <2>5. CASE ScanAgain
    BY <2>5 DEF ScanAgain, Scanning
  <2>6. CASE NoVbusAfterScan
    BY <2>6 DEF NoVbusAfterScan
  <2>7. CASE Attach
    <3> USE <2>7 DEF Attach, SameScan
    <3>1. ASSUME cable.vbus
          PROVE  set_polarity' = cable.plug
      <4>1. cable.plug \in Lines /\ cable.level \in Nat \ {0}
        BY <3>1
      <4>2. ~(tc.cc1 = 0 /\ tc.cc2 = 0)
        BY SMT
      <4>3. driver.cc1 = Right("CC1") /\ driver.cc2 = Right("CC2")
        BY <3>1, <4>2
      <4> QED BY <4>1, <4>3
    <3>2. tc'.state = "SINK_ATTACHED" /\ set_polarity' # "idle"
      BY SMT
    <3> QED BY <3>1, <3>2
  <2>8. CASE KeepScanning
    <3> USE <2>8 DEF KeepScanning
    <3>1. tc'.state = "DETECTING" /\ tc'.cc1 = driver.cc1 /\ tc'.cc2 = driver.cc2
      BY SMT
    <3>2. ~ScanOver' /\ meter' # "SCAN_CC2_MEASURE_WAIT"
      BY DEF Scanning
    <3>3. FreshGood'
      BY <3>2
    <3>4. cable.vbus /\ ~KeptGood' => faults.misreads >= 1
      <4>1. cable.vbus /\ FreshGood => KeptGood'
        BY <3>1
      <4> QED BY <4>1
    <3> QED BY <3>1, <3>3, <3>4
  <2>9. CASE Attached
    BY <2>9 DEF Attached
  <2>10. CASE Detach
    BY <2>10 DEF Detach
  <2> QED
    BY <1>1, <2>1, <2>2, <2>3, <2>4, <2>5, <2>6, <2>7, <2>8, <2>9, <2>10 DEF TcRun
<1>2. CASE Around /\ TimerDue
  BY <1>2, AroundKeeps DEF TimerDue, chip, JobsInv
<1>3. CASE Around /\ Cable
  BY <1>3, AroundKeeps DEF Cable, PlugIn, SourceOn, SourceOff, Unplug, QuietInv, chip
<1>4. CASE VbusInterrupt
  BY <1>4 DEF VbusInterrupt
<1>5. CASE MeterTakesJob
  BY <1>5 DEF MeterTakesJob, JobsInv
<1>6. CASE MeasureActive
  BY <1>6 DEF MeasureActive, Reads, JobsInv
<1>7. CASE ScanBegins
  BY <1>7 DEF ScanBegins, JobsInv, Scanning
<1>8. CASE MeasureCc1
  BY <1>8 DEF MeasureCc1, Reads, JobsInv, Scanning, PlaceInv, ComparatorInPlace
<1>9. CASE MeasureCc2
  BY <1>9 DEF MeasureCc2, Reads, JobsInv, Scanning, PlaceInv, ComparatorInPlace
<1>10. CASE AccessFails
  BY <1>10 DEF AccessFails, OneMoreFailure, JobsInv, Scanning, PlaceInv, ComparatorInPlace
<1>11. CASE RequestActive
  BY <1>11 DEF RequestActive
<1>12. CASE SetPolarity
  BY <1>12 DEF SetPolarity, PolarityJob, JobsInv
<1>13. CASE SetPolarityFails
  BY <1>13 DEF SetPolarityFails, PolarityJob, JobsInv
<1>14. CASE UNCHANGED vars
  BY <1>14 DEF vars
<1> QED
  BY <1>1, <1>2, <1>3, <1>4, <1>5, <1>6, <1>7, <1>8, <1>9, <1>10, <1>11, <1>12, <1>13, <1>14
     DEF Next, ScanStep, Around

\* Noise that reaches one reading of the two scans compared does not select the wrong
\* line, whatever the levels are and however often accesses fail or the cable is turned.
THEOREM RightLineFound == MaxMisreads <= 1 /\ Spec => []RightLine
<1> SUFFICES ASSUME MaxMisreads <= 1 PROVE Spec => []RightLine
  OBVIOUS
<1>1. Init => PlaceInv /\ JobsInv /\ QuietInv /\ LineInv
  BY DEF Init, TcInit, PlaceInv, ComparatorInPlace, JobsInv, QuietInv, LineInv, Scanning
<1>2. TypeOK /\ JobsInv /\ LineInv => RightLine
  BY DEF JobsInv, LineInv, RightLine
<1>3. TypeOK /\ PlaceInv /\ JobsInv /\ QuietInv /\ LineInv /\ [Next]_vars => LineInv'
  BY NextLineInv
<1> QED
  BY <1>1, <1>2, <1>3, NextPlaceInv, NextJobsInv, NextQuietInv, TypeCorrect, PTL DEF Spec
=============================================================================
