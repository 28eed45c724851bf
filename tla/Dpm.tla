-------------------------------- MODULE Dpm ----------------------------------
(***************************************************************************)
(* The device policy manager (src/src/pd/dpm.cpp): how the application's   *)
(* trigger, written field by field on one thread, becomes a request that   *)
(* PE has built, profile by profile, on another.  Of PE there is what a    *)
(* request goes through: the list it is built from, the answer it gets,    *)
(* the contract it makes, and what makes PE ask again.                     *)
(* The fields of the trigger are plain members that both threads use with  *)
(* no lock: each read and each write is a step of its own.                 *)
(***************************************************************************)
EXTENDS DataObjects

CONSTANTS
    Lists,         \* what the source sends as its capabilities
    Calls,         \* what the application calls: see VariantCall, PositionCall
    MaxTriggers,   \* bound: calls of the application
    MaxEvents      \* bound: events but a list that is awaited, Accept and PS_RDY

MatchTypes == {"USE_ANY", "BY_PDO_VARIANT", "BY_POSITION"}
Triggers == [mv : Nat, ma : Nat, variant : PDO_VARIANT, position : Nat,
             match_type : MatchTypes]
Fields == {"mv", "ma", "variant", "position", "match_type"}

ASSUME ListsAssumption ==
    \A list \in Lists : list \in Seq(PDO) /\ \A i \in 1..Len(list) : SoundPdo(list[i])
ASSUME CallsAssumption ==
    \A call \in Calls : call.todo \in Seq(Fields) \ {<<>>} /\ call.target \in Triggers
ASSUME BoundsAssumption == MaxTriggers \in Nat /\ MaxEvents \in Nat

VARIABLES
    trigger,  \* DPM: mv, ma, variant, position, match_type
    app,      \* the application's thread: the fields it has yet to write
    scan,     \* PE's thread inside get_request_data_object
    pe,       \* PE: its state, active_dpm_request
    port,     \* the part of Port that has to do with requests
    memo,     \* for the properties only: what the request at hand was built from
    count     \* calls and events so far

vars == <<trigger, app, scan, pe, port, memo, count>>

NoRdo == [obj_position |-> 0, format |-> "none", output_voltage |-> 0,
          operating_current |-> 0]
NoScan == [at |-> "off", i |-> 0, mv |-> 0, ma |-> 0]

Init ==
    /\ trigger = [mv |-> 0, ma |-> 0, variant |-> "UNKNOWN", position |-> 0,
                  match_type |-> "USE_ANY"]
    /\ app = [at |-> "idle", todo |-> <<>>, target |-> trigger]
    /\ scan = NoScan
    /\ pe = [state |-> "Wait_for_Capabilities", active |-> FALSE, from_caps |-> FALSE]
    /\ port = [source_caps |-> <<>>, contract |-> FALSE, epr |-> FALSE,
               new_power_level |-> FALSE, sink_request |-> FALSE,
               rdo_to_request |-> NoRdo, rdo_contracted |-> NoRdo]
    /\ memo = [fresh |-> FALSE, excuse |-> "none"]
    /\ count = [calls |-> 0, events |-> 0]

-----------------------------------------------------------------------------
(* The application's thread *)

VariantCall(variant, mv, ma) ==
    [todo |-> <<"mv", "ma", "variant", "position", "match_type">>,
     target |-> [mv |-> mv, ma |-> ma, variant |-> variant, position |-> 0,
                 match_type |-> IF variant = "UNKNOWN" THEN "USE_ANY"
                                ELSE "BY_PDO_VARIANT"]]

PositionCall(position, mv, ma) ==
    [todo |-> <<"mv", "ma", "match_type", "position", "variant">>,
     target |-> [mv |-> mv, ma |-> ma, variant |-> "UNKNOWN", position |-> position,
                 match_type |-> "BY_POSITION"]]

\* trigger_variant, trigger_by_position
Trigger(call) ==
    /\ app.at = "idle" /\ count.calls < MaxTriggers
    /\ app' = [at |-> "writes", todo |-> call.todo, target |-> call.target]
    /\ count' = [count EXCEPT !.calls = @ + 1]
    /\ UNCHANGED <<trigger, scan, pe, port, memo>>

WriteField ==
    /\ app.at = "writes"
    /\ LET field == Head(app.todo)
       IN  trigger' = [trigger EXCEPT ![field] = app.target[field]]
    /\ app' = [app EXCEPT !.todo = Tail(@),
                          !.at = IF Len(app.todo) = 1 THEN "tests" ELSE "writes"]
    /\ memo' = [memo EXCEPT !.fresh = FALSE]
    /\ UNCHANGED <<scan, pe, port, count>>

\* request_new_power_level: the flag of the contract is looked at, ...
TestContract ==
    /\ app.at = "tests"
    /\ app' = [app EXCEPT !.at = IF port.contract THEN "sets" ELSE "idle"]
    /\ memo' = IF ~port.contract /\ ~memo.fresh THEN [memo EXCEPT !.excuse = "missed"]
               ELSE memo
    /\ UNCHANGED <<trigger, scan, pe, port, count>>

\* ... and the request is set.
SetRequest ==
    /\ app.at = "sets"
    /\ app' = [app EXCEPT !.at = "idle"]
    /\ port' = [port EXCEPT !.new_power_level = TRUE]
    /\ UNCHANGED <<trigger, scan, pe, memo, count>>

-----------------------------------------------------------------------------
(* DPM::get_request_data_object, on entry to PE_SNK_Select_Capability *)

Consider(list, i) == [at |-> IF i \in 1..Len(list) THEN "match_type" ELSE "default",
                      i |-> i, mv |-> 0, ma |-> 0]

Pdo == port.source_caps[scan.i]
PdoLimits == get_src_pdo_limits(Pdo)

\* The loop goes on with the next profile.
Skip == scan' = Consider(port.source_caps, scan.i + 1)
GoTo(pc) == scan' = [scan EXCEPT !.at = pc]
Provided(condition, pc) == IF condition THEN GoTo(pc) ELSE Skip

\* One step for each time a field is read; match_type is read twice.
PassUnknown == scan.at = "match_type" /\ Pdo.variant = "UNKNOWN" /\ Skip

ReadMatchType ==
    scan.at = "match_type" /\ Pdo.variant # "UNKNOWN" /\
    GoTo(IF trigger.match_type = "BY_POSITION" THEN "position" ELSE "by_variant")

\* Wrong: the position is counted from 0.
ReadPositionFromZero ==
    scan.at = "position" /\ Provided(scan.i = trigger.position + 1, "has_mv")

ReadPosition == scan.at = "position" /\ Provided(scan.i = trigger.position, "has_mv")

ReadMatchTypeAgain ==
    scan.at = "by_variant" /\
    GoTo(IF trigger.match_type = "BY_PDO_VARIANT" THEN "variant" ELSE "match_mv")

ReadVariant == scan.at = "variant" /\ Provided(Pdo.variant = trigger.variant, "match_mv")

ReadMatchMv ==
    scan.at = "match_mv" /\ scan' = [scan EXCEPT !.at = "match_ma", !.mv = trigger.mv]

ReadMatchMa ==
    scan.at = "match_ma" /\ Provided(match_limits(Pdo, scan.mv, trigger.ma), "has_mv")

\* The profile is chosen: its voltage, ...
ReadHasMv ==
    /\ scan.at = "has_mv"
    /\ scan' = IF trigger.mv # 0 THEN [scan EXCEPT !.at = "mv"]
               ELSE [scan EXCEPT !.at = "has_ma",
                       !.mv = Clamp(PdoLimits.mv_min, PdoLimits.mv_min, PdoLimits.mv_max)]

ReadMv ==
    /\ scan.at = "mv"
    /\ scan' = [scan EXCEPT !.at = "has_ma",
                  !.mv = Clamp(trigger.mv, PdoLimits.mv_min, PdoLimits.mv_max)]

\* Wrong: the current that the profile has is not looked at.
MaLimitOfPd(limits, mv) == MaxMa

\* ... and its current.
MaLimit(limits, mv) ==
    IF limits.ma # 0 THEN Least(limits.ma, MaxMa) ELSE ImpliedMa(limits.pdp, mv)

ReadHasMa ==
    /\ scan.at = "has_ma"
    /\ scan' = IF trigger.ma # 0 THEN [scan EXCEPT !.at = "ma"]
               ELSE [scan EXCEPT !.at = "done", !.ma = MaLimit(PdoLimits, scan.mv)]

ReadMa ==
    /\ scan.at = "ma"
    /\ scan' = [scan EXCEPT !.at = "done",
                  !.ma = Least(trigger.ma, MaLimit(PdoLimits, scan.mv))]

ReadsTrigger ==
    /\ \/ PassUnknown \/ ReadMatchType \/ ReadPosition \/ ReadMatchTypeAgain \/ ReadVariant
       \/ ReadMatchMv \/ ReadMatchMa \/ ReadHasMv \/ ReadMv \/ ReadHasMa \/ ReadMa
    /\ UNCHANGED <<trigger, app, pe, port, memo, count>>

\* The request, of the chosen profile, or else of the first one.
Rdo ==
    LET first == get_src_pdo_limits(port.source_caps[1])
    IN  IF scan.at = "done" THEN Request(scan.i, Pdo, scan.mv, scan.ma)
        ELSE RDO_FIXED(1, first.ma)

\* PE has its request and sends it.
SendRequest ==
    /\ scan.at \in {"done", "default"} /\ port.source_caps # <<>>
    /\ port' = [port EXCEPT !.rdo_to_request = Rdo, !.sink_request = FALSE]
    /\ scan' = NoScan
    /\ UNCHANGED <<trigger, app, pe, memo, count>>

-----------------------------------------------------------------------------
(* PE's thread *)

PeRuns == scan.at = "off"

Event == count.events < MaxEvents /\ count' = [count EXCEPT !.events = @ + 1]

\* PE_SNK_Select_Capability is entered from a state and with a request of DPM or not.
Select(active, from_caps, p) ==
    /\ pe' = [state |-> "Select_Capability", active |-> active, from_caps |-> from_caps]
    /\ port' = p
    /\ scan' = Consider(p.source_caps, 1)
    /\ memo' = [fresh |-> TRUE, excuse |-> "none"]

\* Another state; what was asked for by DPM is forgotten in Ready.
Enter(state, p) ==
    /\ pe' = [state |-> state, active |-> pe.active /\ state # "Ready",
              from_caps |-> FALSE]
    /\ port' = p
    /\ scan' = scan

\* Transition_to_default, or PE::init: HAS_EXPLICIT_CONTRACT, IN_EPR_MODE and the
\* requests of DPM are dropped; active_dpm_request and the lists are not.
Reset(p) == [p EXCEPT !.contract = FALSE, !.epr = FALSE, !.new_power_level = FALSE]

\* PE_SNK_Evaluate_Capability, of a list that is valid
Kept(list) == IF Len(list) > MaxPdoObjects_SPR /\ ~port.epr
                THEN SubSeq(list, 1, MaxPdoObjects_SPR) ELSE list

\* In Source_Capabilities, or in EPR_Source_Capabilities.
SourceCapabilities(list, extended) ==
    /\ PeRuns
    /\ extended \/ Len(list) \in 1..MaxPdoObjects_SPR
    /\ \/ pe.state = "Wait_for_Capabilities" /\ extended = port.epr
       \/ pe.state = "Ready" /\ (port.epr => extended)
    /\ IF /\ validate_source_caps(list)
          /\ pe.state = "Wait_for_Capabilities" \/ ~port.contract
         THEN UNCHANGED count ELSE Event
    /\ \/ /\ validate_source_caps(list)
          /\ Select(pe.active, TRUE, [port EXCEPT !.source_caps = Kept(list)])
       \/ /\ ~validate_source_caps(list)
          /\ Enter("Ready", [port EXCEPT !.source_caps = list])
          /\ memo' = [memo EXCEPT !.excuse = "list refused"]
    /\ UNCHANGED <<trigger, app>>

Awaits == PeRuns /\ pe.state = "Select_Capability"

\* Wrong: an answer settles a request of DPM that was not what it answers.
SettledAnyway(p) == [p EXCEPT !.new_power_level = FALSE]

Settled(p) == IF pe.active THEN [p EXCEPT !.new_power_level = FALSE] ELSE p

\* For the properties: a request set after the scan goes down with the one before.
Excused(otherwise) ==
    memo' = [memo EXCEPT !.excuse = IF pe.active /\ ~memo.fresh THEN "missed"
                                    ELSE otherwise]

Accept ==
    /\ Awaits
    /\ Enter("Transition_Sink",
             Settled([port EXCEPT !.contract = TRUE,
                                  !.rdo_contracted = port.rdo_to_request]))
    /\ Excused(memo.excuse)
    /\ UNCHANGED <<trigger, app, count>>

Refused == IF port.contract THEN "Ready" ELSE "Wait_for_Capabilities"

Reject ==
    /\ Awaits /\ Event
    /\ Enter(Refused, Settled(port))
    /\ memo' = [memo EXCEPT !.excuse = "rejected"]
    /\ UNCHANGED <<trigger, app>>

Wait ==
    /\ Awaits /\ Event
    /\ Enter(Refused, [port EXCEPT !.sink_request = port.contract])
    /\ UNCHANGED <<trigger, app, memo>>

\* DISCARDED: a message of the source came before the request was out.
Interrupted ==
    /\ Awaits /\ Event
    /\ Enter(IF pe.from_caps THEN "Wait_for_Capabilities" ELSE "Ready", port)
    /\ memo' = IF pe.active THEN memo ELSE [memo EXCEPT !.excuse = "interrupted"]
    /\ UNCHANGED <<trigger, app>>

PowerReady ==
    /\ PeRuns /\ pe.state = "Transition_Sink"
    /\ Enter("Ready", port)
    /\ UNCHANGED <<trigger, app, memo, count>>

Ready == PeRuns /\ pe.state = "Ready" /\ UNCHANGED <<trigger, app>>

\* tSinkRequest
ReadyRetry ==
    /\ Ready /\ port.sink_request
    /\ Select(FALSE, FALSE, [port EXCEPT !.sink_request = FALSE])
    /\ UNCHANGED count

ReadyRequest ==
    /\ Ready /\ ~port.sink_request /\ port.new_power_level
    /\ Select(TRUE, FALSE, port)
    /\ UNCHANGED count

IsInPpsContract ==
    /\ port.contract /\ port.rdo_contracted.obj_position \in 1..Len(port.source_caps)
    /\ port.source_caps[port.rdo_contracted.obj_position].variant = "APDO_PPS"

\* tPPSRequest, while the source has asked to wait, too
ReadyRefresh ==
    /\ Ready /\ IsInPpsContract /\ (port.new_power_level => port.sink_request)
    /\ Select(FALSE, FALSE, port)
    /\ UNCHANGED count

EnterEprMode ==
    /\ Ready /\ Event
    /\ port.contract /\ ~port.epr /\ ~port.sink_request
    /\ Enter("Wait_for_Capabilities", [port EXCEPT !.epr = TRUE])
    /\ UNCHANGED memo

ExitEprMode ==
    /\ Ready /\ Event /\ port.epr
    /\ Enter("Wait_for_Capabilities",
             IF port.rdo_contracted.obj_position <= MaxPdoObjects_SPR
               THEN [port EXCEPT !.epr = FALSE] ELSE Reset(port))
    /\ UNCHANGED memo

\* Of either side, or a new cable; the rest of PE's states lead nowhere else.
HardReset ==
    /\ PeRuns /\ Event
    /\ Enter("Wait_for_Capabilities", Reset(port))
    /\ UNCHANGED <<trigger, app, memo>>

\* A request of nothing: the last list was empty.
NothingToRequest ==
    /\ scan.at = "default" /\ port.source_caps = <<>>
    /\ pe' = [pe EXCEPT !.state = "Wait_for_Capabilities", !.from_caps = FALSE]
    /\ port' = Reset(port)
    /\ scan' = NoScan
    /\ UNCHANGED <<trigger, app, memo, count>>

SoftReset ==
    /\ PeRuns /\ Event
    /\ Enter("Wait_for_Capabilities", port)
    /\ UNCHANGED <<trigger, app, memo>>

-----------------------------------------------------------------------------
Application == (\E call \in Calls : Trigger(call)) \/ WriteField \/ TestContract \/ SetRequest

Source ==
    \/ \E list \in Lists, extended \in BOOLEAN : SourceCapabilities(list, extended)
    \/ Accept \/ Reject \/ Wait \/ Interrupted \/ PowerReady

Next ==
    \/ Application \/ ReadsTrigger \/ SendRequest \/ NothingToRequest \/ Source
    \/ ReadyRetry \/ ReadyRequest \/ ReadyRefresh \/ EnterEprMode \/ ExitEprMode
    \/ HardReset \/ SoftReset

Spec == Init /\ [][Next]_vars

-----------------------------------------------------------------------------
(* Properties *)

ScanPoints == {"off", "match_type", "position", "by_variant", "variant", "match_mv",
               "match_ma", "has_mv", "mv", "has_ma", "ma", "done", "default"}

Rdos == [obj_position : Nat, format : {"none", "FIXED", "PPS", "AVS"},
         output_voltage : Nat, operating_current : Nat]

TypeOK ==
    /\ trigger \in Triggers
    /\ app \in [at : {"idle", "writes", "tests", "sets"}, todo : Seq(Fields),
                target : Triggers]
    /\ scan \in [at : ScanPoints, i : Nat, mv : Nat, ma : Nat]
    /\ pe \in [state : {"Wait_for_Capabilities", "Select_Capability",
                        "Transition_Sink", "Ready"},
               active : BOOLEAN, from_caps : BOOLEAN]
    /\ port \in [source_caps : Seq(PDO), contract : BOOLEAN, epr : BOOLEAN,
                 new_power_level : BOOLEAN, sink_request : BOOLEAN,
                 rdo_to_request : Rdos, rdo_contracted : Rdos]
    /\ memo \in [fresh : BOOLEAN,
                 excuse : {"none", "missed", "rejected", "interrupted", "list refused"}]
    /\ count \in [calls : 0..MaxTriggers, events : 0..MaxEvents]

\* The profile under consideration is one of the list; the voltage and the current
\* chosen are the profile's.
ScanInProfile ==
    /\ scan.at # "off" => pe.state = "Select_Capability"
    /\ scan.at \notin {"off", "default"} =>
         /\ scan.i \in 1..Len(port.source_caps)
         /\ scan.at # "match_type" => Pdo.variant # "UNKNOWN"
    /\ scan.at \in {"has_ma", "ma", "done"} =>
         PdoLimits.mv_min <= scan.mv /\ scan.mv <= PdoLimits.mv_max
    /\ scan.at = "done" => scan.ma <= MaLimit(PdoLimits, scan.mv)

\* What a request says, in mV and mA.
OutputMv(rdo, pdo) ==
    IF rdo.format = "FIXED" THEN pdo.voltage * 50
    ELSE IF rdo.format = "PPS" THEN rdo.output_voltage * 20
    ELSE rdo.output_voltage * 25
OperatingMa(rdo) == rdo.operating_current * (IF rdo.format = "FIXED" THEN 10 ELSE 50)

FormatOf == [FIXED |-> "FIXED", APDO_PPS |-> "PPS", APDO_SPR_AVS |-> "AVS",
             APDO_EPR_AVS |-> "AVS"]

\* The profile a request names offers what the request says.
Offered(rdo, list) ==
    /\ rdo.obj_position \in 1..Len(list)
    /\ LET pdo == list[rdo.obj_position]
           limits == get_src_pdo_limits(pdo)
           mv == OutputMv(rdo, pdo)
           ma == OperatingMa(rdo)
       IN  /\ pdo.variant # "UNKNOWN" /\ rdo.format = FormatOf[pdo.variant]
           /\ limits.mv_min <= mv /\ mv <= limits.mv_max
           /\ IF pdo.variant = "APDO_EPR_AVS" THEN mv * ma <= limits.pdp * (1000 * 1000)
              ELSE ma <= limits.ma

\* Whatever the application writes while PE reads, and however often: what is sent
\* asks for a profile of a list that PE has found valid, in the format and within the
\* voltage and the current (or power) of that profile, and outside EPR mode not for
\* one above position 7.
RequestIsOffered ==
    Awaits /\ validate_source_caps(port.source_caps) =>
        /\ Offered(port.rdo_to_request, port.source_caps)
        /\ port.rdo_to_request.obj_position > MaxPdoObjects_SPR => port.epr

\* The current a profile gives at a voltage; of EPR AVS, that of its power in watts.
GivenMa(pdo, mv) ==
    LET limits == get_src_pdo_limits(pdo)
    IN  IF pdo.variant = "APDO_EPR_AVS" THEN (limits.pdp * (1000 * 1000)) \div mv
        ELSE limits.ma

\* The request for a trigger, as dpm.h:53-73 has it: the profile at the position, or the
\* first one of the variant (if any) that gives the voltage and the current; there the
\* voltage nearest to the one asked for, and the current asked for, or all there is.
\* Where there is no such profile, 5 V.  A power of 0 is one that is not known.
Suits(t, list, i) ==
    LET limits == get_src_pdo_limits(list[i])
    IN  /\ list[i].variant # "UNKNOWN"
        /\ IF t.match_type = "BY_POSITION" THEN i = t.position
           ELSE /\ t.match_type = "BY_PDO_VARIANT" => list[i].variant = t.variant
                /\ limits.mv_min <= t.mv /\ t.mv <= limits.mv_max
                /\ \/ t.ma <= GivenMa(list[i], t.mv)
                   \/ list[i].variant = "APDO_EPR_AVS" /\ limits.pdp = 0

Distance(v, w) == IF v < w THEN w - v ELSE v - w
Nearest(mv, limits) ==
    IF mv = 0 THEN limits.mv_min
    ELSE LET allowed == {v \in {mv, limits.mv_min, limits.mv_max} :
                           limits.mv_min <= v /\ v <= limits.mv_max}
         IN  CHOOSE v \in allowed : \A w \in allowed : Distance(v, mv) <= Distance(w, mv)

Wanted(t, list) ==
    LET suitable == {i \in 1..Len(list) : Suits(t, list, i)}
        best == CHOOSE i \in suitable : \A j \in suitable : i <= j
        mv == Nearest(t.mv, get_src_pdo_limits(list[best]))
        most == Least(GivenMa(list[best], mv), MaxMa)
    IN  IF suitable = {} THEN RDO_FIXED(1, get_src_pdo_limits(list[1]).ma)
        ELSE Request(best, list[best], mv, IF t.ma \in 1..most THEN t.ma ELSE most)

\* EPR AVS is excepted, for which the code takes amperes for milliamperes
\* (dpm.cpp:173, dobj_utils.cpp:120): such a profile need not be found by the current it
\* gives, and the current that is asked of it is not compared.
Agrees(rdo, t, list) ==
    LET wanted == Wanted(t, list)
    IN  IF list[wanted.obj_position].variant # "APDO_EPR_AVS" THEN rdo = wanted
        ELSE t.ma = 0 \/ t.match_type = "BY_POSITION" =>
               rdo = [wanted EXCEPT !.operating_current = rdo.operating_current]

\* A request that no write of the application overlapped is the one its trigger means,
\* but for the current of EPR AVS.
RequestIsWanted ==
    Awaits /\ memo.fresh => Agrees(port.rdo_to_request, trigger, port.source_caps)

\* When PE is back in Ready, with nothing pending, the contract is what the application
\* asked for last (but for the current of EPR AVS), unless the source said no to it, or
\* its last list was refused, or interrupted a request that DPM had not set; or unless
\* the application's call fell between the reading of the trigger and the answer of a
\* request that was its own or made the first contract.
AtRest == /\ PeRuns /\ pe.state = "Ready" /\ app.at = "idle"
          /\ port.contract /\ ~port.new_power_level /\ ~port.sink_request
LastCallHonoured ==
    AtRest /\ memo.excuse = "none" =>
        Agrees(port.rdo_contracted, trigger, port.source_caps)
=============================================================================
