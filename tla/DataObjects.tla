----------------------------- MODULE DataObjects -----------------------------
(***************************************************************************)
(* Power data objects, request data objects, and the arithmetic between    *)
(* them: src/src/pd/data_objects.h, src/src/pd/utils/dobj_utils.{h,cpp},   *)
(* and PE::validate_source_caps (src/src/pd/pe.cpp).                       *)
(* An object is a record of the fields of its bit layout, in the units of  *)
(* the layout (50 mV, 10 mA, ...); an object of no supported type, or the  *)
(* zero that pads a list, has a variant and nothing else.  Flags that      *)
(* nothing is computed from are left out.  mv, ma: millivolts, milliamps.  *)
(***************************************************************************)
EXTENDS Naturals, Sequences

CONSTANTS
    MaxPdoObjects_SPR,  \* positions from 1 to this one are for SPR profiles (7)
    MaxPdoObjects       \* the length of the longest list (11)

ASSUME PositionsAssumption ==
    /\ MaxPdoObjects_SPR \in Nat \ {0} /\ MaxPdoObjects \in Nat
    /\ MaxPdoObjects_SPR < MaxPdoObjects

PDO_VARIANT == {"UNKNOWN", "FIXED", "APDO_PPS", "APDO_SPR_AVS", "APDO_EPR_AVS"}

PDO_UNKNOWN == [variant |-> "UNKNOWN"]
PDO_FIXED(voltage, max_current) ==
    [variant |-> "FIXED", voltage |-> voltage, max_current |-> max_current]
PDO_SPR_PPS(min_voltage, max_voltage, max_current) ==
    [variant |-> "APDO_PPS", min_voltage |-> min_voltage, max_voltage |-> max_voltage,
     max_current |-> max_current]
PDO_SPR_AVS(max_current_15v, max_current_20v) ==
    [variant |-> "APDO_SPR_AVS", max_current_15v |-> max_current_15v,
     max_current_20v |-> max_current_20v]
PDO_EPR_AVS(min_voltage, max_voltage, pdp) ==
    [variant |-> "APDO_EPR_AVS", min_voltage |-> min_voltage,
     max_voltage |-> max_voltage, pdp |-> pdp]

PDO ==
    {PDO_UNKNOWN}
    \cup [variant : {"FIXED"}, voltage : Nat, max_current : Nat]
    \cup [variant : {"APDO_PPS"}, min_voltage : Nat, max_voltage : Nat, max_current : Nat]
    \cup [variant : {"APDO_SPR_AVS"}, max_current_15v : Nat, max_current_20v : Nat]
    \cup [variant : {"APDO_EPR_AVS"}, min_voltage : Nat, max_voltage : Nat, pdp : Nat]

\* PDO_LIMITS
Limits(mv_min, mv_max, ma, pdp) ==
    [mv_min |-> mv_min, mv_max |-> mv_max, ma |-> ma, pdp |-> pdp]

get_src_pdo_limits(pdo) ==
    IF pdo.variant = "FIXED" THEN
        Limits(pdo.voltage * 50, pdo.voltage * 50, pdo.max_current * 10, 0)
    ELSE IF pdo.variant = "APDO_PPS" THEN
        Limits(pdo.min_voltage * 100, pdo.max_voltage * 100, pdo.max_current * 50, 0)
    ELSE IF pdo.variant = "APDO_SPR_AVS" THEN
        IF pdo.max_current_20v > 0
          THEN Limits(9000, 20000, pdo.max_current_20v * 10, 0)
          ELSE Limits(9000, 15000, pdo.max_current_15v * 10, 0)
    ELSE IF pdo.variant = "APDO_EPR_AVS" THEN
        Limits(pdo.min_voltage * 100, pdo.max_voltage * 100, 0, pdo.pdp)
    ELSE Limits(0, 0, 0, 0)

\* What no code looks at: a range that is not empty, of voltages to be divided by.
SoundPdo(pdo) ==
    LET limits == get_src_pdo_limits(pdo)
    IN  pdo.variant # "UNKNOWN" => 0 < limits.mv_min /\ limits.mv_min <= limits.mv_max

Least(a, b) == IF a < b THEN a ELSE b
Greatest(a, b) == IF a < b THEN b ELSE a

\* etl::clamp, of lo <= hi
Clamp(n, lo, hi) == Least(Greatest(n, lo), hi)

\* The current PD allows at most.
MaxMa == 5000

\* What is taken to be the current of a power in watts at a voltage above 0.
ImpliedMa(pdp, mv) == Least((pdp * 1000) \div mv, MaxMa)

match_limits(pdo, mv, ma) ==
    LET limits == get_src_pdo_limits(pdo)
    IN  /\ pdo.variant # "UNKNOWN"
        /\ limits.mv_min <= mv /\ mv <= limits.mv_max
        /\ \/ ma = 0
           \/ pdo.variant # "APDO_EPR_AVS" /\ ma <= limits.ma
           \/ /\ pdo.variant = "APDO_EPR_AVS"
              /\ limits.pdp = 0 \/ ma <= ImpliedMa(limits.pdp, mv)

-----------------------------------------------------------------------------
(* Request data objects *)

RDO_FIXED(position, ma) ==
    [obj_position |-> position, format |-> "FIXED", output_voltage |-> 0,
     operating_current |-> ma \div 10]
RDO_PPS(position, mv, ma) ==
    [obj_position |-> position, format |-> "PPS", output_voltage |-> mv \div 20,
     operating_current |-> ma \div 50]

\* In steps of 25 mV, of which only each fourth may be used.
RDO_AVS(position, mv, ma) ==
    [obj_position |-> position, format |-> "AVS", output_voltage |-> (mv \div 100) * 4,
     operating_current |-> ma \div 50]

\* set_rdo_limits_fixed, _pps and _avs, as the profile has it
Request(position, pdo, mv, ma) ==
    IF pdo.variant = "FIXED" THEN RDO_FIXED(position, ma)
    ELSE IF pdo.variant = "APDO_PPS" THEN RDO_PPS(position, mv, ma)
    ELSE RDO_AVS(position, mv, ma)

-----------------------------------------------------------------------------
(* PE::validate_source_caps *)

IsEprPdo(pdo) == \/ pdo.variant = "APDO_EPR_AVS"
                 \/ pdo.variant = "FIXED" /\ pdo.voltage > 400

\* All pairs of profiles of one variant, in the order of the list.
Pairs(list, variant) ==
    {p \in (1..Len(list)) \X (1..Len(list)) :
        p[1] < p[2] /\ list[p[1]].variant = variant /\ list[p[2]].variant = variant}

validate_source_caps(list) ==
    /\ Len(list) \in 1..MaxPdoObjects
    /\ list[1].variant = "FIXED" /\ list[1].voltage = 100
    /\ \A i \in 1..Len(list) : IsEprPdo(list[i]) <=> i > MaxPdoObjects_SPR
    /\ Pairs(list, "APDO_SPR_AVS") = {} /\ Pairs(list, "APDO_EPR_AVS") = {}
    /\ \A p \in Pairs(list, "FIXED") : list[p[1]].voltage < list[p[2]].voltage
    /\ \A p \in Pairs(list, "APDO_PPS") : list[p[1]].max_voltage <= list[p[2]].max_voltage
=============================================================================
