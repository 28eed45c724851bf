------------------------------ MODULE DpmProofs ------------------------------
(***************************************************************************)
(* Proofs about DPM: whatever the application writes while PE reads, the   *)
(* request that goes out is within what the source offers; when it writes  *)
(* nothing meanwhile, the request is what the trigger means; and what PE   *)
(* has contracted when it is at rest is what was called for last.          *)
(***************************************************************************)
EXTENDS Dpm, SequenceTheorems, WellFoundedInduction, TLAPS

Range4 == [mv_min : Nat, mv_max : Nat, ma : Nat, pdp : Nat]

LEMMA LimitsAreNumbers ==
    ASSUME NEW pdo \in PDO
    PROVE  get_src_pdo_limits(pdo) \in Range4
<1>1. CASE pdo.variant = "FIXED"
  BY <1>1 DEF PDO, PDO_UNKNOWN, get_src_pdo_limits, Limits, Range4
<1>2. CASE pdo.variant = "APDO_PPS"
  BY <1>2 DEF PDO, PDO_UNKNOWN, get_src_pdo_limits, Limits, Range4
<1>3. CASE pdo.variant = "APDO_SPR_AVS"
  BY <1>3 DEF PDO, PDO_UNKNOWN, get_src_pdo_limits, Limits, Range4
<1>4. CASE pdo.variant = "APDO_EPR_AVS"
  BY <1>4 DEF PDO, PDO_UNKNOWN, get_src_pdo_limits, Limits, Range4
<1>5. CASE pdo.variant = "UNKNOWN"
  BY <1>5 DEF get_src_pdo_limits, Limits, Range4
<1>6. pdo.variant \in PDO_VARIANT
  BY DEF PDO, PDO_UNKNOWN, PDO_VARIANT
<1> QED
  BY <1>1, <1>2, <1>3, <1>4, <1>5, <1>6 DEF PDO_VARIANT

LEMMA ClampIsBetween ==
    ASSUME NEW n \in Nat, NEW lo \in Nat, NEW hi \in Nat, lo <= hi
    PROVE  Clamp(n, lo, hi) \in Nat /\ lo <= Clamp(n, lo, hi) /\ Clamp(n, lo, hi) <= hi
BY DEF Clamp, Least, Greatest

LEMMA Quotient ==
    ASSUME NEW a \in Nat, NEW b \in Nat, b > 0
    PROVE  a \div b \in Nat /\ (a \div b) * b <= a
BY SMT

LEMMA ImpliedFits ==
    ASSUME NEW p \in Nat, NEW v \in Nat, v > 0
    PROVE  ImpliedMa(p, v) \in Nat /\ ImpliedMa(p, v) * v <= p * 1000
<1> DEFINE q == (p * 1000) \div v
<1>1. q \in Nat /\ q * v <= p * 1000
  BY Quotient
<1>2. ImpliedMa(p, v) \in Nat /\ ImpliedMa(p, v) <= q
  BY <1>1 DEF ImpliedMa, Least, MaxMa
<1>3. ImpliedMa(p, v) * v <= q * v
  <2> HIDE DEF q
  <2> QED BY <1>1, <1>2
<1> QED
  BY <1>1, <1>2, <1>3

LEMMA MaLimitIsNumber ==
    ASSUME NEW limits \in Range4, NEW mv \in Nat, mv > 0
    PROVE  MaLimit(limits, mv) \in Nat
BY ImpliedFits DEF MaLimit, Range4, Least, MaxMa

\* The rounding of a voltage downwards does not leave a range whose bounds are
\* multiples of the step.
LEMMA Rounding ==
    ASSUME NEW v \in Nat, NEW m \in Nat
    PROVE  /\ v \div 10 \in Nat /\ (v \div 10) * 10 <= v
           /\ v \div 50 \in Nat /\ (v \div 50) * 50 <= v
           /\ v \div 20 \in Nat /\ (v \div 20) * 20 <= v
           /\ v \div 100 \in Nat /\ (v \div 100) * 4 * 25 <= v
           /\ m * 100 <= v => m * 100 <= (v \div 20) * 20
           /\ m * 100 <= v => m * 100 <= (v \div 100) * 4 * 25
BY SMT

LEMMA Products ==
    ASSUME NEW a \in Nat, NEW b \in Nat, NEW c \in Nat, NEW d \in Nat, a <= c, b <= d
    PROVE  a * b <= c * d
BY SMT

LEMMA OfferedIf ==
    ASSUME NEW list, NEW i \in 1..Len(list), NEW rdo, rdo.obj_position = i,
           list[i].variant # "UNKNOWN", rdo.format = FormatOf[list[i].variant],
           get_src_pdo_limits(list[i]).mv_min <= OutputMv(rdo, list[i]),
           OutputMv(rdo, list[i]) <= get_src_pdo_limits(list[i]).mv_max,
           IF list[i].variant = "APDO_EPR_AVS"
             THEN OutputMv(rdo, list[i]) * OperatingMa(rdo)
                    <= get_src_pdo_limits(list[i]).pdp * (1000 * 1000)
             ELSE OperatingMa(rdo) <= get_src_pdo_limits(list[i]).ma
    PROVE  Offered(rdo, list)
<1> DEFINE pdo == list[i]
           limits == get_src_pdo_limits(pdo)
           mv == OutputMv(rdo, pdo)
           ma == OperatingMa(rdo)
<1>1. IF pdo.variant = "APDO_EPR_AVS" THEN mv * ma <= limits.pdp * (1000 * 1000)
      ELSE ma <= limits.ma
  OBVIOUS
<1>2. /\ i \in 1..Len(list) /\ pdo.variant # "UNKNOWN" /\ rdo.format = FormatOf[pdo.variant]
      /\ limits.mv_min <= mv /\ mv <= limits.mv_max
  OBVIOUS
<1>3. Offered(rdo, list) <=>
        /\ i \in 1..Len(list) /\ pdo.variant # "UNKNOWN" /\ rdo.format = FormatOf[pdo.variant]
        /\ limits.mv_min <= mv /\ mv <= limits.mv_max
        /\ IF pdo.variant = "APDO_EPR_AVS" THEN mv * ma <= limits.pdp * (1000 * 1000)
           ELSE ma <= limits.ma
  BY DEF Offered
<1> HIDE DEF pdo, limits, mv, ma
<1> QED
  BY <1>1, <1>2, <1>3

LEMMA ImpliedIsBounded ==
    ASSUME NEW p \in Nat, NEW u \in Nat, u > 0, NEW v \in Nat, NEW a \in Nat,
           v <= u, a <= ImpliedMa(p, u)
    PROVE  v * a <= p * (1000 * 1000)
<1> DEFINE implied == ImpliedMa(p, u)
<1>1. implied \in Nat /\ implied * u <= p * 1000
  BY ImpliedFits
<1>2. v * a <= u * implied
  <2>1. a <= implied
    OBVIOUS
  <2> HIDE DEF implied
  <2> QED BY <1>1, <2>1, Products
<1>3. v * a \in Nat /\ implied * u \in Nat /\ u * implied = implied * u
  <2> HIDE DEF implied
  <2> QED BY <1>1
<1>4. p * 1000 <= p * (1000 * 1000)
  BY SMT
<1> HIDE DEF implied
<1> QED BY <1>1, <1>2, <1>3, <1>4

\* A voltage and a current of a profile make a request that the profile offers.
LEMMA RequestFits ==
    ASSUME NEW list \in Seq(PDO), NEW i \in 1..Len(list), NEW mv \in Nat, NEW ma \in Nat,
           list[i].variant # "UNKNOWN", SoundPdo(list[i]),
           get_src_pdo_limits(list[i]).mv_min <= mv,
           mv <= get_src_pdo_limits(list[i]).mv_max,
           ma <= MaLimit(get_src_pdo_limits(list[i]), mv)
    PROVE  /\ Request(i, list[i], mv, ma) \in Rdos
           /\ Offered(Request(i, list[i], mv, ma), list)
<1> DEFINE pdo == list[i]
           limits == get_src_pdo_limits(pdo)
           rdo == Request(i, pdo, mv, ma)
<1>0. pdo \in PDO /\ limits \in Range4 /\ mv > 0 /\ i \in Nat
  <2>1. pdo \in PDO
    OBVIOUS
  <2>2. limits \in Range4
    BY <2>1, LimitsAreNumbers
  <2> QED
    BY <2>1, <2>2 DEF SoundPdo, Range4
<1>1. CASE pdo.variant = "FIXED"
  <2>1. limits = Limits(pdo.voltage * 50, pdo.voltage * 50, pdo.max_current * 10, 0)
    BY <1>1 DEF get_src_pdo_limits
  <2>2. pdo.voltage \in Nat /\ pdo.max_current \in Nat
    BY <1>0, <1>1 DEF PDO, PDO_UNKNOWN
  <2>3. rdo = RDO_FIXED(i, ma)
    BY <1>1 DEF Request
  <2>4. ma <= pdo.max_current * 10
    <3>1. CASE pdo.max_current = 0
      <4>1. MaLimit(limits, mv) = ImpliedMa(0, mv)
        BY <2>1, <2>2, <3>1 DEF MaLimit, Limits
      <4>2. ImpliedMa(0, mv) = 0
        BY <1>0, Z3 DEF ImpliedMa, Least, MaxMa
      <4> QED BY <4>1, <4>2, <3>1
    <3>2. CASE pdo.max_current # 0
      BY <2>1, <2>2, <3>2 DEF MaLimit, Limits, Least, MaxMa
    <3> QED BY <3>1, <3>2
  <2>5. rdo \in Rdos
    BY <2>3, <1>0, Rounding DEF RDO_FIXED, Rdos
  <2>6. OutputMv(rdo, pdo) = pdo.voltage * 50
    BY <2>3 DEF OutputMv, RDO_FIXED
  <2>7. OperatingMa(rdo) = (ma \div 10) * 10
    BY <2>3 DEF OperatingMa, RDO_FIXED
  <2>8. OperatingMa(rdo) <= limits.ma
    BY <2>1, <2>2, <2>4, <2>7, Rounding DEF Limits
  <2>9. limits.mv_min <= OutputMv(rdo, pdo) /\ OutputMv(rdo, pdo) <= limits.mv_max
    BY <2>1, <2>2, <2>6 DEF Limits
  <2>10. rdo.obj_position = i /\ rdo.format = FormatOf[pdo.variant]
    BY <1>1, <2>3 DEF RDO_FIXED, FormatOf
  <2> QED
    BY <1>1, <2>5, <2>8, <2>9, <2>10, OfferedIf
<1>2. CASE pdo.variant = "APDO_PPS"
  <2>1. limits = Limits(pdo.min_voltage * 100, pdo.max_voltage * 100,
                        pdo.max_current * 50, 0)
    BY <1>2 DEF get_src_pdo_limits
  <2>2. pdo.min_voltage \in Nat /\ pdo.max_voltage \in Nat /\ pdo.max_current \in Nat
    BY <1>0, <1>2 DEF PDO, PDO_UNKNOWN
  <2>3. rdo = RDO_PPS(i, mv, ma)
    BY <1>2 DEF Request
  <2>4. ma <= pdo.max_current * 50
    <3>1. CASE pdo.max_current = 0
      <4>1. MaLimit(limits, mv) = ImpliedMa(0, mv)
        BY <2>1, <2>2, <3>1 DEF MaLimit, Limits
      <4>2. ImpliedMa(0, mv) = 0
        BY <1>0, Z3 DEF ImpliedMa, Least, MaxMa
      <4> QED BY <4>1, <4>2, <3>1
    <3>2. CASE pdo.max_current # 0
      BY <2>1, <2>2, <3>2 DEF MaLimit, Limits, Least, MaxMa
    <3> QED BY <3>1, <3>2
  <2>5. rdo \in Rdos
    BY <2>3, <1>0, Rounding DEF RDO_PPS, Rdos
  <2>6. OutputMv(rdo, pdo) = (mv \div 20) * 20
    BY <2>3 DEF OutputMv, RDO_PPS
  <2>7. OperatingMa(rdo) = (ma \div 50) * 50
    BY <2>3 DEF OperatingMa, RDO_PPS
  <2>8. limits.mv_min <= OutputMv(rdo, pdo) /\ OutputMv(rdo, pdo) <= limits.mv_max
    <3>1. /\ pdo.min_voltage * 100 <= mv => pdo.min_voltage * 100 <= (mv \div 20) * 20
          /\ (mv \div 20) * 20 <= mv /\ mv \div 20 \in Nat
      BY <2>2, Rounding
    <3>2. limits.mv_min = pdo.min_voltage * 100 /\ limits.mv_max = pdo.max_voltage * 100
      BY <2>1 DEF Limits
    <3>3. pdo.min_voltage * 100 <= mv /\ mv <= pdo.max_voltage * 100
      BY <3>2
    <3> QED BY <2>2, <2>6, <3>1, <3>2, <3>3
  <2>9. OperatingMa(rdo) <= limits.ma
    <3>1. (ma \div 50) * 50 <= ma /\ ma \div 50 \in Nat
      BY Rounding
    <3>2. limits.ma = pdo.max_current * 50
      BY <2>1 DEF Limits
    <3> QED BY <2>2, <2>4, <2>7, <3>1, <3>2
  <2>10. rdo.obj_position = i /\ rdo.format = FormatOf[pdo.variant]
    BY <1>2, <2>3 DEF RDO_PPS, FormatOf
  <2> QED
    BY <1>2, <2>5, <2>8, <2>9, <2>10, OfferedIf
<1>3. CASE pdo.variant = "APDO_SPR_AVS"
  <2> DEFINE k == IF pdo.max_current_20v > 0 THEN pdo.max_current_20v
                  ELSE pdo.max_current_15v
             max == IF pdo.max_current_20v > 0 THEN 20000 ELSE 15000
  <2>1. limits = Limits(9000, max, k * 10, 0)
    BY <1>3 DEF get_src_pdo_limits
  <2>2. k \in Nat /\ max \in Nat
    BY <1>0, <1>3 DEF PDO, PDO_UNKNOWN
  <2> HIDE DEF k, max
  <2>3. rdo = RDO_AVS(i, mv, ma)
    BY <1>3 DEF Request
  <2>4. ma <= k * 10
    <3>1. CASE k = 0
      <4>1. MaLimit(limits, mv) = ImpliedMa(0, mv)
        BY <2>1, <2>2, <3>1 DEF MaLimit, Limits
      <4>2. ImpliedMa(0, mv) = 0
        BY <1>0, Z3 DEF ImpliedMa, Least, MaxMa
      <4> QED BY <4>1, <4>2, <3>1
    <3>2. CASE k # 0
      BY <2>1, <2>2, <3>2 DEF MaLimit, Limits, Least, MaxMa
    <3> QED BY <3>1, <3>2
  <2>5. rdo \in Rdos
    <3>1. mv \div 100 \in Nat /\ ma \div 50 \in Nat
      BY Rounding
    <3> QED BY <2>3, <1>0, <3>1 DEF RDO_AVS, Rdos
  <2>6. OutputMv(rdo, pdo) = (mv \div 100) * 4 * 25
    BY <2>3 DEF OutputMv, RDO_AVS
  <2>7. OperatingMa(rdo) = (ma \div 50) * 50
    BY <2>3 DEF OperatingMa, RDO_AVS
  <2>8. limits.mv_min <= OutputMv(rdo, pdo) /\ OutputMv(rdo, pdo) <= limits.mv_max
    <3>1. 90 * 100 <= mv => 90 * 100 <= (mv \div 100) * 4 * 25
      BY Rounding
    <3>2. (mv \div 100) * 4 * 25 <= mv /\ (mv \div 100) \in Nat
      BY Rounding
    <3> QED BY <2>1, <2>2, <2>6, <3>1, <3>2 DEF Limits
  <2>9. OperatingMa(rdo) <= limits.ma
    BY <2>1, <2>2, <2>4, <2>7, Rounding DEF Limits
  <2>10. rdo.obj_position = i /\ rdo.format = FormatOf[pdo.variant]
    BY <1>3, <2>3 DEF RDO_AVS, FormatOf
  <2> QED
    BY <1>3, <2>5, <2>8, <2>9, <2>10, OfferedIf
<1>4. CASE pdo.variant = "APDO_EPR_AVS"
  <2>1. limits = Limits(pdo.min_voltage * 100, pdo.max_voltage * 100, 0, pdo.pdp)
    BY <1>4 DEF get_src_pdo_limits
  <2>2. pdo.min_voltage \in Nat /\ pdo.max_voltage \in Nat /\ pdo.pdp \in Nat
    BY <1>0, <1>4 DEF PDO, PDO_UNKNOWN
  <2>3. rdo = RDO_AVS(i, mv, ma)
    BY <1>4 DEF Request
  <2>4. ma <= ImpliedMa(pdo.pdp, mv)
    BY <2>1 DEF MaLimit, Limits
  <2>5. rdo \in Rdos
    <3>1. mv \div 100 \in Nat /\ ma \div 50 \in Nat
      BY Rounding
    <3> QED BY <2>3, <1>0, <3>1 DEF RDO_AVS, Rdos
  <2>6. OutputMv(rdo, pdo) = (mv \div 100) * 4 * 25
    BY <2>3 DEF OutputMv, RDO_AVS
  <2>7. OperatingMa(rdo) = (ma \div 50) * 50
    BY <2>3 DEF OperatingMa, RDO_AVS
  <2>8. limits.mv_min <= OutputMv(rdo, pdo) /\ OutputMv(rdo, pdo) <= limits.mv_max
    <3>1. /\ pdo.min_voltage * 100 <= mv => pdo.min_voltage * 100 <= (mv \div 100) * 4 * 25
          /\ (mv \div 100) * 4 * 25 <= mv /\ mv \div 100 \in Nat
      BY <2>2, Rounding
    <3>2. limits.mv_min = pdo.min_voltage * 100 /\ limits.mv_max = pdo.max_voltage * 100
      BY <2>1 DEF Limits
    <3>3. pdo.min_voltage * 100 <= mv /\ mv <= pdo.max_voltage * 100
      BY <3>2
    <3> QED BY <2>2, <2>6, <3>1, <3>2, <3>3
  <2>9. OutputMv(rdo, pdo) * OperatingMa(rdo) <= limits.pdp * (1000 * 1000)
    <3>1. OutputMv(rdo, pdo) \in Nat /\ OutputMv(rdo, pdo) <= mv
      BY <2>6, Rounding
    <3>2. OperatingMa(rdo) \in Nat /\ OperatingMa(rdo) <= ma
      BY <2>7, Rounding
    <3> DEFINE watts == pdo.pdp
               v == OutputMv(rdo, pdo)
               a == OperatingMa(rdo)
    <3>3. watts \in Nat /\ mv > 0 /\ ma <= ImpliedMa(watts, mv)
      BY <1>0, <2>2, <2>4
    <3>4. limits.pdp = pdo.pdp
      BY <2>1 DEF Limits
    <3>5. v * a <= watts * (1000 * 1000)
      <4> HIDE DEF watts, v, a
      <4>1. ImpliedMa(watts, mv) \in Nat
        BY <3>3, ImpliedFits
      <4>2. a <= ImpliedMa(watts, mv)
        BY <3>2, <3>3, <4>1 DEF a
      <4>3. v \in Nat /\ a \in Nat /\ v <= mv
        BY <3>1, <3>2 DEF v, a
      <4>4. mv > 0 /\ watts \in Nat
        BY <3>3
      <4> QED BY ONLY <4>2, <4>3, <4>4, mv \in Nat, ImpliedIsBounded
    <3> QED BY <3>4, <3>5
  <2>10. rdo.obj_position = i /\ rdo.format = FormatOf[pdo.variant]
    BY <1>4, <2>3 DEF RDO_AVS, FormatOf
  <2> QED
    BY <1>4, <2>5, <2>8, <2>9, <2>10, OfferedIf
<1> QED
  BY <1>0, <1>1, <1>2, <1>3, <1>4 DEF PDO, PDO_UNKNOWN

-----------------------------------------------------------------------------
(* The inductive invariant *)

Counts == [calls : 0..MaxTriggers, events : 0..MaxEvents]
Memos == [fresh : BOOLEAN,
          excuse : {"none", "missed", "rejected", "interrupted", "list refused"}]
Apps == [at : {"idle", "writes", "tests", "sets"}, todo : Seq(Fields), target : Triggers]
PeStates == {"Wait_for_Capabilities", "Select_Capability", "Transition_Sink", "Ready"}
Ports == [source_caps : Seq(PDO), contract : BOOLEAN, epr : BOOLEAN,
          new_power_level : BOOLEAN, sink_request : BOOLEAN,
          rdo_to_request : Rdos, rdo_contracted : Rdos]

\* A port whose list has no range that is empty.
SoundPort(p) == p \in Ports /\ \A i \in 1..Len(p.source_caps) : SoundPdo(p.source_caps[i])

\* Positions above 7 are for EPR mode.
FitsMode(p) ==
    validate_source_caps(p.source_caps) /\ Len(p.source_caps) > MaxPdoObjects_SPR => p.epr

IInv ==
    /\ TypeOK
    /\ app.at = "writes" => app.todo # <<>>
    /\ SoundPort(port)
    /\ pe.state # "Wait_for_Capabilities" => FitsMode(port)
    /\ ScanInProfile
    /\ RequestIsOffered

LEMMA InitIsFine == Init => IInv
<1> SUFFICES ASSUME Init PROVE IInv
  OBVIOUS
<1>1. NoRdo \in Rdos
  BY DEF NoRdo, Rdos
<1>2. trigger \in Triggers
  BY DEF Init, Triggers, PDO_VARIANT, MatchTypes
<1>3. app \in Apps /\ app.at # "writes"
  BY <1>2 DEF Init, Apps
<1>4. scan = NoScan /\ NoScan \in [at : ScanPoints, i : Nat, mv : Nat, ma : Nat]
  BY DEF Init, NoScan, ScanPoints
<1>5. /\ pe \in [state : PeStates, active : BOOLEAN, from_caps : BOOLEAN]
      /\ pe.state = "Wait_for_Capabilities"
  BY DEF Init, PeStates
<1>6. port \in Ports /\ port.source_caps = <<>>
  BY <1>1 DEF Init, Ports
<1>7. memo \in Memos
  BY DEF Init, Memos
<1>8. count \in Counts
  BY BoundsAssumption DEF Init, Counts
<1>9. TypeOK
  BY <1>2, <1>3, <1>4, <1>5, <1>6, <1>7, <1>8
  DEF TypeOK, Apps, PeStates, Ports, Memos, Counts
<1>10. SoundPort(port)
  BY <1>6 DEF SoundPort
<1> QED
  BY <1>3, <1>4, <1>5, <1>9, <1>10
  DEF IInv, ScanInProfile, RequestIsOffered, Awaits, NoScan

\* PE goes to a state other than Select_Capability, with a port that is sound.
LEMMA Entered ==
    ASSUME IInv, NEW state \in PeStates \ {"Select_Capability"}, NEW p, SoundPort(p),
           state # "Wait_for_Capabilities" => FitsMode(p),
           PeRuns, Enter(state, p), UNCHANGED <<trigger, app>>,
           memo' \in Memos, count' \in Counts
    PROVE  IInv'
<1>1. scan' = scan /\ scan'.at = "off" /\ port' = p
  BY DEF Enter, PeRuns
<1>2. /\ pe' \in [state : PeStates, active : BOOLEAN, from_caps : BOOLEAN]
      /\ pe'.state = state
  BY DEF Enter, IInv, TypeOK, PeStates
<1>3. TypeOK'
  BY <1>1, <1>2 DEF IInv, TypeOK, SoundPort, Ports, Memos, Counts, PeStates
<1>4. SoundPort(port)' /\ (pe'.state # "Wait_for_Capabilities" => FitsMode(port)')
  BY <1>1, <1>2 DEF SoundPort, FitsMode
<1> QED
  BY <1>1, <1>2, <1>3, <1>4
  DEF IInv, ScanInProfile, RequestIsOffered, Awaits, PeStates

\* PE starts to build a request from a list that fits the mode.
LEMMA Selected ==
    ASSUME IInv, NEW active \in BOOLEAN, NEW from_caps \in BOOLEAN, NEW p, SoundPort(p),
           FitsMode(p), Select(active, from_caps, p), UNCHANGED <<trigger, app>>,
           count' \in Counts
    PROVE  IInv'
<1>1. /\ scan'.at = IF 1 \in 1..Len(p.source_caps) THEN "match_type" ELSE "default"
      /\ scan'.i = 1 /\ scan' \in [at : ScanPoints, i : Nat, mv : Nat, ma : Nat]
  BY DEF Select, Consider, ScanPoints
<1>2. port' = p /\ pe'.state = "Select_Capability"
  BY DEF Select
<1>3. pe' \in [state : PeStates, active : BOOLEAN, from_caps : BOOLEAN]
  BY DEF Select, PeStates
<1>4. memo' \in Memos
  BY DEF Select, Memos
<1>5. TypeOK'
  BY <1>1, <1>2, <1>3, <1>4 DEF IInv, TypeOK, SoundPort, Ports, Memos, Counts, PeStates
<1>6. ScanInProfile'
  BY <1>1, <1>2 DEF ScanInProfile
<1>7. SoundPort(port)' /\ FitsMode(port)'
  BY <1>2 DEF SoundPort, FitsMode
<1> QED
  BY <1>1, <1>5, <1>6, <1>7 DEF IInv, RequestIsOffered, Awaits, PeRuns

\* What the application writes is of the type of the field, and nothing of what PE
\* has chosen depends on it.
LEMMA ApplicationStep == IInv /\ Application => IInv'
<1> SUFFICES ASSUME IInv, Application PROVE IInv'
  OBVIOUS
<1>0. /\ trigger \in Triggers /\ app \in Apps /\ memo \in Memos /\ count \in Counts
      /\ port \in Ports
  BY DEF IInv, TypeOK, Apps, Memos, Counts, Ports
<1>1. /\ UNCHANGED <<scan, pe>>
      /\ port' = port \/ port' = [port EXCEPT !.new_power_level = TRUE]
  BY DEF Application, Trigger, WriteField, TestContract, SetRequest
<1>2. ASSUME trigger' \in Triggers, app' \in Apps, memo' \in Memos, count' \in Counts,
             app'.at = "writes" => app'.todo # <<>>
      PROVE  IInv'
  <2>1. SoundPort(port)' /\ (pe'.state # "Wait_for_Capabilities" => FitsMode(port)')
    BY <1>0, <1>1 DEF IInv, SoundPort, FitsMode, Ports
  <2>2. TypeOK'
    BY <1>1, <1>2, <2>1 DEF IInv, TypeOK, SoundPort, Apps, Memos, Counts, Ports
  <2>3. port'.source_caps = port.source_caps /\ port'.rdo_to_request = port.rdo_to_request
        /\ port'.epr = port.epr
    BY <1>0, <1>1 DEF Ports
  <2>4. ScanInProfile'
    BY <1>1, <2>3 DEF IInv, ScanInProfile, Pdo, PdoLimits
  <2>5. RequestIsOffered'
    BY <1>1, <2>3 DEF IInv, RequestIsOffered, Awaits, PeRuns
  <2> QED
    BY <1>2, <2>1, <2>2, <2>4, <2>5 DEF IInv
<1>3. ASSUME NEW call \in Calls, Trigger(call) PROVE IInv'
  <2>1. app'.at = "writes" /\ app'.todo = call.todo /\ app'.target = call.target
        /\ DOMAIN app' = {"at", "todo", "target"}
    BY <1>3 DEF Trigger
  <2>2. app' \in Apps /\ app'.todo # <<>>
    BY <1>3, CallsAssumption DEF Trigger, Apps
  <2>3. count' \in Counts
    BY <1>0, <1>3, BoundsAssumption DEF Trigger, Counts
  <2> QED
    BY <1>0, <1>2, <1>3, <2>2, <2>3 DEF Trigger
<1>4. CASE WriteField
  <2>1. app.todo \in Seq(Fields) /\ app.todo # <<>> /\ app.target \in Triggers
    BY <1>0, <1>4 DEF IInv, WriteField, Apps
  <2>2. Head(app.todo) \in Fields
    BY <2>1, HeadTailProperties
  <2>3. trigger' \in Triggers
    <3> DEFINE field == Head(app.todo)
    <3>1. trigger' = [trigger EXCEPT ![field] = app.target[field]]
      BY <1>4 DEF WriteField
    <3> HIDE DEF field
    <3>2. field \in Fields
      BY <2>2 DEF field
    <3>3. CASE field = "mv"
      BY <1>0, <2>1, <3>1, <3>3 DEF Triggers
    <3>4. CASE field = "ma"
      BY <1>0, <2>1, <3>1, <3>4 DEF Triggers
    <3>5. CASE field = "variant"
      BY <1>0, <2>1, <3>1, <3>5 DEF Triggers
    <3>6. CASE field = "position"
      BY <1>0, <2>1, <3>1, <3>6 DEF Triggers
    <3>7. CASE field = "match_type"
      BY <1>0, <2>1, <3>1, <3>7 DEF Triggers
    <3> QED
      BY <3>2, <3>3, <3>4, <3>5, <3>6, <3>7 DEF Fields
  <2>4. app' \in Apps /\ (app'.at = "writes" => app'.todo # <<>>)
    <3>1. app' = [app EXCEPT !.todo = Tail(app.todo),
                             !.at = IF Len(app.todo) = 1 THEN "tests" ELSE "writes"]
      BY <1>4 DEF WriteField
    <3>2. app'.todo = Tail(app.todo)
          /\ app'.at = (IF Len(app.todo) = 1 THEN "tests" ELSE "writes")
      BY <1>0, <3>1 DEF Apps
    <3>3. Tail(app.todo) \in Seq(Fields) /\ Len(Tail(app.todo)) = Len(app.todo) - 1
          /\ Len(app.todo) \in Nat
      BY <2>1, HeadTailProperties, LenProperties
    <3>4. Len(app.todo) # 1 => Tail(app.todo) # <<>>
      <4>1. Len(app.todo) # 0 /\ Len(<<>>) = 0
        BY <2>1, EmptySeq
      <4>2. Len(app.todo) # 1 => Len(Tail(app.todo)) # 0
        BY <3>3, <4>1
      <4> QED
        BY <4>1, <4>2, Zenon
    <3> DEFINE rest == Tail(app.todo)
               next == IF Len(app.todo) = 1 THEN "tests" ELSE "writes"
    <3>5. app' \in Apps
      <4>1. rest \in Seq(Fields) /\ next \in {"tests", "writes"}
        BY <3>3
      <4>2. app' = [app EXCEPT !.todo = rest, !.at = next]
        BY <3>1
      <4> HIDE DEF rest, next
      <4> QED BY <1>0, <4>1, <4>2 DEF Apps
    <3> QED
      BY <3>2, <3>4, <3>5, Zenon
  <2>5. memo' \in Memos
    BY <1>0, <1>4 DEF WriteField, Memos
  <2> QED
    BY <1>0, <1>2, <1>4, <2>3, <2>4, <2>5 DEF WriteField
<1>5. CASE TestContract
  <2>1. app' \in Apps /\ app'.at # "writes"
    BY <1>0, <1>5 DEF TestContract, Apps
  <2>2. memo' \in Memos
    BY <1>0, <1>5 DEF TestContract, Memos
  <2> QED
    BY <1>0, <1>2, <1>5, <2>1, <2>2 DEF TestContract
<1>6. CASE SetRequest
  <2>1. app' \in Apps /\ app'.at # "writes"
    BY <1>0, <1>6 DEF SetRequest, Apps
  <2> QED
    BY <1>0, <1>2, <1>6, <2>1 DEF SetRequest
<1> QED
  BY <1>3, <1>4, <1>5, <1>6 DEF Application

LEMMA OnlyScanType ==
    ASSUME TypeOK, UNCHANGED <<trigger, app, pe, port, memo, count>>,
           scan' \in [at : ScanPoints, i : Nat, mv : Nat, ma : Nat]
    PROVE  TypeOK'
<1>1. (trigger \in Triggers)'
      /\ (app \in [at : {"idle", "writes", "tests", "sets"}, todo : Seq(Fields),
                  target : Triggers])'
  BY Zenon DEF TypeOK
<1>2. (pe \in [state : {"Wait_for_Capabilities", "Select_Capability",
                       "Transition_Sink", "Ready"},
              active : BOOLEAN, from_caps : BOOLEAN])'
  BY Zenon DEF TypeOK
<1>3. (port \in [source_caps : Seq(PDO), contract : BOOLEAN, epr : BOOLEAN,
                new_power_level : BOOLEAN, sink_request : BOOLEAN,
                rdo_to_request : Rdos, rdo_contracted : Rdos])'
  BY Zenon DEF TypeOK
<1>4. (memo \in [fresh : BOOLEAN,
                excuse : {"none", "missed", "rejected", "interrupted", "list refused"}])'
      /\ (count \in [calls : 0..MaxTriggers, events : 0..MaxEvents])'
  BY Zenon DEF TypeOK
<1> QED
  BY <1>1, <1>2, <1>3, <1>4, Zenon DEF TypeOK

\* Whatever is read, the profile considered stays one of the list, and the voltage and
\* the current taken are within it.
LEMMA ReadStep == IInv /\ ReadsTrigger => IInv'
<1> SUFFICES ASSUME IInv, ReadsTrigger PROVE IInv'
  OBVIOUS
<1> DEFINE Scans == [at : ScanPoints, i : Nat, mv : Nat, ma : Nat]
<1>0. /\ trigger \in Triggers /\ scan \in Scans /\ scan.at # "off"
      /\ pe.state = "Select_Capability" /\ port \in Ports
      /\ UNCHANGED <<trigger, app, pe, port, memo, count>>
  BY DEF IInv, TypeOK, Ports, ReadsTrigger, ScanInProfile, PassUnknown, ReadMatchType,
     ReadPosition, ReadMatchTypeAgain, ReadVariant, ReadMatchMv, ReadMatchMa, ReadHasMv,
     ReadMv, ReadHasMa, ReadMa
<1>1. ASSUME scan' \in Scans, ScanInProfile', scan'.at # "off" PROVE IInv'
  <2>1. TypeOK'
    BY <1>0, <1>1, OnlyScanType DEF IInv
  <2>2. SoundPort(port)' /\ FitsMode(port)'
    BY <1>0 DEF IInv, SoundPort, FitsMode
  <2> QED
    BY <1>0, <1>1, <2>1, <2>2 DEF IInv, RequestIsOffered, Awaits, PeRuns
<1>2. ASSUME Skip PROVE IInv'
  <2>1. scan' \in Scans /\ scan'.at \in {"match_type", "default"}
        /\ (scan'.at = "match_type" => scan'.i \in 1..Len(port.source_caps))
    BY <1>0, <1>2 DEF Skip, Consider, ScanPoints
  <2>2. ScanInProfile'
    BY <1>0, <2>1 DEF ScanInProfile
  <2> QED
    BY <1>1, <2>1, <2>2
<1> DEFINE Reading == scan.i \in 1..Len(port.source_caps) /\ Pdo.variant # "UNKNOWN"
<1>3. ASSUME NEW pc \in {"position", "by_variant", "variant", "match_mv", "match_ma",
                         "has_mv", "mv"},
             NEW mv \in Nat, Reading, scan' = [scan EXCEPT !.at = pc, !.mv = mv]
      PROVE  IInv'
  <2>1. scan' \in Scans /\ scan'.at = pc /\ scan'.i = scan.i
    BY <1>0, <1>3 DEF ScanPoints
  <2>2. ScanInProfile'
    BY <1>0, <1>3, <2>1 DEF ScanInProfile, Pdo
  <2> QED
    BY <1>1, <2>1, <2>2
<1>4. ASSUME NEW pc \in {"position", "by_variant", "variant", "match_mv", "has_mv"},
             Reading, GoTo(pc)
      PROVE  IInv'
  <2>1. scan.mv \in Nat /\ scan' = [scan EXCEPT !.at = pc, !.mv = scan.mv]
    BY <1>0, <1>4 DEF GoTo
  <2> QED
    BY <1>3, <1>4, <2>1
<1>5. scan.at \notin {"match_type", "default"} => Reading
  BY <1>0 DEF IInv, ScanInProfile
<1>6. scan.at \notin {"match_type", "default"} =>
        /\ PdoLimits \in Range4
        /\ PdoLimits.mv_min \in Nat /\ PdoLimits.mv_max \in Nat
        /\ 0 < PdoLimits.mv_min /\ PdoLimits.mv_min <= PdoLimits.mv_max
  <2> SUFFICES ASSUME Reading
               PROVE  /\ PdoLimits \in Range4
                      /\ PdoLimits.mv_min \in Nat /\ PdoLimits.mv_max \in Nat
                      /\ 0 < PdoLimits.mv_min /\ PdoLimits.mv_min <= PdoLimits.mv_max
    BY <1>5
  <2>1. Pdo \in PDO /\ SoundPdo(Pdo)
    BY <1>0 DEF IInv, SoundPort, Pdo, Ports
  <2>2. PdoLimits \in Range4
    BY <2>1, LimitsAreNumbers DEF PdoLimits
  <2> QED
    BY <2>1, <2>2 DEF PdoLimits, SoundPdo, Range4
<1>7. CASE PassUnknown
  BY <1>2, <1>7 DEF PassUnknown
<1>8. CASE ReadMatchType
  <2>1. Reading
    BY <1>8 DEF IInv, ReadMatchType, ScanInProfile
  <2> QED
    BY <1>4, <1>8, <2>1 DEF ReadMatchType
<1>9. CASE ReadPosition
  BY <1>2, <1>4, <1>5, <1>9 DEF ReadPosition, Provided
<1>10. CASE ReadMatchTypeAgain
  BY <1>4, <1>5, <1>10 DEF ReadMatchTypeAgain
<1>11. CASE ReadVariant
  BY <1>2, <1>4, <1>5, <1>11 DEF ReadVariant, Provided
<1>12. CASE ReadMatchMv
  BY <1>0, <1>3, <1>5, <1>12 DEF ReadMatchMv, Triggers
<1>13. CASE ReadMatchMa
  BY <1>2, <1>4, <1>5, <1>13 DEF ReadMatchMa, Provided
<1>14. ASSUME NEW mv \in Nat, Reading, PdoLimits.mv_min <= mv, mv <= PdoLimits.mv_max,
              scan' = [scan EXCEPT !.at = "has_ma", !.mv = mv]
       PROVE  IInv'
  <2>1. scan' \in Scans /\ scan'.at = "has_ma" /\ scan'.i = scan.i /\ scan'.mv = mv
    BY <1>0, <1>14 DEF ScanPoints
  <2>2. PdoLimits' = PdoLimits /\ Pdo' = Pdo
    BY <1>0, <2>1 DEF PdoLimits, Pdo
  <2>3. ScanInProfile'
    BY <1>0, <1>14, <2>1, <2>2 DEF ScanInProfile
  <2> QED
    BY <1>1, <2>1, <2>3
<1>15. CASE ReadHasMv
  <2>1. CASE trigger.mv # 0
    <3>1. scan.mv \in Nat /\ scan' = [scan EXCEPT !.at = "mv", !.mv = scan.mv]
      BY <1>0, <1>15, <2>1 DEF ReadHasMv
    <3> QED
      BY <1>3, <1>5, <1>15, <3>1 DEF ReadHasMv
  <2>2. CASE trigger.mv = 0
    BY <1>5, <1>6, <1>14, <1>15, <2>2, ClampIsBetween DEF ReadHasMv
  <2> QED
    BY <2>1, <2>2
<1>16. CASE ReadMv
  <2>1. trigger.mv \in Nat
    BY <1>0 DEF Triggers
  <2> QED
    BY <1>5, <1>6, <1>14, <1>16, <2>1, ClampIsBetween DEF ReadMv
<1>17. ASSUME NEW ma \in Nat, scan.at \in {"has_ma", "ma"}, ma <= MaLimit(PdoLimits, scan.mv),
              scan' = [scan EXCEPT !.at = "done", !.ma = ma]
       PROVE  IInv'
  <2>1. scan' \in Scans /\ scan'.at = "done" /\ scan'.i = scan.i
        /\ scan'.mv = scan.mv /\ scan'.ma = ma
    BY <1>0, <1>17 DEF ScanPoints
  <2>2. PdoLimits' = PdoLimits /\ Pdo' = Pdo
    BY <1>0, <2>1 DEF PdoLimits, Pdo
  <2>3. ScanInProfile'
    <3>1. PdoLimits.mv_min <= scan.mv /\ scan.mv <= PdoLimits.mv_max
      BY <1>17 DEF IInv, ScanInProfile
    <3> QED
      BY <1>0, <1>5, <1>17, <2>1, <2>2, <3>1 DEF ScanInProfile
  <2> QED
    BY <1>1, <2>1, <2>3
<1>18. scan.at \in {"has_ma", "ma"} => MaLimit(PdoLimits, scan.mv) \in Nat
  <2>1. scan.at \in {"has_ma", "ma"} => scan.mv \in Nat /\ PdoLimits.mv_min <= scan.mv
    BY <1>0 DEF IInv, ScanInProfile
  <2> QED
    BY <1>6, <2>1, MaLimitIsNumber
<1>19. CASE ReadHasMa
  <2>1. CASE trigger.ma # 0
    <3>1. scan' = [scan EXCEPT !.at = "ma"] /\ scan.at = "has_ma"
      BY <1>19, <2>1 DEF ReadHasMa
    <3>2. scan' \in Scans /\ scan'.at = "ma" /\ scan'.i = scan.i /\ scan'.mv = scan.mv
      BY <1>0, <3>1 DEF ScanPoints
    <3>3. PdoLimits' = PdoLimits /\ Pdo' = Pdo
      BY <1>0, <3>2 DEF PdoLimits, Pdo
    <3>4. ScanInProfile'
      <4>1. PdoLimits.mv_min <= scan.mv /\ scan.mv <= PdoLimits.mv_max
        BY <3>1 DEF IInv, ScanInProfile
      <4> QED
        BY <1>0, <1>5, <3>1, <3>2, <3>3, <4>1 DEF ScanInProfile
    <3> QED
      BY <1>1, <3>2, <3>4
  <2>2. CASE trigger.ma = 0
    <3>1. scan' = [scan EXCEPT !.at = "done", !.ma = MaLimit(PdoLimits, scan.mv)]
          /\ scan.at = "has_ma"
      BY <1>19, <2>2 DEF ReadHasMa
    <3> DEFINE ma == MaLimit(PdoLimits, scan.mv)
    <3>2. ma \in Nat /\ ma <= MaLimit(PdoLimits, scan.mv)
      BY <1>18, <3>1
    <3> QED
      BY <1>17, <3>1, <3>2
  <2> QED
    BY <2>1, <2>2
<1>20. CASE ReadMa
  <2>1. trigger.ma \in Nat
    BY <1>0 DEF Triggers
  <2>2. scan.at = "ma"
        /\ scan' = [scan EXCEPT !.at = "done",
                      !.ma = Least(trigger.ma, MaLimit(PdoLimits, scan.mv))]
    BY <1>20 DEF ReadMa
  <2>3. /\ Least(trigger.ma, MaLimit(PdoLimits, scan.mv)) \in Nat
        /\ Least(trigger.ma, MaLimit(PdoLimits, scan.mv)) <= MaLimit(PdoLimits, scan.mv)
    BY <1>18, <2>1, <2>2 DEF Least
  <2> QED
    BY <1>17, <2>2, <2>3
<1> QED
  BY <1>7, <1>8, <1>9, <1>10, <1>11, <1>12, <1>13, <1>15, <1>16, <1>19, <1>20
  DEF ReadsTrigger

\* The request that leaves is within the profile that it names.
LEMMA SendStep == IInv /\ SendRequest => IInv'
<1> SUFFICES ASSUME IInv, SendRequest PROVE IInv'
  OBVIOUS
<1> DEFINE list == port.source_caps
<1>0. /\ port \in Ports /\ list \in Seq(PDO) /\ list # <<>>
      /\ scan.at \in {"done", "default"} /\ pe.state = "Select_Capability"
      /\ scan.i \in Nat /\ scan.mv \in Nat /\ scan.ma \in Nat
      /\ UNCHANGED <<trigger, app, pe, memo, count>>
      /\ scan' = NoScan
      /\ port' = [port EXCEPT !.rdo_to_request = Rdo, !.sink_request = FALSE]
  BY DEF IInv, TypeOK, Ports, SendRequest, ScanInProfile
<1>1. /\ Rdo \in Rdos
      /\ validate_source_caps(list) =>
           Offered(Rdo, list) /\ (Rdo.obj_position > MaxPdoObjects_SPR => port.epr)
  <2>1. CASE scan.at = "done"
    <3>1. scan.i \in 1..Len(list) /\ list[scan.i].variant # "UNKNOWN"
          /\ PdoLimits.mv_min <= scan.mv /\ scan.mv <= PdoLimits.mv_max
          /\ scan.ma <= MaLimit(PdoLimits, scan.mv)
      BY <2>1 DEF IInv, ScanInProfile, Pdo
    <3>2. SoundPdo(list[scan.i])
      BY <3>1 DEF IInv, SoundPort
    <3>3. Rdo = Request(scan.i, list[scan.i], scan.mv, scan.ma)
      BY <2>1 DEF Rdo, Pdo
    <3>4. Rdo \in Rdos /\ Offered(Rdo, list)
      <4> HIDE DEF list
      <4>1. PdoLimits = get_src_pdo_limits(list[scan.i])
        BY DEF PdoLimits, Pdo, list
      <4> QED
        BY <1>0, <3>1, <3>2, <3>3, <4>1, RequestFits
    <3>5. Rdo.obj_position = scan.i
      BY <3>3 DEF Request, RDO_FIXED, RDO_PPS, RDO_AVS
    <3>6. validate_source_caps(list) => (scan.i > MaxPdoObjects_SPR => port.epr)
      <4>1. validate_source_caps(list) /\ Len(list) > MaxPdoObjects_SPR => port.epr
        BY <1>0 DEF IInv, FitsMode
      <4> QED
        BY <1>0, <3>1, <4>1, PositionsAssumption
    <3> QED
      BY <3>4, <3>5, <3>6
  <2>2. CASE scan.at = "default"
    <3> DEFINE limits == get_src_pdo_limits(list[1])
    <3>1. list[1] \in PDO /\ 1 \in 1..Len(list)
      BY <1>0
    <3>2. limits \in Range4 /\ limits.ma \in Nat
      BY <3>1, LimitsAreNumbers DEF Range4
    <3>3. Rdo = RDO_FIXED(1, limits.ma)
      BY <2>2 DEF Rdo
    <3>4. Rdo \in Rdos
      BY <3>2, <3>3, Rounding DEF RDO_FIXED, Rdos
    <3>5. Rdo.obj_position = 1 /\ ~(1 > MaxPdoObjects_SPR)
      BY <3>3, PositionsAssumption DEF RDO_FIXED
    <3>6. ASSUME validate_source_caps(list) PROVE Offered(Rdo, list)
      <4>1. list[1].variant = "FIXED"
        BY <3>6 DEF validate_source_caps
      <4>2. limits = Limits(list[1].voltage * 50, list[1].voltage * 50,
                            list[1].max_current * 10, 0)
        BY <4>1 DEF get_src_pdo_limits
      <4>3. list[1].voltage \in Nat /\ list[1].max_current \in Nat
        BY <3>1, <4>1 DEF PDO, PDO_UNKNOWN
      <4>4. Rdo.format = "FIXED" /\ OutputMv(Rdo, list[1]) = list[1].voltage * 50
            /\ OperatingMa(Rdo) = (limits.ma \div 10) * 10
        BY <3>3 DEF RDO_FIXED, OutputMv, OperatingMa
      <4>5. OperatingMa(Rdo) <= limits.ma
        BY <3>2, <4>4, Rounding
      <4>6. /\ limits.mv_min <= OutputMv(Rdo, list[1])
            /\ OutputMv(Rdo, list[1]) <= limits.mv_max
        BY <4>2, <4>3, <4>4 DEF Limits
      <4>7. FormatOf[list[1].variant] = "FIXED"
        BY <4>1 DEF FormatOf
      <4> QED
        BY <3>1, <3>5, <4>1, <4>4, <4>5, <4>6, <4>7, OfferedIf
    <3> QED
      BY <3>4, <3>5, <3>6
  <2> QED
    BY <1>0, <2>1, <2>2
<1>2. /\ port' \in Ports /\ port'.source_caps = list /\ port'.epr = port.epr
      /\ port'.rdo_to_request = Rdo
  BY <1>0, <1>1 DEF Ports
<1>3. TypeOK'
  <2>1. scan' \in [at : ScanPoints, i : Nat, mv : Nat, ma : Nat]
    BY <1>0 DEF NoScan, ScanPoints
  <2> QED
    BY <1>0, <1>2, <2>1 DEF IInv, TypeOK, Ports
<1>4. ScanInProfile'
  BY <1>0 DEF ScanInProfile, NoScan
<1>5. SoundPort(port)' /\ FitsMode(port)'
  BY <1>0, <1>2 DEF IInv, SoundPort, FitsMode
<1>6. RequestIsOffered'
  BY <1>1, <1>2 DEF RequestIsOffered
<1> QED
  BY <1>0, <1>3, <1>4, <1>5, <1>6 DEF IInv

LEMMA PeStep ==
    ASSUME IInv,
           \/ Source \/ NothingToRequest \/ ReadyRetry \/ ReadyRequest \/ ReadyRefresh
           \/ EnterEprMode \/ ExitEprMode \/ HardReset \/ SoftReset
    PROVE  IInv'
<1>0. /\ port \in Ports /\ SoundPort(port) /\ memo \in Memos /\ count \in Counts
      /\ pe \in [state : PeStates, active : BOOLEAN, from_caps : BOOLEAN]
      /\ pe.state # "Wait_for_Capabilities" => FitsMode(port)
  BY DEF IInv, TypeOK, SoundPort, Memos, Counts, PeStates
<1>1. Event => count' \in Counts
  BY <1>0, BoundsAssumption DEF Event, Counts
<1>2. ASSUME NEW b \in BOOLEAN
      PROVE  /\ SoundPort([port EXCEPT !.sink_request = b])
             /\ FitsMode(port) => FitsMode([port EXCEPT !.sink_request = b])
             /\ SoundPort([port EXCEPT !.new_power_level = b])
             /\ FitsMode(port) => FitsMode([port EXCEPT !.new_power_level = b])
  BY <1>0 DEF SoundPort, FitsMode, Ports
<1>3. SoundPort(Reset(port)) /\ SoundPort(Settled(port))
      /\ (FitsMode(port) => FitsMode(Settled(port)))
  BY <1>0 DEF SoundPort, FitsMode, Ports, Reset, Settled
<1>4. \A b \in BOOLEAN : SoundPort([port EXCEPT !.epr = b])
  BY <1>0 DEF SoundPort, Ports
<1>5. ASSUME NEW list \in Lists
      PROVE  SoundPort([port EXCEPT !.source_caps = list])
  <2>1. list \in Seq(PDO) /\ \A i \in 1..Len(list) : SoundPdo(list[i])
    BY <1>5, ListsAssumption
  <2> QED
    BY <1>0, <2>1 DEF SoundPort, Ports
<1>6. ASSUME NEW list \in Lists
      PROVE  /\ SoundPort([port EXCEPT !.source_caps = Kept(list)])
             /\ FitsMode([port EXCEPT !.source_caps = Kept(list)])
  <2>1. list \in Seq(PDO) /\ \A i \in 1..Len(list) : SoundPdo(list[i])
    BY <1>6, ListsAssumption
  <2>2. CASE Len(list) > MaxPdoObjects_SPR /\ ~port.epr
    <3>1. /\ Kept(list) = SubSeq(list, 1, MaxPdoObjects_SPR)
          /\ Kept(list) \in Seq(PDO) /\ Len(Kept(list)) = MaxPdoObjects_SPR
          /\ \A i \in 1..Len(Kept(list)) : i \in 1..Len(list) /\ Kept(list)[i] = list[i]
      BY <2>1, <2>2, PositionsAssumption DEF Kept
    <3> DEFINE kept == Kept(list)
               p == [port EXCEPT !.source_caps = kept]
    <3>2. \A i \in 1..Len(kept) : SoundPdo(kept[i])
      BY <2>1, <3>1
    <3>3. kept \in Seq(PDO) /\ ~(Len(kept) > MaxPdoObjects_SPR)
      BY <3>1, PositionsAssumption
    <3> HIDE DEF kept
    <3>4. p \in Ports /\ p.source_caps = kept
      BY <1>0, <3>3 DEF Ports
    <3> HIDE DEF p
    <3>5. SoundPort(p) /\ FitsMode(p)
      BY <3>2, <3>3, <3>4 DEF SoundPort, FitsMode
    <3> QED
      BY <3>5 DEF p, kept
  <2>3. CASE ~(Len(list) > MaxPdoObjects_SPR /\ ~port.epr)
    <3>1. Kept(list) = list
      BY <2>3 DEF Kept
    <3> QED
      BY <1>0, <1>6, <2>1, <2>3, <3>1, <1>5 DEF FitsMode, Ports
  <2> QED
    BY <2>2, <2>3
<1>7. ASSUME NEW list \in Lists, NEW extended \in BOOLEAN,
             SourceCapabilities(list, extended)
      PROVE  IInv'
  <2>1. count' \in Counts /\ UNCHANGED <<trigger, app>> /\ PeRuns
    BY <1>0, <1>1, <1>7 DEF SourceCapabilities
  <2>2. CASE validate_source_caps(list)
    <3>1. Select(pe.active, TRUE, [port EXCEPT !.source_caps = Kept(list)])
      BY <1>7, <2>2 DEF SourceCapabilities
    <3> QED
      BY <1>0, <1>6, <2>1, <3>1, Selected
  <2>3. CASE ~validate_source_caps(list)
    <3>1. Enter("Ready", [port EXCEPT !.source_caps = list])
          /\ memo' = [memo EXCEPT !.excuse = "list refused"]
      BY <1>7, <2>3 DEF SourceCapabilities
    <3>2. memo' \in Memos
      BY <1>0, <3>1 DEF Memos
    <3>3. FitsMode([port EXCEPT !.source_caps = list])
      BY <1>0, <2>3 DEF FitsMode, Ports
    <3>4. "Ready" \in PeStates \ {"Select_Capability"}
      BY DEF PeStates
    <3> QED
      BY <1>5, <2>1, <3>1, <3>2, <3>3, <3>4, Entered
  <2> QED
    BY <2>2, <2>3
<1>8. CASE Accept
  <2> DEFINE p == Settled([port EXCEPT !.contract = TRUE,
                                       !.rdo_contracted = port.rdo_to_request])
  <2>1. SoundPort(p)
    BY <1>0 DEF SoundPort, Ports, Settled
  <2>2. FitsMode(p)
    BY <1>0, <1>8 DEF FitsMode, Ports, Settled, Accept, Awaits
  <2>3. memo' \in Memos
    BY <1>0, <1>8 DEF Accept, Excused, Memos
  <2>4. PeRuns /\ Enter("Transition_Sink", p) /\ UNCHANGED <<trigger, app, count>>
    BY <1>8 DEF Accept, Awaits
  <2> HIDE DEF p
  <2>5. "Transition_Sink" \in PeStates \ {"Select_Capability"}
    BY DEF PeStates
  <2> QED
    BY <1>0, <2>1, <2>2, <2>3, <2>4, <2>5, Entered
<1>9. Refused \in PeStates \ {"Select_Capability"}
  BY DEF Refused, PeStates
<1>10. CASE Reject
  <2>1. PeRuns /\ Enter(Refused, Settled(port)) /\ UNCHANGED <<trigger, app>> /\ Event
        /\ pe.state = "Select_Capability"
        /\ memo' = [memo EXCEPT !.excuse = "rejected"]
    BY <1>10 DEF Reject, Awaits
  <2>2. memo' \in Memos
    BY <1>0, <2>1 DEF Memos
  <2> QED
    BY <1>0, <1>1, <1>3, <1>9, <2>1, <2>2, Entered
<1>11. CASE Wait
  <2>1. PeRuns /\ Enter(Refused, [port EXCEPT !.sink_request = port.contract])
        /\ UNCHANGED <<trigger, app, memo>> /\ Event /\ pe.state = "Select_Capability"
    BY <1>11 DEF Wait, Awaits
  <2>2. port.contract \in BOOLEAN
    BY <1>0 DEF Ports
  <2> QED
    BY <1>0, <1>1, <1>2, <1>9, <2>1, <2>2, Entered
<1>12. CASE Interrupted
  <2> DEFINE state == IF pe.from_caps THEN "Wait_for_Capabilities" ELSE "Ready"
  <2>1. PeRuns /\ Enter(state, port) /\ UNCHANGED <<trigger, app>> /\ Event
        /\ pe.state = "Select_Capability"
    BY <1>12 DEF Interrupted, Awaits
  <2>2. memo' \in Memos
    BY <1>0, <1>12 DEF Interrupted, Memos
  <2>3. state \in PeStates \ {"Select_Capability"}
    BY DEF PeStates
  <2> HIDE DEF state
  <2> QED
    BY <1>0, <1>1, <2>1, <2>2, <2>3, Entered
<1>13. CASE PowerReady
  <2>1. "Ready" \in PeStates \ {"Select_Capability"}
    BY DEF PeStates
  <2> QED
    BY <1>0, <1>13, <2>1, Entered DEF PowerReady
<1>14. CASE ReadyRetry
  BY <1>0, <1>2, <1>14, Selected DEF ReadyRetry, Ready
<1>15. CASE ReadyRequest
  BY <1>0, <1>15, Selected DEF ReadyRequest, Ready
<1>16. CASE ReadyRefresh
  BY <1>0, <1>16, Selected DEF ReadyRefresh, Ready
<1>17. "Wait_for_Capabilities" \in PeStates \ {"Select_Capability"}
  BY DEF PeStates
<1>18. CASE EnterEprMode
  BY <1>0, <1>1, <1>4, <1>17, <1>18, Entered DEF EnterEprMode, Ready
<1>19. CASE ExitEprMode
  <2> DEFINE p == IF port.rdo_contracted.obj_position <= MaxPdoObjects_SPR
                    THEN [port EXCEPT !.epr = FALSE] ELSE Reset(port)
  <2>1. SoundPort(p)
    BY <1>3, <1>4
  <2>2. PeRuns /\ Enter("Wait_for_Capabilities", p) /\ UNCHANGED <<trigger, app, memo>>
        /\ Event
    BY <1>19 DEF ExitEprMode, Ready
  <2> HIDE DEF p
  <2> QED
    BY <1>0, <1>1, <1>17, <2>1, <2>2, Entered
<1>20. CASE HardReset
  BY <1>0, <1>1, <1>3, <1>17, <1>20, Entered DEF HardReset
<1>21. CASE SoftReset
  BY <1>0, <1>1, <1>17, <1>21, Entered DEF SoftReset
<1>22. CASE NothingToRequest
  <2>1. /\ pe' \in [state : PeStates, active : BOOLEAN, from_caps : BOOLEAN]
        /\ pe'.state = "Wait_for_Capabilities"
    BY <1>0, <1>22 DEF NothingToRequest, PeStates
  <2>2. port' = Reset(port) /\ scan' = NoScan /\ UNCHANGED <<trigger, app, memo, count>>
    BY <1>22 DEF NothingToRequest
  <2>3. SoundPort(port)'
    BY <1>3, <2>2 DEF SoundPort
  <2>4. TypeOK'
    <3>1. scan' \in [at : ScanPoints, i : Nat, mv : Nat, ma : Nat]
      BY <2>2 DEF NoScan, ScanPoints
    <3> QED
      BY <2>1, <2>2, <2>3, <3>1 DEF IInv, TypeOK, SoundPort, Ports, PeStates
  <2> QED
    BY <2>1, <2>2, <2>3, <2>4
    DEF IInv, ScanInProfile, NoScan, RequestIsOffered, Awaits
<1> QED
  BY <1>7, <1>8, <1>10, <1>11, <1>12, <1>13, <1>14, <1>15, <1>16, <1>18, <1>19, <1>20,
     <1>21, <1>22
  DEF Source

\* IInv is inductive.
LEMMA Inductive == IInv /\ [Next]_vars => IInv'
<1> SUFFICES ASSUME IInv, [Next]_vars PROVE IInv'
  OBVIOUS
<1>1. CASE UNCHANGED vars
  <2>1. /\ trigger' = trigger /\ app' = app /\ scan' = scan /\ pe' = pe
        /\ port' = port /\ memo' = memo /\ count' = count
    BY <1>1 DEF vars
  <2>2. TypeOK'
    <3>1. trigger' \in Triggers /\ app' \in Apps
      BY <2>1, Zenon DEF IInv, TypeOK, Apps
    <3>2. /\ scan' \in [at : ScanPoints, i : Nat, mv : Nat, ma : Nat]
          /\ pe' \in [state : PeStates, active : BOOLEAN, from_caps : BOOLEAN]
      BY <2>1, Zenon DEF IInv, TypeOK, PeStates
    <3>3. port' \in Ports /\ memo' \in Memos /\ count' \in Counts
      BY <2>1, Zenon DEF IInv, TypeOK, Ports, Memos, Counts
    <3> QED
      BY <3>1, <3>2, <3>3 DEF TypeOK, Apps, PeStates, Ports, Memos, Counts
  <2>6. SoundPort(port)'
    BY <2>1 DEF IInv, SoundPort
  <2>7. (pe.state # "Wait_for_Capabilities" => FitsMode(port))'
    BY <2>1 DEF IInv, FitsMode
  <2>3. ScanInProfile'
    BY <2>1 DEF IInv, ScanInProfile, Pdo, PdoLimits
  <2>4. RequestIsOffered'
    BY <2>1 DEF IInv, RequestIsOffered, Awaits, PeRuns
  <2>5. (app.at = "writes" => app.todo # <<>>)'
    BY <2>1 DEF IInv
  <2> QED
    BY <2>2, <2>3, <2>4, <2>5, <2>6, <2>7 DEF IInv
<1>2. CASE Next
  BY <1>2, ApplicationStep, ReadStep, SendStep, PeStep DEF Next
<1> QED
  BY <1>1, <1>2

\* The variables of the trigger, of the scan, of PE and of the port have their types.
THEOREM TypeCorrect == Spec => []TypeOK
<1>1. IInv => TypeOK
  BY DEF IInv
<1> QED
  BY <1>1, InitIsFine, Inductive, PTL DEF Spec

\* The scan of get_request_data_object stays within the list, and within the profile it
\* has chosen, however the trigger changes under it.
THEOREM ScanStaysInProfile == Spec => []ScanInProfile
<1>1. IInv => ScanInProfile
  BY DEF IInv
<1> QED
  BY <1>1, InitIsFine, Inductive, PTL DEF Spec

\* What is sent in PE_SNK_Select_Capability asks for what the source offers, for every
\* list of sound profiles and every sequence of calls.
THEOREM RequestsAreOffered == Spec => []RequestIsOffered
<1>1. IInv => RequestIsOffered
  BY DEF IInv
<1> QED
  BY <1>1, InitIsFine, Inductive, PTL DEF Spec
-----------------------------------------------------------------------------
(* What a request was built from *)

\* What the code makes of a trigger: as Suits and Wanted have it, but with its own test of
\* a profile and its own current.
Matches(t, list, i) ==
    /\ list[i].variant # "UNKNOWN"
    /\ IF t.match_type = "BY_POSITION" THEN i = t.position
       ELSE /\ t.match_type = "BY_PDO_VARIANT" => list[i].variant = t.variant
            /\ match_limits(list[i], t.mv, t.ma)

Made(t, list) ==
    LET matching == {i \in 1..Len(list) : Matches(t, list, i)}
        first == CHOOSE i \in matching : \A j \in matching : i <= j
        limits == get_src_pdo_limits(list[first])
        mv == Nearest(t.mv, limits)
        most == MaLimit(limits, mv)
    IN  IF matching = {} THEN RDO_FIXED(1, get_src_pdo_limits(list[1]).ma)
        ELSE Request(first, list[first], mv, IF t.ma \in 1..most THEN t.ma ELSE most)

\* What a scan s of a list for the trigger t knows: no profile before the one under
\* consideration suits the trigger, what has been read of it is what it says, and what
\* has been chosen is what it means.
Chosen == {"has_mv", "mv", "has_ma", "ma", "done"}
Progress(s, list, t) ==
    /\ s.at # "default" => \A j \in 1..(s.i - 1) : ~Matches(t, list, j)
    /\ s.at = "default" => \A j \in 1..Len(list) : ~Matches(t, list, j)
    /\ s.at = "position" => t.match_type = "BY_POSITION"
    /\ s.at \in {"by_variant", "variant", "match_mv", "match_ma"} =>
         t.match_type # "BY_POSITION"
    /\ s.at = "variant" => t.match_type = "BY_PDO_VARIANT"
    /\ s.at \in {"match_mv", "match_ma"} =>
         (t.match_type = "BY_PDO_VARIANT" => list[s.i].variant = t.variant)
    /\ s.at = "match_ma" => s.mv = t.mv
    /\ s.at \in Chosen => Matches(t, list, s.i)
    /\ s.at = "mv" => t.mv # 0
    /\ s.at \in {"has_ma", "ma", "done"} =>
         s.mv = Nearest(t.mv, get_src_pdo_limits(list[s.i]))
    /\ s.at = "ma" => t.ma # 0
    /\ s.at = "done" =>
         s.ma = LET most == MaLimit(get_src_pdo_limits(list[s.i]), s.mv)
                IN  IF t.ma \in 1..most THEN t.ma ELSE most

\* The scan under way reads one trigger throughout, or the request is made of it.
FreshInv ==
    memo.fresh /\ pe.state = "Select_Capability" =>
        IF scan.at = "off" THEN port.rdo_to_request = Made(trigger, port.source_caps)
        ELSE Progress(scan, port.source_caps, trigger)

\* A trigger written since the request at hand was begun is waiting to be taken; the
\* contract is of a trigger that has not been written since, unless something is due.
HonourInv ==
    /\ ~memo.fresh /\ app.at = "idle" /\ memo.excuse = "none"
         /\ (port.contract \/ pe.state = "Select_Capability") => port.new_power_level
    /\ memo.fresh /\ memo.excuse = "none" /\ port.contract
         /\ (\/ pe.state = "Transition_Sink"
             \/ pe.state = "Ready" /\ ~port.sink_request /\ ~port.new_power_level)
         => port.rdo_contracted = Made(trigger, port.source_caps)
    /\ pe.state = "Select_Capability" /\ pe.active /\ ~pe.from_caps => port.new_power_level

\* The voltage nearest to the one asked for is the one clamped.
LEMMA NearestIsClamp ==
    ASSUME NEW limits \in Range4, limits.mv_min <= limits.mv_max, NEW mv \in Nat
    PROVE  Nearest(mv, limits) =
             Clamp(IF mv = 0 THEN limits.mv_min ELSE mv, limits.mv_min, limits.mv_max)
<1> DEFINE lo == limits.mv_min
           hi == limits.mv_max
           c == Clamp(mv, lo, hi)
           allowed == {v \in {mv, lo, hi} : lo <= v /\ v <= hi}
           Closest(v) == \A w \in allowed : Distance(v, mv) <= Distance(w, mv)
<1>1. lo \in Nat /\ hi \in Nat /\ lo <= hi
  BY DEF Range4
<1>2. CASE mv = 0
  <2>1. Nearest(mv, limits) = lo
    BY <1>2 DEF Nearest
  <2> QED BY <1>1, <1>2, <2>1 DEF Clamp, Least, Greatest
<1>3. CASE mv # 0
  <2>1. c \in allowed /\ Closest(c)
    BY <1>1 DEF Clamp, Least, Greatest, Distance
  <2>2. ASSUME NEW v \in allowed, Closest(v) PROVE v = c
    <3>1. v \in Nat /\ lo <= v /\ v <= hi
      BY <1>1
    <3>2. Distance(v, mv) <= Distance(c, mv)
      BY <2>1, <2>2
    <3> QED BY <1>1, <3>1, <3>2 DEF Clamp, Least, Greatest, Distance
  <2>3. Nearest(mv, limits) = CHOOSE v \in allowed : Closest(v)
    BY <1>3, Zenon DEF Nearest
  <2> HIDE DEF c, allowed, Closest
  <2>4. (CHOOSE v \in allowed : Closest(v)) = c
    BY <2>1, <2>2, Zenon
  <2> QED BY <1>3, <2>3, <2>4 DEF c
<1> QED BY <1>2, <1>3

\* What a trigger means, once the first profile that suits it is known, or there is none.
LEMMA MadeIs ==
    ASSUME NEW list \in Seq(PDO), NEW t \in Triggers, NEW i \in 1..Len(list),
           Matches(t, list, i), \A j \in 1..(i - 1) : ~Matches(t, list, j)
    PROVE  LET limits == get_src_pdo_limits(list[i])
               mv == Nearest(t.mv, limits)
               most == MaLimit(limits, mv)
           IN  Made(t, list) =
                 Request(i, list[i], mv, IF t.ma \in 1..most THEN t.ma ELSE most)
<1> DEFINE suitable == {j \in 1..Len(list) : Matches(t, list, j)}
           First(k) == \A j \in suitable : k <= j
           best == CHOOSE k \in suitable : First(k)
<1>1. i \in suitable /\ First(i)
  OBVIOUS
<1>2. ASSUME NEW k \in suitable, First(k) PROVE k = i
  BY <1>1, <1>2
<1>3. best = i
  <2> HIDE DEF suitable, First
  <2> QED BY <1>1, <1>2, Zenon
<1>4. suitable # {}
  BY <1>1
<1> QED
  <2> DEFINE limits(k) == get_src_pdo_limits(list[k])
             mv(k) == Nearest(t.mv, limits(k))
             most(k) == MaLimit(limits(k), mv(k))
  <2>1. Made(t, list) = Request(best, list[best], mv(best),
                             IF t.ma \in 1..most(best) THEN t.ma ELSE most(best))
    BY <1>4, Zenon DEF Made
  <2> HIDE DEF best
  <2> QED BY <1>3, <2>1, Zenon

LEMMA MadeIsDefault ==
    ASSUME NEW list, NEW t, \A j \in 1..Len(list) : ~Matches(t, list, j)
    PROVE  Made(t, list) = RDO_FIXED(1, get_src_pdo_limits(list[1]).ma)
<1>1. {j \in 1..Len(list) : Matches(t, list, j)} = {}
  OBVIOUS
<1> QED BY <1>1, Zenon DEF Made

\* Each read of the trigger, while nobody writes it.
LEMMA ReadFresh == IInv /\ FreshInv /\ ReadsTrigger => FreshInv'
<1> SUFFICES ASSUME IInv, FreshInv, ReadsTrigger, memo.fresh PROVE FreshInv'
  BY DEF FreshInv, ReadsTrigger
<1> DEFINE list == port.source_caps
           t == trigger
           Scans == [at : ScanPoints, i : Nat, mv : Nat, ma : Nat]
<1>0. /\ t \in Triggers /\ scan \in Scans /\ list \in Seq(PDO)
      /\ pe.state = "Select_Capability" /\ scan.at \notin {"off", "default"}
      /\ UNCHANGED <<trigger, pe, port, memo>>
  BY DEF IInv, TypeOK, ReadsTrigger, ScanInProfile, PassUnknown, ReadMatchType,
     ReadPosition, ReadMatchTypeAgain, ReadVariant, ReadMatchMv, ReadMatchMa, ReadHasMv,
     ReadMv, ReadHasMa, ReadMa
<1>1. /\ Progress(scan, list, t) /\ scan.i \in 1..Len(list) /\ Len(list) \in Nat
      /\ scan.at # "match_type" => list[scan.i].variant # "UNKNOWN"
  BY <1>0 DEF FreshInv, IInv, ScanInProfile, Pdo
<1>2. ASSUME scan'.at # "off", Progress(scan', list, t) PROVE FreshInv'
  BY <1>0, <1>2 DEF FreshInv
<1> DEFINE limits == get_src_pdo_limits(list[scan.i])
<1>3. /\ limits \in Range4 /\ PdoLimits = limits /\ Pdo = list[scan.i]
      /\ scan.at # "match_type" => limits.mv_min <= limits.mv_max
  <2>1. list[scan.i] \in PDO /\ SoundPdo(list[scan.i])
    BY <1>0, <1>1 DEF IInv, SoundPort
  <2> QED BY <1>1, <2>1, LimitsAreNumbers DEF SoundPdo, PdoLimits, Pdo
<1>4. /\ t.mv \in Nat /\ t.ma \in Nat /\ t.match_type \in MatchTypes
      /\ scan.i \in Nat /\ scan.mv \in Nat /\ scan.ma \in Nat
  BY <1>0 DEF Triggers
<1> HIDE DEF t, list, limits
<1>5. ASSUME Skip, ~Matches(t, list, scan.i) PROVE FreshInv'
  <2>1. scan' = Consider(list, scan.i + 1)
    BY <1>5 DEF Skip, list
  <2>2. scan'.i = scan.i + 1 /\ scan'.at \in {"match_type", "default"}
        /\ (scan'.at = "default" => scan.i = Len(list))
    BY <1>1, <1>4, <2>1 DEF Consider
  <2>3. \A j \in 1..scan.i : ~Matches(t, list, j)
    BY <1>0, <1>1, <1>4, <1>5 DEF Progress
  <2>4. Progress(scan', list, t)
    BY <1>1, <1>4, <2>2, <2>3 DEF Progress, Chosen
  <2> QED BY <1>2, <2>2, <2>4
<1>6. ASSUME NEW pc \in ScanPoints \ {"off", "default"}, GoTo(pc)
      PROVE  scan' \in Scans /\ scan'.at = pc /\ scan'.i = scan.i /\ scan'.mv = scan.mv
             /\ scan'.ma = scan.ma
  BY <1>0, <1>6 DEF GoTo
<1>7. CASE PassUnknown
  BY <1>3, <1>5, <1>7 DEF PassUnknown, Matches
<1>8. CASE ReadMatchType
  <2>1. Progress(scan', list, t) /\ scan'.at # "off"
    BY <1>0, <1>1, <1>6, <1>8 DEF ReadMatchType, Progress, Chosen, ScanPoints, t
  <2> QED BY <1>2, <2>1
<1>9. CASE ReadPosition
  <2>1. scan.at = "position" /\ t.match_type = "BY_POSITION"
        /\ list[scan.i].variant # "UNKNOWN"
    BY <1>1, <1>9 DEF ReadPosition, Progress
  <2>2. CASE scan.i = t.position
    <3>1. Matches(t, list, scan.i)
      BY <2>1, <2>2 DEF Matches
    <3>2. GoTo("has_mv")
      BY <1>9, <2>2 DEF ReadPosition, Provided, t
    <3>3. Progress(scan', list, t) /\ scan'.at # "off"
      BY <1>1, <1>6, <2>1, <3>1, <3>2 DEF Progress, Chosen, ScanPoints
    <3> QED BY <1>2, <3>3
  <2>3. CASE scan.i # t.position
    <3>1. ~Matches(t, list, scan.i)
      BY <2>1, <2>3 DEF Matches
    <3> QED BY <1>5, <1>9, <2>3, <3>1 DEF ReadPosition, Provided, t
  <2> QED BY <2>2, <2>3
<1>10. CASE ReadMatchTypeAgain
  <2>1. Progress(scan', list, t) /\ scan'.at # "off"
    BY <1>0, <1>1, <1>6, <1>10 DEF ReadMatchTypeAgain, Progress, Chosen, ScanPoints, t
  <2> QED BY <1>2, <2>1
<1>11. CASE ReadVariant
  <2>1. scan.at = "variant" /\ t.match_type = "BY_PDO_VARIANT"
    BY <1>1, <1>11 DEF ReadVariant, Progress
  <2>2. CASE list[scan.i].variant = t.variant
    <3>1. GoTo("match_mv")
      BY <1>3, <1>11, <2>2 DEF ReadVariant, Provided, t
    <3>2. Progress(scan', list, t) /\ scan'.at # "off"
      BY <1>1, <1>6, <2>1, <2>2, <3>1 DEF Progress, Chosen, ScanPoints
    <3> QED BY <1>2, <3>2
  <2>3. CASE list[scan.i].variant # t.variant
    <3>1. ~Matches(t, list, scan.i)
      BY <2>1, <2>3 DEF Matches
    <3> QED BY <1>3, <1>5, <1>11, <2>3, <3>1 DEF ReadVariant, Provided, t
  <2> QED BY <2>2, <2>3
<1>12. CASE ReadMatchMv
  <2>1. scan.at = "match_mv" /\ scan'.at = "match_ma" /\ scan'.i = scan.i /\ scan'.mv = t.mv
    BY <1>0, <1>12 DEF ReadMatchMv, t
  <2>2. Progress(scan', list, t)
    BY <1>1, <2>1 DEF Progress, Chosen
  <2> QED BY <1>2, <2>1, <2>2
<1>13. CASE ReadMatchMa
  <2>1. /\ scan.at = "match_ma" /\ scan.mv = t.mv /\ t.match_type # "BY_POSITION"
        /\ t.match_type = "BY_PDO_VARIANT" => list[scan.i].variant = t.variant
        /\ list[scan.i].variant # "UNKNOWN"
    BY <1>1, <1>13 DEF ReadMatchMa, Progress
  <2>2. CASE match_limits(list[scan.i], t.mv, t.ma)
    <3>1. Matches(t, list, scan.i)
      BY <2>1, <2>2 DEF Matches
    <3>2. GoTo("has_mv")
      BY <1>3, <1>13, <2>1, <2>2 DEF ReadMatchMa, Provided, t
    <3>3. Progress(scan', list, t) /\ scan'.at # "off"
      BY <1>1, <1>6, <2>1, <3>1, <3>2 DEF Progress, Chosen, ScanPoints
    <3> QED BY <1>2, <3>3
  <2>3. CASE ~match_limits(list[scan.i], t.mv, t.ma)
    <3>1. ~Matches(t, list, scan.i)
      BY <2>1, <2>3 DEF Matches
    <3> QED BY <1>3, <1>5, <1>13, <2>1, <2>3, <3>1 DEF ReadMatchMa, Provided, t
  <2> QED BY <2>2, <2>3
<1>14. ASSUME scan.at \in {"has_mv", "mv"}, NEW mv, mv = Nearest(t.mv, limits),
              scan' = [scan EXCEPT !.at = "has_ma", !.mv = mv]
       PROVE  FreshInv'
  <2>1. scan'.at = "has_ma" /\ scan'.i = scan.i /\ scan'.mv = mv
    BY <1>0, <1>14
  <2>2. Progress(scan', list, t)
    BY <1>1, <1>14, <2>1 DEF Progress, Chosen, limits
  <2> QED BY <1>2, <2>1, <2>2
<1>15. CASE ReadHasMv
  <2>1. scan.at = "has_mv"
    BY <1>15 DEF ReadHasMv
  <2>2. CASE t.mv = 0
    <3>1. Nearest(t.mv, limits) = Clamp(limits.mv_min, limits.mv_min, limits.mv_max)
      BY <1>3, <1>4, <2>1, <2>2, NearestIsClamp
    <3> QED BY <1>3, <1>14, <1>15, <2>1, <2>2, <3>1 DEF ReadHasMv, t
  <2>3. CASE t.mv # 0
    <3>1. scan'.at = "mv" /\ scan'.i = scan.i
      BY <1>0, <1>15, <2>3 DEF ReadHasMv, t
    <3>2. Progress(scan', list, t)
      BY <1>1, <2>1, <2>3, <3>1 DEF Progress, Chosen
    <3> QED BY <1>2, <3>1, <3>2
  <2> QED BY <2>2, <2>3
<1>16. CASE ReadMv
  <2>1. scan.at = "mv" /\ t.mv # 0
    BY <1>1, <1>16 DEF ReadMv, Progress
  <2>2. Nearest(t.mv, limits) = Clamp(t.mv, limits.mv_min, limits.mv_max)
    BY <1>3, <1>4, <2>1, NearestIsClamp
  <2> QED BY <1>3, <1>14, <1>16, <2>1, <2>2 DEF ReadMv, t
<1> DEFINE most == MaLimit(limits, scan.mv)
<1>17. scan.at \in {"has_ma", "ma"} => most \in Nat
  <2>1. scan.at \in {"has_ma", "ma"} => scan.mv > 0
    <3>1. SoundPdo(list[scan.i])
      BY <1>0, <1>1 DEF IInv, SoundPort, list
    <3>2. scan.at \in {"has_ma", "ma"} => 0 < limits.mv_min /\ limits.mv_min <= scan.mv
      BY <1>1, <1>3, <3>1 DEF IInv, ScanInProfile, SoundPdo, limits
    <3> QED BY <1>3, <1>4, <3>2 DEF Range4
  <2> QED BY <1>3, <1>4, <2>1, MaLimitIsNumber
<1>18. ASSUME scan.at \in {"has_ma", "ma"}, NEW ma,
              ma = (IF t.ma \in 1..most THEN t.ma ELSE most),
              scan' = [scan EXCEPT !.at = "done", !.ma = ma]
       PROVE  FreshInv'
  <2>1. scan'.at = "done" /\ scan'.i = scan.i /\ scan'.mv = scan.mv /\ scan'.ma = ma
    BY <1>0, <1>18
  <2>2. Progress(scan', list, t)
    BY <1>1, <1>18, <2>1 DEF Progress, Chosen, limits
  <2> QED BY <1>2, <2>1, <2>2
<1>19. CASE ReadHasMa
  <2>1. scan.at = "has_ma"
    BY <1>19 DEF ReadHasMa
  <2>2. CASE t.ma = 0
    <3>1. scan' = [scan EXCEPT !.at = "done", !.ma = most]
      BY <1>3, <1>19, <2>2 DEF ReadHasMa, t
    <3>2. most = (IF t.ma \in 1..most THEN t.ma ELSE most)
      BY <2>2
    <3> HIDE DEF most
    <3> QED BY <1>18, <2>1, <3>1, <3>2
  <2>3. CASE t.ma # 0
    <3>1. scan'.at = "ma" /\ scan'.i = scan.i /\ scan'.mv = scan.mv
      BY <1>0, <1>19, <2>3 DEF ReadHasMa, t
    <3>2. Progress(scan', list, t)
      BY <1>1, <2>1, <2>3, <3>1 DEF Progress, Chosen
    <3> QED BY <1>2, <3>1, <3>2
  <2> QED BY <2>2, <2>3
<1>20. CASE ReadMa
  <2>1. scan.at = "ma" /\ t.ma # 0 /\ t.ma \in Nat
    BY <1>1, <1>4, <1>20 DEF ReadMa, Progress
  <2>2. scan' = [scan EXCEPT !.at = "done", !.ma = Least(t.ma, most)]
    BY <1>3, <1>20 DEF ReadMa, t
  <2>3. most \in Nat
    BY <1>17, <2>1
  <2> HIDE DEF most
  <2>4. Least(t.ma, most) = (IF t.ma \in 1..most THEN t.ma ELSE most)
    BY <2>1, <2>3 DEF Least
  <2> QED BY <1>18, <2>1, <2>2, <2>4
<1> QED
  BY <1>7, <1>8, <1>9, <1>10, <1>11, <1>12, <1>13, <1>15, <1>16, <1>19, <1>20
  DEF ReadsTrigger

\* The request that leaves is what the trigger means.
LEMMA SendFresh == IInv /\ FreshInv /\ SendRequest => FreshInv'
<1> SUFFICES ASSUME IInv, FreshInv, SendRequest, memo.fresh PROVE FreshInv'
  BY DEF FreshInv, SendRequest
<1> DEFINE list == port.source_caps
<1>0. /\ pe.state = "Select_Capability" /\ scan.at \in {"done", "default"}
      /\ list \in Seq(PDO) /\ trigger \in Triggers /\ UNCHANGED <<trigger, pe, memo>>
      /\ scan'.at = "off"
      /\ port'.source_caps = list /\ port'.rdo_to_request = Rdo
  BY DEF IInv, TypeOK, ScanInProfile, SendRequest, NoScan
<1>1. Progress(scan, list, trigger)
  BY <1>0 DEF FreshInv
<1>2. Rdo = Made(trigger, list)
  <2> HIDE DEF list
  <2>1. CASE scan.at = "done"
    <3> DEFINE limits == get_src_pdo_limits(list[scan.i])
               most == MaLimit(limits, scan.mv)
    <3>1. /\ Matches(trigger, list, scan.i) /\ \A j \in 1..(scan.i - 1) : ~Matches(trigger, list, j)
          /\ scan.mv = Nearest(trigger.mv, limits)
          /\ scan.ma = (IF trigger.ma \in 1..most THEN trigger.ma ELSE most)
      BY <1>1, <2>1 DEF Progress, Chosen
    <3>2. scan.i \in 1..Len(list)
      BY <2>1 DEF IInv, ScanInProfile, list
    <3>3. Rdo = Request(scan.i, list[scan.i], scan.mv, scan.ma)
      BY <2>1 DEF Rdo, Pdo, list
    <3>4. Made(trigger, list) = Request(scan.i, list[scan.i], scan.mv, scan.ma)
      BY <1>0, <3>1, <3>2, MadeIs
    <3> QED BY <3>3, <3>4
  <2>2. CASE scan.at = "default"
    <3>1. \A j \in 1..Len(list) : ~Matches(trigger, list, j)
      BY <1>1, <2>2 DEF Progress
    <3> QED BY <2>2, <3>1, MadeIsDefault DEF Rdo, list
  <2> QED BY <1>0, <2>1, <2>2
<1> QED BY <1>0, <1>2 DEF FreshInv

LEMMA NextFreshInv == IInv /\ FreshInv /\ [Next]_vars => FreshInv'
<1> SUFFICES ASSUME IInv, FreshInv, [Next]_vars PROVE FreshInv'
  OBVIOUS
<1>1. ASSUME UNCHANGED <<trigger, scan>>, memo'.fresh => memo.fresh,
             \/ pe'.state # "Select_Capability"
             \/ pe' = pe /\ port'.source_caps = port.source_caps
                /\ port'.rdo_to_request = port.rdo_to_request
      PROVE  FreshInv'
  BY <1>1 DEF FreshInv
<1>2. CASE Application
  <2>1. CASE WriteField
    <3>1. ~memo'.fresh
      BY <2>1 DEF WriteField, IInv, TypeOK
    <3> QED BY <3>1 DEF FreshInv
  <2>2. CASE ~WriteField
    <3>1. /\ UNCHANGED <<trigger, scan, pe>> /\ memo'.fresh = memo.fresh
          /\ port'.source_caps = port.source_caps
          /\ port'.rdo_to_request = port.rdo_to_request
      BY <1>2, <2>2 DEF Application, Trigger, TestContract, SetRequest, IInv, TypeOK
    <3> QED BY <1>1, <3>1
  <2> QED BY <2>1, <2>2
<1>3. CASE ReadsTrigger
  BY <1>3, ReadFresh
<1>4. CASE SendRequest
  BY <1>4, SendFresh
<1>5. ASSUME NEW active, NEW from_caps, NEW p, Select(active, from_caps, p)
      PROVE  FreshInv'
  <2>1. /\ port' = p /\ scan'.i = 1
        /\ scan'.at = (IF 1 \in 1..Len(p.source_caps) THEN "match_type" ELSE "default")
    BY <1>5 DEF Select, Consider
  <2>2. Progress(scan', p.source_caps, trigger')
    <3>1. scan'.at = "default" => \A j \in 1..Len(p.source_caps) : FALSE
      BY <2>1
    <3> QED BY <2>1, <3>1 DEF Progress, Chosen
  <2> QED BY <2>1, <2>2 DEF FreshInv
<1>6. ASSUME NEW state \in PeStates \ {"Select_Capability"}, NEW p, Enter(state, p)
      PROVE  FreshInv'
  BY <1>6 DEF FreshInv, Enter
<1>7. CASE Source
  <2>1. ASSUME NEW list \in Lists, NEW extended \in BOOLEAN, SourceCapabilities(list, extended)
        PROVE  FreshInv'
    BY <1>5, <1>6, <2>1 DEF SourceCapabilities, PeStates
  <2>2. CASE Accept
    BY <1>6, <2>2 DEF Accept, PeStates
  <2>3. CASE Reject
    BY <1>6, <2>3 DEF Reject, Refused, PeStates
  <2>4. CASE Wait
    BY <1>6, <2>4 DEF Wait, Refused, PeStates
  <2>5. CASE Interrupted
    BY <1>6, <2>5 DEF Interrupted, PeStates
  <2>6. CASE PowerReady
    BY <1>6, <2>6 DEF PowerReady, PeStates
  <2> QED BY <1>7, <2>1, <2>2, <2>3, <2>4, <2>5, <2>6 DEF Source
<1>8. CASE ReadyRetry \/ ReadyRequest \/ ReadyRefresh
  BY <1>5, <1>8 DEF ReadyRetry, ReadyRequest, ReadyRefresh
<1>9. CASE EnterEprMode \/ ExitEprMode \/ HardReset \/ SoftReset
  BY <1>6, <1>9 DEF EnterEprMode, ExitEprMode, HardReset, SoftReset, PeStates
<1>10. CASE NothingToRequest
  <2>1. pe'.state # "Select_Capability"
    BY <1>10 DEF NothingToRequest, IInv, TypeOK
  <2> QED BY <2>1 DEF FreshInv
<1>11. CASE UNCHANGED vars
  BY <1>1, <1>11 DEF vars
<1> QED
  BY <1>2, <1>3, <1>4, <1>7, <1>8, <1>9, <1>10, <1>11 DEF Next

LEMMA NextHonourInv == IInv /\ FreshInv /\ HonourInv /\ [Next]_vars => HonourInv'
<1> SUFFICES ASSUME IInv, FreshInv, HonourInv, [Next]_vars PROVE HonourInv'
  OBVIOUS
<1>0. /\ port \in Ports /\ memo \in Memos /\ app \in Apps
      /\ pe \in [state : PeStates, active : BOOLEAN, from_caps : BOOLEAN]
  BY DEF IInv, TypeOK, SoundPort, Memos, Apps, PeStates
<1>1. CASE \E call \in Calls : Trigger(call)
  <2>1. UNCHANGED <<trigger, pe, port, memo>> /\ app'.at # "idle"
    BY <1>1 DEF Trigger
  <2> QED BY <2>1 DEF HonourInv
<1>2. CASE WriteField
  <2>1. UNCHANGED <<pe, port>> /\ app'.at # "idle" /\ ~memo'.fresh
    BY <1>0, <1>2 DEF WriteField, Apps, Memos
  <2> QED BY <2>1 DEF HonourInv
<1>3. CASE TestContract
  <2>1. /\ UNCHANGED <<trigger, pe, port>> /\ memo'.fresh = memo.fresh
        /\ memo'.excuse = "none" => memo.excuse = "none"
        /\ app'.at = "idle" => memo'.fresh \/ memo'.excuse # "none"
    BY <1>0, <1>3 DEF TestContract, Apps, Memos
  <2> QED BY <2>1 DEF HonourInv
<1>4. CASE SetRequest
  <2>1. UNCHANGED <<trigger, pe, memo>> /\ port'.new_power_level
        /\ port'.contract = port.contract /\ port'.source_caps = port.source_caps
        /\ port'.rdo_contracted = port.rdo_contracted
    BY <1>0, <1>4 DEF SetRequest, Ports
  <2> QED BY <1>0, <2>1 DEF HonourInv
<1>5. CASE ReadsTrigger
  BY <1>5 DEF ReadsTrigger, HonourInv
<1>6. CASE SendRequest
  <2>1. UNCHANGED <<trigger, app, pe, memo>> /\ pe.state = "Select_Capability"
        /\ port'.contract = port.contract /\ port'.new_power_level = port.new_power_level
    BY <1>0, <1>6 DEF SendRequest, Ports, IInv, ScanInProfile
  <2> QED BY <2>1 DEF HonourInv
<1>7. ASSUME NEW active \in BOOLEAN, NEW from_caps \in BOOLEAN, NEW p, Select(active, from_caps, p),
             active /\ ~from_caps => p.new_power_level
      PROVE  HonourInv'
  BY <1>7 DEF Select, HonourInv
\* To a state in which nothing is contracted anew.
<1>8. ASSUME NEW state \in PeStates \ {"Select_Capability", "Transition_Sink"}, NEW p,
             Enter(state, p), UNCHANGED <<trigger, app>>,
             memo'.fresh = memo.fresh, memo'.excuse = "none" => memo.excuse = "none",
             memo'.excuse = "none" /\ p.contract => port.contract
                /\ p.new_power_level = port.new_power_level,
             state = "Ready" /\ memo'.excuse = "none" /\ ~p.sink_request /\ ~p.new_power_level
               => /\ pe.state = "Transition_Sink"
                  /\ p.source_caps = port.source_caps /\ p.rdo_contracted = port.rdo_contracted
      PROVE  HonourInv'
  <2>1. port' = p /\ pe'.state = state
    BY <1>8 DEF Enter
  <2> QED BY <1>8, <2>1 DEF HonourInv
<1>9. CASE Source
  <2>1. ASSUME NEW list \in Lists, NEW extended \in BOOLEAN, SourceCapabilities(list, extended)
        PROVE  HonourInv'
    <3>1. CASE validate_source_caps(list)
      <4>1. Select(pe.active, TRUE, [port EXCEPT !.source_caps = Kept(list)])
        BY <2>1, <3>1 DEF SourceCapabilities
      <4> QED BY <1>0, <1>7, <4>1
    <3>2. CASE ~validate_source_caps(list)
      <4>1. memo'.excuse # "none"
        BY <1>0, <2>1, <3>2 DEF SourceCapabilities, Memos
      <4>2. Enter("Ready", [port EXCEPT !.source_caps = list])
        BY <2>1, <3>2 DEF SourceCapabilities
      <4>3. pe'.state = "Ready"
        BY <4>2, Zenon DEF Enter
      <4> QED BY <4>1, <4>3 DEF HonourInv
    <3> QED BY <3>1, <3>2
  <2>2. CASE Accept
    <3> DEFINE p == Settled([port EXCEPT !.contract = TRUE,
                                         !.rdo_contracted = port.rdo_to_request])
    <3>1. /\ UNCHANGED <<trigger, app>> /\ port' = p /\ pe'.state = "Transition_Sink"
          /\ pe.state = "Select_Capability" /\ scan.at = "off"
      BY <2>2 DEF Accept, Enter, Awaits, PeRuns
    <3>2. /\ memo'.fresh = memo.fresh
          /\ memo'.excuse = "none" => memo.excuse = "none" /\ (pe.active => memo.fresh)
      BY <1>0, <2>2 DEF Accept, Excused, Memos
    <3>3. /\ p.rdo_contracted = port.rdo_to_request /\ p.source_caps = port.source_caps
          /\ ~pe.active => p.new_power_level = port.new_power_level
      BY <1>0 DEF Settled, Ports
    <3> HIDE DEF p
    <3>4. memo.fresh => port.rdo_to_request = Made(trigger, port.source_caps)
      BY <3>1 DEF FreshInv
    <3> QED BY <3>1, <3>2, <3>3, <3>4 DEF HonourInv
  <2>3. CASE Reject
    <3>1. memo'.excuse = "rejected" /\ pe'.state # "Select_Capability"
      BY <1>0, <2>3 DEF Reject, Enter, Refused, Memos
    <3> QED BY <3>1 DEF HonourInv
  <2>4. CASE Wait
    <3> DEFINE p == [port EXCEPT !.sink_request = port.contract]
    <3>1. Enter(Refused, p) /\ UNCHANGED <<trigger, app, memo>>
      BY <2>4 DEF Wait
    <3>2. Refused \in PeStates \ {"Select_Capability", "Transition_Sink"}
      BY DEF Refused, PeStates
    <3>3. /\ p.contract = port.contract /\ p.new_power_level = port.new_power_level
          /\ Refused = "Ready" => p.sink_request
      BY <1>0 DEF Ports, Refused
    <3> HIDE DEF p
    <3> QED BY <1>8, <3>1, <3>2, <3>3
  <2>5. CASE Interrupted
    <3> DEFINE state == IF pe.from_caps THEN "Wait_for_Capabilities" ELSE "Ready"
    <3>1. Enter(state, port) /\ UNCHANGED <<trigger, app>> /\ pe.state = "Select_Capability"
      BY <2>5 DEF Interrupted, Awaits
    <3>2. /\ memo'.fresh = memo.fresh /\ (memo'.excuse = "none" => memo.excuse = "none")
          /\ memo'.excuse = "none" => pe.active
      BY <1>0, <2>5 DEF Interrupted, Memos
    <3>3. state = "Ready" /\ memo'.excuse = "none" => port.new_power_level
      BY <3>1, <3>2 DEF HonourInv
    <3>4. state \in PeStates \ {"Select_Capability", "Transition_Sink"}
      BY DEF PeStates
    <3> HIDE DEF state
    <3> QED BY <1>8, <3>1, <3>2, <3>3, <3>4
  <2>6. CASE PowerReady
    <3>1. "Ready" \in PeStates \ {"Select_Capability", "Transition_Sink"}
      BY DEF PeStates
    <3> QED BY <1>8, <2>6, <3>1 DEF PowerReady
  <2> QED BY <1>9, <2>1, <2>2, <2>3, <2>4, <2>5, <2>6 DEF Source
<1>10. CASE ReadyRetry \/ ReadyRequest \/ ReadyRefresh
  BY <1>7, <1>10 DEF ReadyRetry, ReadyRequest, ReadyRefresh
<1>11. "Wait_for_Capabilities" \in PeStates \ {"Select_Capability", "Transition_Sink"}
  BY DEF PeStates
<1>12. ~Reset(port).contract
  BY <1>0 DEF Reset, Ports
<1>13. CASE EnterEprMode \/ ExitEprMode
  <2> DEFINE p(b) == [port EXCEPT !.epr = b]
  <2>1. \A b : p(b).contract = port.contract /\ p(b).new_power_level = port.new_power_level
    BY <1>0 DEF Ports
  <2>2. PICK q : /\ Enter("Wait_for_Capabilities", q) /\ UNCHANGED <<trigger, app, memo>>
                 /\ q \in {p(TRUE), p(FALSE), Reset(port)}
    BY <1>13 DEF EnterEprMode, ExitEprMode, Ready
  <2> QED BY <1>8, <1>11, <1>12, <2>1, <2>2
<1>14. CASE HardReset \/ SoftReset
  BY <1>8, <1>11, <1>12, <1>14 DEF HardReset, SoftReset
<1>15. CASE NothingToRequest
  <2>1. pe'.state = "Wait_for_Capabilities" /\ ~port'.contract
    BY <1>0, <1>12, <1>15 DEF NothingToRequest
  <2> QED BY <2>1 DEF HonourInv
<1>16. CASE UNCHANGED vars
  BY <1>16 DEF vars, HonourInv
<1> QED
  BY <1>1, <1>2, <1>3, <1>4, <1>5, <1>6, <1>9, <1>10, <1>13, <1>14, <1>15, <1>16
  DEF Next, Application

-----------------------------------------------------------------------------
(* What the code makes of a trigger is what the trigger means *)

LEMMA LeastElement ==
    ASSUME NEW S \in SUBSET Nat, S # {}
    PROVE  \E m \in S : \A n \in S : m <= n
<1>1. PICK m \in S : \A n \in S : ~ (<<n, m>> \in OpToRel(<, Nat))
  BY NatLessThanWellFounded, WFMin
<1>2. \A n \in S : ~ (n < m)
  BY <1>1 DEF OpToRel
<1> QED
  BY <1>2

LEMMA WantedIs ==
    ASSUME NEW list \in Seq(PDO), NEW t \in Triggers, NEW i \in 1..Len(list),
           Suits(t, list, i), \A j \in 1..(i - 1) : ~Suits(t, list, j)
    PROVE  LET mv == Nearest(t.mv, get_src_pdo_limits(list[i]))
               most == Least(GivenMa(list[i], mv), MaxMa)
           IN  Wanted(t, list) =
                 Request(i, list[i], mv, IF t.ma \in 1..most THEN t.ma ELSE most)
<1> DEFINE suitable == {j \in 1..Len(list) : Suits(t, list, j)}
           First(k) == \A j \in suitable : k <= j
           best == CHOOSE k \in suitable : First(k)
<1>1. i \in suitable /\ First(i)
  OBVIOUS
<1>2. ASSUME NEW k \in suitable, First(k) PROVE k = i
  BY <1>1, <1>2
<1>3. best = i
  <2> HIDE DEF suitable, First
  <2> QED BY <1>1, <1>2, Zenon
<1>4. suitable # {}
  BY <1>1
<1> QED
  <2> DEFINE mv(k) == Nearest(t.mv, get_src_pdo_limits(list[k]))
             most(k) == Least(GivenMa(list[k], mv(k)), MaxMa)
  <2>1. Wanted(t, list) = Request(best, list[best], mv(best),
                             IF t.ma \in 1..most(best) THEN t.ma ELSE most(best))
    BY <1>4, Zenon DEF Wanted
  <2> HIDE DEF best
  <2> QED BY <1>3, <2>1, Zenon

LEMMA WantedIsDefault ==
    ASSUME NEW list, NEW t, \A j \in 1..Len(list) : ~Suits(t, list, j)
    PROVE  Wanted(t, list) = RDO_FIXED(1, get_src_pdo_limits(list[1]).ma)
<1>1. {j \in 1..Len(list) : Suits(t, list, j)} = {}
  OBVIOUS
<1> QED BY <1>1, Zenon DEF Wanted

LEMMA QuotientIsMost ==
    ASSUME NEW a \in Nat, NEW b \in Nat, NEW c \in Nat, b > 0, a * b <= c
    PROVE  a <= c \div b
BY SMT

\* Amperes for milliamperes are too few.
LEMMA ImpliedIsLess ==
    ASSUME NEW pdo, pdo.variant = "APDO_EPR_AVS", get_src_pdo_limits(pdo).pdp \in Nat,
           NEW v \in Nat, v > 0
    PROVE  /\ GivenMa(pdo, v) \in Nat
           /\ ImpliedMa(get_src_pdo_limits(pdo).pdp, v) \in Nat
           /\ ImpliedMa(get_src_pdo_limits(pdo).pdp, v) <= GivenMa(pdo, v)
<1> DEFINE p == get_src_pdo_limits(pdo).pdp
           q == ImpliedMa(p, v)
<1>1. q \in Nat /\ q * v <= p * 1000
  BY ImpliedFits
<1> HIDE DEF q
<1>2. q * v <= p * (1000 * 1000) /\ p * (1000 * 1000) \in Nat
  BY <1>1
<1>3. q <= (p * (1000 * 1000)) \div v
  <2> DEFINE c == p * (1000 * 1000)
  <2>1. c \in Nat /\ q * v <= c
    BY <1>2
  <2> HIDE DEF c
  <2>2. q <= c \div v
    BY <1>1, <2>1, QuotientIsMost
  <2> QED BY <2>2 DEF c
<1>4. (p * (1000 * 1000)) \div v \in Nat
  BY <1>2, Quotient
<1>5. GivenMa(pdo, v) = (p * (1000 * 1000)) \div v
  BY DEF GivenMa
<1> HIDE DEF p
<1>6. q \in Nat /\ GivenMa(pdo, v) \in Nat /\ q <= GivenMa(pdo, v)
  BY <1>1, <1>3, <1>4, <1>5
<1> QED BY <1>6 DEF q, p

\* A profile the code takes suits the trigger; and the other way round, unless it is one
\* of EPR AVS and has to give a current.
LEMMA MatchingSuits ==
    ASSUME NEW list \in Seq(PDO), NEW t \in Triggers, NEW i \in 1..Len(list),
           SoundPdo(list[i])
    PROVE  /\ Matches(t, list, i) => Suits(t, list, i)
           /\ \/ list[i].variant # "APDO_EPR_AVS" \/ t.ma = 0
              \/ t.match_type = "BY_POSITION"
              => (Suits(t, list, i) => Matches(t, list, i))
<1> DEFINE pdo == list[i]
           limits == get_src_pdo_limits(pdo)
           Within == limits.mv_min <= t.mv /\ t.mv <= limits.mv_max
           Enough == \/ t.ma <= GivenMa(pdo, t.mv)
                     \/ pdo.variant = "APDO_EPR_AVS" /\ limits.pdp = 0
<1>1. limits \in Range4 /\ t.mv \in Nat /\ t.ma \in Nat
      /\ (pdo.variant # "UNKNOWN" => 0 < limits.mv_min)
  BY LimitsAreNumbers DEF Triggers, SoundPdo
<1>2. CASE pdo.variant = "UNKNOWN"
  BY <1>2 DEF Matches, Suits
<1>3. CASE pdo.variant \notin {"UNKNOWN", "APDO_EPR_AVS"}
  <2>1. GivenMa(pdo, t.mv) = limits.ma
    BY <1>3 DEF GivenMa
  <2>2. match_limits(pdo, t.mv, t.ma) <=> Within /\ Enough
    <3> HIDE DEF pdo
    <3> QED BY <1>1, <1>3, <2>1 DEF match_limits, Range4
  <2> QED BY <1>3, <2>2 DEF Matches, Suits
<1>4. CASE pdo.variant = "APDO_EPR_AVS"
  <2>1. ASSUME Within
        PROVE  /\ match_limits(pdo, t.mv, t.ma) => Enough
               /\ t.ma = 0 => Enough /\ match_limits(pdo, t.mv, t.ma)
    <3>1. t.mv > 0 /\ limits.pdp \in Nat
      BY <1>1, <1>4, <2>1 DEF Range4
    <3>2. /\ GivenMa(pdo, t.mv) \in Nat /\ ImpliedMa(limits.pdp, t.mv) \in Nat
          /\ ImpliedMa(limits.pdp, t.mv) <= GivenMa(pdo, t.mv)
      BY <1>1, <1>4, <3>1, ImpliedIsLess
    <3>3. t.ma <= ImpliedMa(limits.pdp, t.mv) => t.ma <= GivenMa(pdo, t.mv)
      BY <1>1, <3>2
    <3> HIDE DEF pdo
    <3> QED BY <1>1, <1>4, <2>1, <3>2, <3>3 DEF match_limits
  <2>2. match_limits(pdo, t.mv, t.ma) => Within
    BY DEF match_limits
  <2> HIDE DEF Within, Enough
  <2>3. /\ match_limits(pdo, t.mv, t.ma) => Within /\ Enough
        /\ t.ma = 0 => (Within /\ Enough => match_limits(pdo, t.mv, t.ma))
    BY <2>1, <2>2
  <2> QED BY <1>4, <2>3 DEF Matches, Suits, Within, Enough
<1> QED BY <1>2, <1>3, <1>4

\* The voltage nearest is the profile's.
LEMMA NearestIsSound ==
    ASSUME NEW pdo \in PDO, SoundPdo(pdo), pdo.variant # "UNKNOWN", NEW mv \in Nat
    PROVE  LET n == Nearest(mv, get_src_pdo_limits(pdo)) IN n \in Nat /\ n > 0
<1> DEFINE limits == get_src_pdo_limits(pdo)
           want == IF mv = 0 THEN limits.mv_min ELSE mv
<1>1. limits \in Range4 /\ 0 < limits.mv_min /\ limits.mv_min <= limits.mv_max
  BY LimitsAreNumbers DEF SoundPdo
<1>2. Nearest(mv, limits) = Clamp(want, limits.mv_min, limits.mv_max)
  BY <1>1, NearestIsClamp
<1> HIDE DEF limits
<1>3. want \in Nat /\ limits.mv_min \in Nat /\ limits.mv_max \in Nat
  BY <1>1 DEF Range4
<1> HIDE DEF want
<1>4. /\ Clamp(want, limits.mv_min, limits.mv_max) \in Nat
      /\ limits.mv_min <= Clamp(want, limits.mv_min, limits.mv_max)
  BY <1>1, <1>3, ClampIsBetween
<1>5. Nearest(mv, limits) \in Nat /\ Nearest(mv, limits) > 0
  BY <1>1, <1>2, <1>3, <1>4
<1> QED BY <1>5 DEF limits

\* The current that is taken to be the most is what the profile gives, but for EPR AVS.
LEMMA MaLimitIsGiven ==
    ASSUME NEW pdo \in PDO, pdo.variant \notin {"UNKNOWN", "APDO_EPR_AVS"},
           NEW mv \in Nat, mv > 0
    PROVE  MaLimit(get_src_pdo_limits(pdo), mv) = Least(GivenMa(pdo, mv), MaxMa)
<1> DEFINE limits == get_src_pdo_limits(pdo)
<1>1. limits \in Range4 /\ limits.pdp = 0
  <2>1. limits \in Range4
    BY LimitsAreNumbers
  <2> QED BY <2>1 DEF get_src_pdo_limits, Limits, PDO
<1>2. GivenMa(pdo, mv) = limits.ma
  BY DEF GivenMa
<1> HIDE DEF limits
<1>3. MaLimit(limits, mv) = Least(limits.ma, MaxMa)
  <2>1. CASE limits.ma = 0
    <3>1. MaLimit(limits, mv) = ImpliedMa(0, mv)
      BY <1>1, <2>1 DEF MaLimit
    <3>2. (0 * 1000) \div mv = 0
      BY SMT
    <3> QED BY <2>1, <3>1, <3>2 DEF ImpliedMa, Least, MaxMa
  <2>2. CASE limits.ma # 0
    BY <2>2 DEF MaLimit
  <2> QED BY <2>1, <2>2
<1> QED BY <1>2, <1>3 DEF limits

\* Of a list of sound profiles the code makes what the trigger means.
LEMMA MadeAgrees ==
    ASSUME NEW list \in Seq(PDO), \A i \in 1..Len(list) : SoundPdo(list[i]),
           NEW t \in Triggers
    PROVE  Agrees(Made(t, list), t, list)
<1>0. Len(list) \in Nat /\ \A i \in 1..Len(list) : list[i] \in PDO
  OBVIOUS
<1>1. CASE \A j \in 1..Len(list) : ~Suits(t, list, j)
  <2>1. \A j \in 1..Len(list) : ~Matches(t, list, j)
    BY <1>1, MatchingSuits
  <2>2. Made(t, list) = Wanted(t, list)
    BY <1>1, <2>1, MadeIsDefault, WantedIsDefault
  <2>3. Wanted(t, list) = [Wanted(t, list) EXCEPT
                             !.operating_current = Wanted(t, list).operating_current]
    BY <1>1, WantedIsDefault DEF RDO_FIXED
  <2> QED BY <2>2, <2>3 DEF Agrees
<1>2. CASE \E j \in 1..Len(list) : Suits(t, list, j)
  <2> DEFINE suitable == {j \in 1..Len(list) : Suits(t, list, j)}
  <2>1. PICK i \in suitable : \A j \in suitable : i <= j
    <3>1. suitable \in SUBSET Nat /\ suitable # {}
      BY <1>0, <1>2
    <3> HIDE DEF suitable
    <3> QED BY <3>1, LeastElement
  <2>2. /\ i \in 1..Len(list) /\ Suits(t, list, i)
        /\ \A j \in 1..(i - 1) : ~Suits(t, list, j) /\ ~Matches(t, list, j)
    <3>1. i \in 1..Len(list) /\ Suits(t, list, i)
      BY <2>1
    <3>2. \A j \in 1..(i - 1) : j \in 1..Len(list) /\ ~Suits(t, list, j)
      BY <1>0, <2>1
    <3> QED BY <3>1, <3>2, MatchingSuits
  <2> DEFINE pdo == list[i]
             mv == Nearest(t.mv, get_src_pdo_limits(pdo))
             most == Least(GivenMa(pdo, mv), MaxMa)
             limit == MaLimit(get_src_pdo_limits(pdo), mv)
             Cut(m) == IF t.ma \in 1..m THEN t.ma ELSE m
  <2>3. Wanted(t, list) = Request(i, pdo, mv, Cut(most))
    BY <2>2, WantedIs
  <2>4. Matches(t, list, i) => Made(t, list) = Request(i, pdo, mv, Cut(limit))
    BY <2>2, MadeIs
  <2>5. pdo \in PDO /\ pdo.variant # "UNKNOWN" /\ SoundPdo(pdo)
    BY <1>0, <2>2 DEF Suits
  <2>6. mv \in Nat /\ mv > 0
    BY <2>5, NearestIsSound DEF Triggers
  <2>7. /\ pdo.variant # "APDO_EPR_AVS" \/ t.ma = 0 \/ t.match_type = "BY_POSITION"
             => Matches(t, list, i)
        /\ pdo.variant # "APDO_EPR_AVS" => limit = most
    BY <2>2, <2>5, <2>6, MatchingSuits, MaLimitIsGiven
  <2> HIDE DEF pdo, mv, most, limit, Cut
  <2>8. CASE pdo.variant # "APDO_EPR_AVS"
    <3>1. Made(t, list) = Wanted(t, list)
      BY <2>3, <2>4, <2>7, <2>8
    <3>2. Wanted(t, list).obj_position = i
      BY <2>3 DEF Request, RDO_FIXED, RDO_PPS, RDO_AVS
    <3> QED BY <2>8, <3>1, <3>2 DEF Agrees, pdo
  <2>9. CASE pdo.variant = "APDO_EPR_AVS"
    <3>1. Wanted(t, list) = RDO_AVS(i, mv, Cut(most))
      BY <2>3, <2>9 DEF Request
    <3>2. Wanted(t, list).obj_position = i
      BY <3>1 DEF RDO_AVS
    <3>3. ASSUME t.ma = 0 \/ t.match_type = "BY_POSITION"
          PROVE  Made(t, list) = [Wanted(t, list) EXCEPT
                                    !.operating_current = Made(t, list).operating_current]
      <4>1. Made(t, list) = RDO_AVS(i, mv, Cut(limit))
        BY <2>4, <2>7, <2>9, <3>3 DEF Request
      <4> QED BY <3>1, <4>1 DEF RDO_AVS
    <3> QED BY <2>9, <3>2, <3>3 DEF Agrees, pdo
  <2> QED BY <2>8, <2>9
<1> QED BY <1>1, <1>2

LEMMA MadeInPort ==
    ASSUME IInv PROVE Agrees(Made(trigger, port.source_caps), trigger, port.source_caps)
<1>1. /\ port.source_caps \in Seq(PDO) /\ trigger \in Triggers
      /\ \A i \in 1..Len(port.source_caps) : SoundPdo(port.source_caps[i])
  BY DEF IInv, TypeOK, SoundPort
<1> QED BY <1>1, MadeAgrees

\* A request is the one the trigger means, if no write fell between: the first profile
\* that suits it, the voltage nearest, the current asked for or all there is (but for the
\* current of EPR AVS); for every list of sound profiles and all interleavings of the two
\* threads.
THEOREM RequestsAreWanted == Spec => []RequestIsWanted
<1>1. Init => FreshInv
  BY DEF Init, FreshInv
<1>2. IInv /\ FreshInv => RequestIsWanted
  BY MadeInPort DEF FreshInv, RequestIsWanted, Awaits, PeRuns
<1> QED
  BY <1>1, <1>2, InitIsFine, Inductive, NextFreshInv, PTL DEF Spec

\* What is contracted, PE at rest, is what the application called for last, but for the
\* excuses and the exception that the property names; for every list of sound profiles
\* and all calls.
THEOREM LastCallIsHonoured == Spec => []LastCallHonoured
<1>1. Init => FreshInv /\ HonourInv
  BY DEF Init, FreshInv, HonourInv
<1>2. IInv /\ HonourInv => LastCallHonoured
  BY MadeInPort DEF HonourInv, LastCallHonoured, AtRest
<1> QED
  BY <1>1, <1>2, InitIsFine, Inductive, NextFreshInv, NextHonourInv, PTL DEF Spec
=============================================================================
