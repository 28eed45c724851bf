------------------------------- MODULE MCDpm ---------------------------------
(* Lists of profiles and calls of the application for Dpm; positions from 1 to 4 *)
(* are for SPR profiles.                                                         *)
EXTENDS Dpm

V5 == PDO_FIXED(100, 150)
V9 == PDO_FIXED(180, 300)
V28 == PDO_FIXED(560, 500)
PPS == PDO_SPR_PPS(33, 110, 101)
AVS15 == PDO_SPR_AVS(303, 0)
AVS20 == PDO_SPR_AVS(300, 225)
EprAVS == PDO_EPR_AVS(150, 280, 140)

MCLists == {
    <<V5, AVS15, V9, PPS>>,
    <<V5, AVS20, PDO_UNKNOWN, PPS, V28, EprAVS>>,
    <<V9, V5>>,
    <<>> }

MCCalls == {
    VariantCall("UNKNOWN", 9000, 0),
    VariantCall("APDO_PPS", 5990, 2030),
    PositionCall(2, 14999, 9999),
    PositionCall(6, 0, 0) }
=============================================================================
