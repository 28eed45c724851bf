------------------------------- MODULE MCAfsm ------------------------------
(***************************************************************************)
(* Three states: a plain one, one with an interceptor and one with two, as *)
(* in PE_SNK_Select_Capability.                                            *)
(***************************************************************************)
EXTENDS Afsm

MCStates == {"Plain", "One", "Two"}
MCInterceptors == [s \in MCStates |-> CASE s = "Plain" -> 0 [] s = "One" -> 1 [] s = "Two" -> 2]
=============================================================================
