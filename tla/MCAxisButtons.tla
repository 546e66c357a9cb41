---------------------------- MODULE MCAxisButtons ----------------------------
(***************************************************************************)
(* A mouse that moves forwards or backwards, slowly or fast, and a stick   *)
(* or a hat that reports values on both sides of 0.                        *)
(***************************************************************************)
EXTENDS AxisButtons

MCAbsMin == -2
MCRelValues == {-2, 1, 2}
=============================================================================
