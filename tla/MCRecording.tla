---------------------------- MODULE MCRecording ----------------------------
(***************************************************************************)
(* Instances of Recording: a mouse with a button and a wheel; a second     *)
(* button and a keyboard are there for larger ones.                        *)
(***************************************************************************)
EXTENDS Recording

CONSTANTS mouse, keyboard, left, right, wheel

OfTheMouse == [i \in Inputs |-> mouse]
=============================================================================
