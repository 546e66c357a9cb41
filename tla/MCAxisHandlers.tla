---------------------------- MODULE MCAxisHandlers ----------------------------
(***************************************************************************)
(* All handlers, with and without keys: a stick with a deadzone, a mouse   *)
(* that moves both ways, and a wheel as output, of which the second code   *)
(* has the finer steps.                                                    *)
(***************************************************************************)
EXTENDS AxisHandlers

MCPipelines == Handlers \X BOOLEAN
MCAbsMin == -2
MCRelValues == {-3, 4}
MCWeight == [c \in {"wheel", "hires"} |-> IF c = "wheel" THEN 1 ELSE 2]
=============================================================================
