---------------------------- MODULE MCMacroTasks ----------------------------
(* Instances of MacroTasks for TLC.                                          *)
EXTENDS MacroTasks, TLC

CONSTANTS m1, m2, a

\* Every macro on its own.
Alone == {(m1 :> k) : k \in Kinds \ {"none"}}

\* Two home row mods, as in readme/examples.md.
TwoModTaps == {(m1 :> "mod_tap" @@ m2 :> "mod_tap")}
=============================================================================
