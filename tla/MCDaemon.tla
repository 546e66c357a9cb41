------------------------------ MODULE MCDaemon ------------------------------
(* An instance of Daemon for TLC: a group and two presets.                   *)
EXTENDS Daemon, TLC

CONSTANTS g1, P1, P2, p1, p2

\* The users of the machine: one who autoloads a preset, and one who does not.
AutoloadFirst == {(g1 :> P1), (g1 :> NoPreset)}
=============================================================================
