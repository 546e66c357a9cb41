----------------------------- MODULE ActiveGroup -----------------------------
(* What GuiSession and Recording share: the device group that the GUI shows. *)
CONSTANTS
    Groups, \* the device groups
    None    \* no preset, injection, timer, call, recorder or reader

VARIABLE group \* active_group
=============================================================================
