----------------------------- MODULE MCGuiSession -----------------------------
(* A keyboard with two presets, and a mouse that has a preset of the same name as one. *)
EXTENDS GuiSession, TLC

CONSTANTS keyboard, mouse, p, q

MCPresetsOf == keyboard :> {p, q} @@ mouse :> {p}
=============================================================================
