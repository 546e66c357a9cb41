--------------------------- MODULE MCPresetStore ---------------------------
(***************************************************************************)
(* An instance of PresetStore with similar devices, which share the folder *)
(* of their presets.  Groups and presets can be exchanged: nothing depends *)
(* on their names.                                                         *)
(***************************************************************************)
EXTENDS PresetStore

CONSTANTS mouse, twin, mice, p1, p2, c1, c2, a

SameModel == [g \in Groups |-> mice]

Names == Permutations(Groups) \cup Permutations(Presets)
=============================================================================
