--------------------------- MODULE MCMappingEditor ---------------------------
(***************************************************************************)
(* Instances of MappingEditor: a key, a joystick and a wheel, two mappings *)
(* that can get in the way of each other, and one text of each sort.       *)
(***************************************************************************)
EXTENDS MappingEditor

CONSTANTS m1, m2

Key == [type |-> "key", code |-> "k", threshold |-> 0]
Joystick(t) == [type |-> "abs", code |-> "x", threshold |-> t]
Wheel(t) == [type |-> "rel", code |-> "w", threshold |-> t]

MCRecordings == {<<Joystick(10)>>, <<Key, Joystick(-10)>>, <<Wheel(1), Joystick(10)>>}
MCDisableCode == -1
MCStored ==
    {[inputs |-> <<Key>>, target |-> "keyboard", symbol |-> None,
      type |-> "key", code |-> 30, kind |-> "key_macro"],
     [inputs |-> <<Joystick(0)>>, target |-> "mouse", symbol |-> None,
      type |-> "abs", code |-> MCDisableCode, kind |-> "analog"],
     [inputs |-> <<Joystick(10), Wheel(0)>>, target |-> "keyboard", symbol |-> "a",
      type |-> "key", code |-> 30, kind |-> "key_macro"]}
MCThresholds == [abs |-> {-10, 0}, rel |-> {1, 0}]
MCLayout == [t \in {"a", "disable"} |-> IF t = "a" THEN 30 ELSE -1]
MCAxes == {<<"mouse", "rel", 8>>, <<"gamepad", "abs", 0>>}
MCEmits == {<<"keyboard", 30>>}

Names == Permutations(Ids)
=============================================================================
