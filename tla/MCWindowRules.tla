---------------------------- MODULE MCWindowRules ----------------------------
(***************************************************************************)
(* An instance of WindowRules for TLC: a mouse and a keyboard, and files   *)
(* as earlier sessions leave them.                                         *)
(***************************************************************************)
EXTENDS WindowRules, TLC

CONSTANTS mouse, keyboard, p1, p2, game, rule1, rule2, id1, id2

\* A rule as somebody wrote it.
Written(id, text) ==
    [id |-> id, values |-> [enabled |-> TRUE, priority |-> 0,
                            match |-> [f \in Fields |-> IF f = "title_regex" THEN text ELSE None]]]

OnMouse(p) == [d \in Devices |-> IF d = mouse THEN p ELSE None]

\* Two rules for the mouse, of which the second has the profile that is bound to the game and
\* also serves the keyboard.
Shared == [rules    |-> <<[rule |-> Written(rule1, game), profile |-> rule1],
                          [rule |-> Written(rule2, game), profile |-> AppProfile(game)]>>,
           profiles |-> [n \in Profiles |->
                            CASE n = rule1 -> OnMouse(p1)
                              [] n = AppProfile(game) -> [d \in Devices |-> p1]
                              [] OTHER -> Unbound]]

\* Rules of the time before the profiles.
Old == <<[rule |-> Written(rule1, game), scope |-> <<mouse, p1>>],
         [rule |-> Written(rule2, game), scope |-> <<mouse, p2>>]>>

OtherBindings == {<<mouse, p2>>}

FirstFiles == {[doc |-> None, legacy |-> None], [doc |-> None, legacy |-> Old],
               [doc |-> Shared, legacy |-> None]}
=============================================================================
