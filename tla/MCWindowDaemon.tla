--------------------------- MODULE MCWindowDaemon ---------------------------
(***************************************************************************)
(* An instance of WindowDaemon for TLC: a browser and a game, two presets, *)
(* a mouse whose calls may fail, and a keyboard.                           *)
(***************************************************************************)
EXTENDS WindowDaemon, TLC

CONSTANTS browser, game, mouse, keyboard, p1, p2, desk, work, rule1, rule2

DistinctSlugs == browser :> "browser" @@ game :> "game"

Doc(profiles, rules, switching) ==
    [profiles |-> profiles, persistent |-> None, active |-> desk,
     switching |-> switching, rules |-> rules]
AppRule(id, matches, name, priority) ==
    [id |-> id, matches |-> matches, profile |-> name, enabled |-> TRUE,
     priority |-> priority]

OnMouse(preset) == [d \in Devices |-> IF d = mouse THEN preset ELSE None]

\* Two rules that overlap, the first outranked by the second, whose profile has another
\* preset than the desktop.  The keyboard only gets presets by being bound.
Overlap == Doc(desk :> OnMouse(p1) @@ work :> OnMouse(p2),
               <<AppRule(rule1, {browser, game}, desk, 1), AppRule(rule2, {game}, work, 2)>>, TRUE)

OneDoc == {Overlap}
=============================================================================
