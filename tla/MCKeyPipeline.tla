---------------------------- MODULE MCKeyPipeline ----------------------------
(* An instance of KeyPipeline for TLC: a preset, and the keys it maps.       *)
EXTENDS KeyPipeline

Map(combo, output, release, sub) ==
    [combo |-> combo, output |-> output, release |-> release, sub |-> sub]

\* A keyboard with the keys a, b and c, and a mouse with the buttons m and n.  The code
\* of n is that of a.
OverlapKeys == {"a", "b", "c", "m", "n"}
OverlapDevice == [k \in OverlapKeys |-> IF k \in {"m", "n"} THEN "mouse" ELSE "kbd"]
OverlapCode == [k \in OverlapKeys |-> IF k = "n" THEN "a" ELSE k]

\* Combinations that overlap, contain one another, differ in their order or take keys
\* of both devices, a disabled key and an output no uinput can emit.  Some do not release
\* their keys.
OverlapPreset == <<
    Map(<<"c">>,           "x", TRUE,  "key"),
    Map(<<"a", "b">>,      "y", TRUE,  "key"),
    Map(<<"b", "a">>,      "z", FALSE, "key"),
    Map(<<"m", "c">>,      "w", TRUE,  "key"),
    Map(<<"a", "b", "m">>, "v", FALSE, "key"),
    Map(<<"b">>,           "n", TRUE,  "disable"),
    Map(<<"n", "c">>,      "t", TRUE,  "key"),
    Map(<<"c", "a">>,      "u", TRUE,  "unavailable")>>
=============================================================================
