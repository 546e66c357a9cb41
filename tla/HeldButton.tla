------------------------------ MODULE HeldButton ------------------------------
(***************************************************************************)
(* What RelToBtnHandler promises, whatever timers it needs: a relative     *)
(* axis has no event that says that it stopped, so that the button it is   *)
(* mapped to is held for release_timeout after the last movement that was  *)
(* fast enough, and is let go within a period of its timer after that.     *)
(***************************************************************************)
EXTENDS Integers

CONSTANTS
    Timeout,  \* release_timeout
    Period,   \* 1 / rel_rate
    ForceRelease     \* force_release_timeout

VARIABLES
    down,  \* the button is down
    idle   \* the time since the axis was fast enough, as far as it matters

Late == Timeout + Period

Init == down = FALSE /\ idle = Late

\* The axis is fast enough.
Fast == down' = TRUE /\ idle' = 0

\* It is not: an explicit release, unless these are to be ignored.
Slow == ~ForceRelease /\ down' = FALSE /\ UNCHANGED idle

Expire == idle >= Timeout /\ down' = FALSE /\ UNCHANGED idle

\* The handlers are reset.
Reset == down' = FALSE /\ UNCHANGED idle

\* Time does not pass over a button that should have been released.
Tick ==
    /\ down => idle + 1 < Late
    /\ idle' = IF idle < Late THEN idle + 1 ELSE idle
    /\ UNCHANGED down

Next == Fast \/ Slow \/ Expire \/ Reset \/ Tick

Spec == Init /\ [][Next]_<<down, idle>>
=============================================================================
