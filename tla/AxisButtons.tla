----------------------------- MODULE AxisButtons -----------------------------
(***************************************************************************)
(* Axes as buttons: a combination of a wheel or a mouse (relative) and of  *)
(* a stick (absolute) that is mapped to a key.  RelToBtnHandler and        *)
(* AbsToBtnHandler turn movements into presses and releases of the         *)
(* CombinationHandler, which holds the key while both are pressed.         *)
(*                                                                         *)
(* An absolute axis reports where it is.  A relative one does not report   *)
(* that it stopped: each activation stages a timer that releases it, and   *)
(* one flag tells the timers that the release was made already.            *)
(***************************************************************************)
EXTENDS Axes, Sequences, SequencesExt

CONSTANTS
    ForceRelease,  \* force_release_timeout
    RelThreshold,
    AbsThreshold,  \* in percent
    Shoulder,      \* the axis is a trigger that rests at its minimum
    Release,       \* release_combination_keys
    MaxTimers      \* bound on the timers that are staged

ASSUME ButtonsAssumption ==
    /\ ForceRelease \in BOOLEAN /\ Shoulder \in BOOLEAN /\ Release \in BOOLEAN
    /\ RelThreshold \in Int \ {0}
    /\ AbsThreshold \in Int \ {0}
    /\ MaxTimers \in Nat \ {0}

VARIABLES
    seen,        \* where applications see it: the last value that was forwarded
    wasPressed,  \* AbsToBtnHandler._configured_direction_was_pressed
    active,      \* RelToBtnHandler._active
    abort,       \* RelToBtnHandler._abort_release
    idle,        \* the time since _last_activation, up to Late
    timers,      \* _stage_release: the time until each of them looks again
    pressed,     \* CombinationHandler._pressed_keys
    out,         \* CombinationHandler._output_previously_active: the key is down
    requires     \* CombinationHandler._requires_a_release

relVars == <<active, abort, idle, timers>>
absVars == <<stick, wasPressed>>
comboVars == <<pressed, out, requires>>
buttonVars == <<relVars, absVars, comboVars, seen>>

Inputs == {"rel", "abs"}
Late == Timeout + Period

-----------------------------------------------------------------------------
(* calculate_trigger_point: the values are doubled, in percent. *)

Middle == IF Shoulder THEN AbsMin ELSE (AbsMin + AbsMax) \div 2

IsPast(value) ==
    LET hat == AbsMin = -1 /\ AbsMax = 1
        point == CASE hat -> IF AbsThreshold > 0 THEN 200 ELSE -200
                   [] ~hat /\ Shoulder -> 2 * AbsMax * AbsThreshold
                   [] OTHER -> 100 * (AbsMax + AbsMin) + (AbsMax - AbsMin) * AbsThreshold
    IN  IF AbsThreshold > 0 THEN 200 * value >= point ELSE 200 * value <= point

\* The half of the axis that is not mapped, with the resting point.
IsOtherSide(value) ==
    IF AbsThreshold > 0 THEN value <= Middle ELSE value >= Middle

-----------------------------------------------------------------------------
(* CombinationHandler.notify; the key of the mapping can be emitted. *)

\* An input is pressed; the handler takes the event if the key is down then.
PressInput(i) ==
    /\ pressed' = pressed \cup {i}
    /\ out' = (out \/ pressed' = Inputs)
    /\ requires' = IF out' THEN (IF ~out /\ Release THEN {} ELSE requires \ {i})
                   ELSE requires \cup {i}

\* Mutant: the key stays down until both inputs are released.
ReleaseLast(i) ==
    /\ pressed' = pressed \ {i}
    /\ out' = (out /\ pressed' # {})
    /\ requires' = requires \ {i}

ReleaseInput(i) ==
    /\ pressed' = pressed \ {i}
    /\ out' = FALSE
    /\ requires' = requires \ {i}

\* What is forwarded: an input that has to be released is, to the value 0.
Forwarded(event) ==
    IF ~out /\ out' /\ Release /\ "abs" \in requires THEN 0 ELSE event

-----------------------------------------------------------------------------
(* AbsToBtnHandler *)

\* What the key handlers get to know: the mapped side, and leaving it.
GoesOn(value) == wasPressed \/ ~IsOtherSide(value)

TiltStick(value) ==
    /\ value # stick
    /\ stick' = value
    /\ IF ~GoesOn(value)
       THEN seen' = value /\ UNCHANGED <<wasPressed, comboVars>>
       ELSE /\ wasPressed' = IsPast(value)
            /\ IF IsPast(value)
               THEN PressInput("abs") /\ seen' = IF out' THEN Forwarded(seen) ELSE value
               ELSE ReleaseInput("abs") /\ seen' = IF "abs" \in requires THEN value ELSE seen
    /\ UNCHANGED relVars

-----------------------------------------------------------------------------
(* RelToBtnHandler *)

IsFast(value) ==
    IF RelThreshold > 0 THEN value >= RelThreshold ELSE value <= RelThreshold

\* Mutant: a timer that is staged already is thought to be enough.
StagedOnce == IF timers = <<>> THEN <<Period>> ELSE timers

\* The timer of this activation looks at the clock at once, and every Period.
Staged == IF active THEN timers ELSE Append(timers, Period)

MoveFast(value) ==
    /\ IsFast(value)
    /\ active \/ Len(timers) < MaxTimers
    /\ timers' = Staged
    /\ idle' = 0
    /\ active' = TRUE
    /\ PressInput("rel")
    /\ seen' = Forwarded(seen)
    /\ UNCHANGED <<abort, absVars>>

\* An event below the threshold releases the button, and the timer need not.
MoveSlowly(value) ==
    /\ ~IsFast(value) /\ active /\ ~ForceRelease
    /\ abort' = TRUE
    /\ active' = FALSE
    /\ ReleaseInput("rel")
    /\ UNCHANGED <<idle, timers, absVars, seen>>

\* A timer looks at the clock.
LookAgain(t) ==
    /\ timers[t] = 0 /\ idle < Timeout
    /\ timers' = [timers EXCEPT ![t] = Period]
    /\ UNCHANGED <<active, abort, idle, absVars, comboVars, seen>>

AbortRelease(t) ==
    /\ timers[t] = 0 /\ idle >= Timeout /\ abort
    /\ abort' = FALSE
    /\ timers' = RemoveAt(timers, t)
    /\ UNCHANGED <<active, idle, absVars, comboVars, seen>>

StageRelease(t) ==
    /\ timers[t] = 0 /\ idle >= Timeout /\ ~abort
    /\ timers' = RemoveAt(timers, t)
    /\ active' = FALSE
    /\ ReleaseInput("rel")
    /\ UNCHANGED <<abort, idle, absVars, seen>>

\* A timer that is due runs before time passes.
ButtonTick ==
    /\ \A t \in DOMAIN timers : timers[t] > 0
    /\ timers' = [t \in DOMAIN timers |-> timers[t] - 1]
    /\ idle' = IF idle < Late THEN idle + 1 ELSE idle
    /\ UNCHANGED <<active, abort, absVars, comboVars, seen>>

\* Context.reset: a reader of another device ended.
Reset ==
    /\ Resets
    /\ abort' = (abort \/ active)
    /\ active' = FALSE
    /\ wasPressed' = FALSE
    /\ pressed' = {} /\ out' = FALSE /\ requires' = {}
    /\ UNCHANGED <<idle, timers, stick, seen>>

-----------------------------------------------------------------------------

ButtonInit ==
    /\ stick = Middle /\ seen = Middle /\ wasPressed = FALSE
    /\ active = FALSE /\ abort = FALSE /\ idle = Late /\ timers = <<>>
    /\ pressed = {} /\ out = FALSE /\ requires = {}

ButtonNext ==
    \/ \E value \in AbsMin..AbsMax : TiltStick(value)
    \/ \E value \in RelValues : MoveFast(value) \/ MoveSlowly(value)
    \/ \E t \in DOMAIN timers : LookAgain(t) \/ AbortRelease(t) \/ StageRelease(t)
    \/ ButtonTick \/ Reset

ButtonSpec == ButtonInit /\ [][ButtonNext]_buttonVars

-----------------------------------------------------------------------------
(* Properties *)

\* What a relative axis does as a button, with its timers and the flag they share, is
\* what HeldButton promises: it is held while the axis keeps moving, and let go by
\* itself between release_timeout and a period of the timer later.
Button == INSTANCE HeldButton WITH down <- active
ButtonIsHeld == Button!Spec

\* The key is down only while the stick is past its threshold and the relative axis
\* moved as fast as its threshold demands a moment ago: no timer that aborts, no jump of
\* the stick and no reset leaves it down.
KeyNeedsBothAxes ==
    out => IsPast(stick) /\ pressed = Inputs /\ active /\ idle < Late

=============================================================================
