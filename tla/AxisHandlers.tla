----------------------------- MODULE AxisHandlers -----------------------------
(***************************************************************************)
(* An analog input that is mapped to an axis: AxisSwitchHandler, if keys   *)
(* switch the mapping on and off, and one of AbsToAbsHandler,              *)
(* AbsToRelHandler, RelToAbsHandler and RelToRelHandler.                   *)
(*                                                                         *)
(* A relative output of an absolute input needs a loop that goes on        *)
(* writing, an absolute output of a relative input needs one that centers  *)
(* it.  Both are tasks: events are callbacks of the event loop, which runs *)
(* them in the order they were scheduled, and a task that is created or    *)
(* cancelled runs (or ends) only in its turn.                              *)
(***************************************************************************)
EXTENDS Axes, Sequences, FiniteSets, SequencesExt

CONSTANTS
    Pipelines,     \* pairs of a handler and whether keys switch it
    Deadzone, Gain,
    Codes,         \* the codes of a relative output: one, or two for a wheel
    Weight,        \* [Codes -> Nat]: what a code is worth
    Unit,          \* what makes a step of 1
    MaxBatch,      \* bound on the events that are read before one is handled
    MaxLoops       \* bound on the loops: with as many nothing is read any more

Handlers == {"abs_to_abs", "abs_to_rel", "rel_to_abs", "rel_to_rel"}

ASSUME HandlersAssumption ==
    /\ Pipelines \subseteq Handlers \X BOOLEAN
    /\ Deadzone \in Nat /\ Gain \in Int /\ Unit \in Nat \ {0}
    /\ Weight \in [Codes -> Nat]
    /\ MaxBatch \in Nat \ {0} /\ MaxLoops \in Nat

VARIABLES
    pipeline,  \* the handlers of the mapping
    held,      \* the keys of the combination are held
    ready,     \* the callbacks that are ready
    on,        \* AxisSwitchHandler._active
    known,     \* AxisSwitchHandler._axis_source: an event of the axis arrived
    last,      \* AxisSwitchHandler._last_value
    value,     \* AbsToRelHandler._value
    running,   \* AbsToRelHandler._running
    stop,      \* AbsToRelHandler._stop
    loops,     \* its loops: the time until each goes on, and what it carries
    center,    \* RelToAbsHandler._recenter_loop: what it is doing
    centerIn,  \* the time until it centers the output
    raced,     \* an event came between a task and its turn (history)
    carried,   \* what RelToRelHandler carries
    output     \* the absolute output

switchVars == <<on, known, last>>
loopVars == <<value, running, stop, loops>>
centerVars == <<center, centerIn, raced>>
world == <<pipeline, stick, held>>
vars == <<world, ready, switchVars, loopVars, centerVars, carried, output>>

handler == pipeline[1]
switched == pipeline[2]
FromAbs == handler \in {"abs_to_abs", "abs_to_rel"}

-----------------------------------------------------------------------------
(* Transformation, without expo: in units of half the range of the axis. *)

Sign(x) == IF x > 0 THEN 1 ELSE IF x < 0 THEN -1 ELSE 0
Magnitude(x) == x * Sign(x)

Normalized(x) == 2 * x - (AbsMax + AbsMin)
Flattened(x) == IF Magnitude(x) <= Deadzone THEN 0 ELSE x - Deadzone * Sign(x)
Transformed(x) == Gain * Flattened(IF FromAbs THEN Normalized(x) ELSE x)

\* _scale_to_target: the ends of the axis are the limits.
Scaled(x) ==
    LET limit == AbsMax - AbsMin
    IN  IF Magnitude(x) > limit THEN limit * Sign(x) ELSE x

-----------------------------------------------------------------------------
(***************************************************************************)
(* Writing whole steps.  What is left goes into the next one, and has the  *)
(* sign of what it is left of: int() and math.fmod() round towards 0.      *)
(***************************************************************************)

Steps(x) == Sign(x) * (Magnitude(x) \div Unit)

\* Mutant: the remainder of % is never negative.
LeftByModulo(x) == x % Unit

Left(x) == x - Unit * Steps(x)

\* What is carried from one step to the next: the remainder, and (history) the movement
\* that was asked for and not written.
Nothing == [c \in Codes |-> [rest |-> 0, owed |-> 0]]

Written(x, carry) == [c \in Codes |->
    LET scaled == x * Weight[c] + carry[c].rest
    IN  [rest |-> Left(scaled),
         owed |-> carry[c].owed + x * Weight[c] - Unit * Steps(scaled)]]

-----------------------------------------------------------------------------
(* The handler of the output: notify, with what becomes of the other callbacks. *)

Start == <<"start">>
Turn == <<"turn">>

NotifyAbsToAbs(x, others) ==
    /\ output' = Scaled(Transformed(x))
    /\ ready' = others
    /\ UNCHANGED <<loopVars, centerVars, carried>>

\* A task is created for the loop, which says that it is running when it starts.
NotifyAbsToRel(x, others) ==
    /\ value' = Transformed(x)
    /\ stop' = (stop \/ value' = 0)
    /\ ready' = IF value' # 0 /\ ~running THEN Append(others, Start) ELSE others
    /\ UNCHANGED <<running, loops, centerVars, carried, output>>

\* Mutant: a loop that was cancelled is not replaced.
NeedsFirst == center = "none"

\* cancelled() is true only after the cancelled task had its turn.
NeedsLoop == center \in {"none", "cancelled"}

\* A movement that finds a loop that is cancelled and did not end yet gets no loop.
NotifyRelToAbs(x, others) ==
    /\ center' = IF NeedsLoop THEN "created" ELSE IF center = "resting" THEN "moving" ELSE center
    /\ centerIn' = Timeout
    /\ ready' = IF NeedsLoop THEN Append(others, Turn) ELSE others
    /\ raced' = (center' = "ending")
    /\ output' = Scaled(Transformed(x))
    /\ UNCHANGED <<loopVars, carried>>

NotifyRelToRel(x, others) ==
    /\ carried' = Written(Transformed(x), carried)
    /\ ready' = others
    /\ UNCHANGED <<loopVars, centerVars, output>>

NotifyOutput(x, others) ==
    CASE handler = "abs_to_abs" -> NotifyAbsToAbs(x, others)
      [] handler = "abs_to_rel" -> NotifyAbsToRel(x, others)
      [] handler = "rel_to_abs" -> NotifyRelToAbs(x, others)
      [] handler = "rel_to_rel" -> NotifyRelToRel(x, others)

\* A task that did not have its first turn is cancelled in that.
CancelLoop(others) ==
    /\ center' = IF center \in {"created", "resting", "moving"} THEN "ending" ELSE center
    /\ ready' = IF center \in {"resting", "moving"} THEN Append(others, Turn) ELSE others
    /\ centerIn' = Timeout

\* Mutant: only an absolute output has something to recenter.
CentersOutput(others) ==
    /\ IF handler = "abs_to_rel" THEN UNCHANGED <<loopVars, output>>
       ELSE output' = 0 /\ UNCHANGED loopVars
    /\ IF handler = "rel_to_abs" THEN CancelLoop(others)
       ELSE ready' = others /\ UNCHANGED <<center, centerIn>>
    /\ raced' = (Start \in ToSet(others))

\* The "recenter" event of AxisSwitchHandler, and reset().  A loop that was created and
\* did not start yet forgets, when it starts, that it has to stop.
Recenter(others) ==
    /\ IF handler = "abs_to_rel" THEN stop' = TRUE /\ UNCHANGED <<value, running, loops, output>>
       ELSE output' = 0 /\ UNCHANGED loopVars
    /\ IF handler = "rel_to_abs" THEN CancelLoop(others)
       ELSE ready' = others /\ UNCHANGED <<center, centerIn>>
    /\ raced' = (Start \in ToSet(others))

-----------------------------------------------------------------------------
(* AxisSwitchHandler, or the handler of the output itself. *)

HandleAxis(x, others) ==
    IF ~switched THEN NotifyOutput(x, others) /\ UNCHANGED switchVars
    ELSE /\ known' = TRUE /\ last' = x /\ UNCHANGED on
         /\ IF on THEN NotifyOutput(x, others)
            ELSE /\ ready' = others
                 /\ UNCHANGED <<loopVars, centerVars, carried, output>>

\* The keys of the combination are pressed, or one of them is released.
HandleKey(pressed, others) ==
    /\ on' = pressed /\ UNCHANGED <<known, last>>
    /\ CASE on # pressed /\ known /\ ~pressed ->
                Recenter(others) /\ UNCHANGED carried
         [] on # pressed /\ known /\ pressed /\ FromAbs -> NotifyOutput(last, others)
         [] OTHER -> ready' = others /\ UNCHANGED <<loopVars, centerVars, carried, output>>

\* Context.reset
ResetAll(others) ==
    /\ IF switched THEN last' = 0 /\ on' = FALSE /\ UNCHANGED known
       ELSE UNCHANGED switchVars
    /\ IF handler = "rel_to_rel"
       THEN ready' = others /\ UNCHANGED <<loopVars, centerVars, output>>
       ELSE Recenter(others)
    /\ UNCHANGED carried

-----------------------------------------------------------------------------
(* Events, callbacks and time. *)

IsEvent(callback) == callback[1] \in {"axis", "key", "reset"}
Read(event) ==
    /\ Cardinality({i \in DOMAIN ready : IsEvent(ready[i])}) < MaxBatch
    /\ Len(loops) < MaxLoops
    /\ ready' = Append(ready, event)
    /\ UNCHANGED <<pipeline, switchVars, loopVars, centerVars, carried, output>>

\* An event of the axis or of the keys is read: EventReader makes a task for it.
MoveStick(x) ==
    /\ FromAbs /\ x # stick
    /\ Read(<<"axis", x>>)
    /\ stick' = x /\ UNCHANGED held
MoveAxis(x) == ~FromAbs /\ Read(<<"axis", x>>) /\ UNCHANGED <<stick, held>>
HoldKeys == switched /\ Read(<<"key", ~held>>) /\ held' = ~held /\ UNCHANGED stick

\* The reader of another device ends.
Unplug == Resets /\ Read(<<"reset">>) /\ UNCHANGED <<stick, held>>

Handle ==
    /\ ready # <<>> /\ IsEvent(Head(ready))
    /\ LET event == Head(ready)
       IN  CASE event[1] = "axis" -> HandleAxis(event[2], Tail(ready))
             [] event[1] = "key" -> HandleKey(event[2], Tail(ready))
             [] event[1] = "reset" -> ResetAll(Tail(ready))
    /\ UNCHANGED world

\* AbsToRelHandler._run, until it sleeps for the first time.
StartLoop ==
    /\ ready # <<>> /\ Head(ready) = Start
    /\ ready' = Tail(ready)
    /\ running' = TRUE /\ stop' = FALSE
    /\ loops' = Append(loops, [wait |-> Period, carry |-> Written(value, Nothing)])
    /\ UNCHANGED <<world, switchVars, value, centerVars, carried, output>>

\* The turn of the recenter loop: its first one, or its last one.
RecenterTurn ==
    /\ ready # <<>> /\ Head(ready) = Turn
    /\ ready' = Tail(ready)
    /\ center' = IF center = "ending" THEN "cancelled" ELSE "moving"
    /\ centerIn' = Timeout
    /\ UNCHANGED <<world, switchVars, loopVars, raced, carried, output>>

\* The loop goes on, or sees that it has to stop.
Loop(i) ==
    /\ ready = <<>> /\ loops[i].wait = 0 /\ ~stop
    /\ loops' = [loops EXCEPT ![i] =
                    [wait |-> Period, carry |-> Written(value, loops[i].carry)]]
    /\ UNCHANGED <<world, ready, switchVars, value, running, stop, centerVars, carried, output>>

EndLoop(i) ==
    /\ ready = <<>> /\ loops[i].wait = 0 /\ stop
    /\ loops' = RemoveAt(loops, i)
    /\ running' = FALSE
    /\ UNCHANGED <<world, ready, switchVars, value, stop, centerVars, carried, output>>

\* release_timeout passed since the last movement.
Center ==
    /\ ready = <<>> /\ center = "moving" /\ centerIn = 0
    /\ center' = "resting" /\ centerIn' = Timeout
    /\ output' = 0
    /\ UNCHANGED <<world, ready, switchVars, loopVars, raced, carried>>

\* What is due happens before time passes.
Tick ==
    /\ ready = <<>>
    /\ \A i \in DOMAIN loops : loops[i].wait > 0
    /\ center = "moving" => centerIn > 0
    /\ loops # <<>> \/ center = "moving"
    /\ loops' = [i \in DOMAIN loops |-> [loops[i] EXCEPT !.wait = @ - 1]]
    /\ centerIn' = IF center = "moving" THEN centerIn - 1 ELSE centerIn
    /\ UNCHANGED <<world, ready, switchVars, value, running, stop, center, raced, carried, output>>

-----------------------------------------------------------------------------

Init ==
    /\ pipeline \in Pipelines
    /\ stick = (AbsMin + AbsMax) \div 2 /\ held = FALSE
    /\ ready = <<>>
    /\ on = FALSE /\ known = FALSE /\ last = 0
    /\ value = 0 /\ running = FALSE /\ stop = TRUE /\ loops = <<>>
    /\ center = "none" /\ centerIn = Timeout /\ raced = FALSE
    /\ carried = Nothing
    /\ output = 0

Tasks == StartLoop \/ RecenterTurn \/ Center \/ \E i \in DOMAIN loops : Loop(i) \/ EndLoop(i)

Next ==
    \/ \E x \in AbsMin..AbsMax : MoveStick(x)
    \/ \E x \in RelValues : MoveAxis(x)
    \/ HoldKeys \/ Unplug \/ Handle \/ Tasks \/ Tick

\* The event loop runs what is ready and what is due, and time passes.
Fairness == WF_vars(Handle) /\ WF_vars(Tasks) /\ WF_vars(Tick)

Spec == Init /\ [][Next]_vars /\ Fairness

-----------------------------------------------------------------------------
(* Properties *)

\* However slowly the input moves, and to whatever side: less than a step is missing in
\* what RelToRelHandler or a loop has written (rel_to_rel_handler.py:58).
LessThanAStepIsOwed ==
    \A carry \in {carried} \cup {loops[i].carry : i \in DOMAIN loops} :
        \A c \in Codes : Magnitude(carry[c].owed) < Unit

\* While the keys that switch the axis are not held, nothing comes out of it: an absolute
\* output is centered, and the loops are told to stop.  Exempted is the race of
\* abs_to_rel_handler.py:148: a loop that had not started when the axis was switched off.
SilentWhenOff == switched /\ ~on => output = 0 /\ (stop \/ raced)

\* An absolute output of a relative input returns to its center after the input stopped,
\* also after the axis was switched off and on and after the handlers were reset.
\* Exempted is the race of rel_to_abs_handler.py:177: a movement that was handled after
\* the loop was cancelled and before it ended.
OutputIsCentered ==
    [](handler = "rel_to_abs" =>
        <>(output = 0 \/ raced \/ \E i \in DOMAIN ready : ready[i][1] = "axis"))

=============================================================================
