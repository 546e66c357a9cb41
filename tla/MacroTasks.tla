----------------------------- MODULE MacroTasks -----------------------------
(***************************************************************************)
(* One asyncio loop of an injection process: the tasks in which            *)
(* EventReader handles the events, and the macros, which listen to the     *)
(* events and run between them (event_reader, macro_handler, macros).      *)
(*                                                                         *)
(* asyncio runs what is ready first come, first served; an entry of the    *)
(* queue that still has hops to go is queued again, which is what          *)
(* asyncio.sleep(0) and the callbacks between a future and the task that   *)
(* waits for it do.  Sleeps of some time end when nothing is ready: the    *)
(* loop needs microseconds for an entry, and the macros count on that.     *)
(* What is typed does not matter, only whether a macro has a key down.     *)
(***************************************************************************)
EXTENDS Naturals, Sequences, FiniteSets, FiniteSetsExt, SequencesExt

CONSTANTS
    OtherKeys, \* the keys without a macro
    Macros,    \* the macros, each also stands for the key that triggers it
    Setups,    \* what the preset may make of them: [Macros -> Kinds]
    MayReset,  \* may another device of the group be unplugged?
    MaxEvents  \* bound on the events that are read

\* The tasks that wait, or go on, for the trigger; "wheel" is mouse and mouse_xy, too.
Kinds == {"none", "mod_tap", "if_single", "if_tap", "hold", "hold_macro", "hold_keys",
          "modify", "repeat", "toggle", "wheel"}

\* The number of keys that hold_keys has, and of loops that repeat makes.
Symbols == 2
Repeats == 2

ASSUME MacroTasksAssumption ==
    /\ IsFiniteSet(Macros)
    /\ Setups \subseteq [Macros -> Kinds]
    /\ MayReset \in BOOLEAN
    /\ MaxEvents \in Nat
    /\ Macros \cap Nat = {}
    /\ Macros \cap OtherKeys = {}

VARIABLES
    kind,      \* the first task of each macro
    zeroSleep, \* macro_key_sleep_ms is 0
    read,      \* the events EventReader.read_loop yielded
    stage,     \* how far EventReader.handle is with each of them
    left,      \* the listeners send_to_listeners did not call yet
    ready,     \* what the loop runs next
    listeners, \* Context.listeners: the macro, and which run of it added the listener
    pc,        \* where the macro is
    run,       \* counts the runs of the macro
    holds,     \* Task.is_holding
    jam,       \* jamming_asyncio_events of the run: the events that wait
    keysDown,  \* how many keys the macro has down
    count,     \* ToggleTask.trigger_count, the loops of repeat, or the keys of hold_keys that
               \* it pressed
    known,     \* MacroHandler._macro_task is not None: it is the newest task
    decidedBy  \* the event that another_key_pressed_event of the run is set by

inputVars == <<kind, zeroSleep, read>>
eventVars == <<stage, left>>
macroVars == <<listeners, pc, run, holds, jam, keysDown, count, known, decidedBy>>
taskVars == <<inputVars, eventVars, ready, macroVars>>

\* Here the macro sleeps, and nothing but time wakes it.
Sleeping == {"draining", "tapping", "ending", "resting", "pressing", "releasing",
             "modifying", "unmodifying"}
\* ... and here it waits for the release of the trigger.
Until == {"until_release", "tap_down"}

Listener(m) == [macro |-> m, run |-> run[m]]
\* The listener belongs to a run that is still in need of it.
Live(l) == l = Listener(l.macro) /\ pc[l.macro] \in {"deciding", "waking", "draining"}

Wake(t, hops) == [task |-> t, hops |-> hops, new |-> FALSE]
\* MacroHandler.run_macro, which did not run yet.
NewTask(m) == [task |-> m, hops |-> 0, new |-> TRUE]
\* What is left of an entry when its task is cancelled: the loop skips it.
Nothing == [task |-> 0, hops |-> 0, new |-> FALSE]
Rest == IF ready = <<>> THEN <<>> ELSE Tail(ready)

-----------------------------------------------------------------------------
(* The events.                                                             *)

IsDown(k) ==
    \E i \in DOMAIN read :
        /\ read[i].key = k /\ read[i].down
        /\ \A j \in DOMAIN read : j > i => read[j].key # k

\* EventReader.run: every event gets a task of its own.
Read ==
    /\ Len(read) < MaxEvents
    /\ \E k \in OtherKeys \cup {m \in Macros : kind[m] # "none"} :
          read' = Append(read, [key |-> k, down |-> ~IsDown(k)])
    /\ stage' = Append(stage, "new")
    /\ left' = Append(left, {})
    /\ ready' = Append(ready, Wake(Len(read) + 1, 0))
    /\ UNCHANGED <<kind, zeroSleep, macroVars>>

Hop ==
    /\ ready # <<>> /\ Head(ready).hops > 0
    /\ ready' = Append(Tail(ready), [Head(ready) EXCEPT !.hops = @ - 1])
    /\ UNCHANGED <<inputVars, eventVars, macroVars>>

Skip ==
    /\ ready # <<>> /\ Head(ready) = Nothing
    /\ ready' = Rest
    /\ UNCHANGED <<inputVars, eventVars, macroVars>>

EventTurn(i) == ready # <<>> /\ Head(ready) = Wake(i, 0)

\* context.listeners.copy() is taken at the first step.
ToCall(i) == IF stage[i] = "new" THEN listeners ELSE left[i]

\* Mutant: two sleeps are taken to be enough.
ShortHeadStart == 2

\* The sleeps that give macros their head-start after each listener.
HeadStart == 5

Called(i, l, how) ==
    /\ left' = [left EXCEPT ![i] = ToCall(i) \ {l}]
    /\ stage' = [stage EXCEPT ![i] = how]

\* The listener of mod_tap: other keys have to wait, for ever if the run is over.
CallModTap(i, l) ==
    LET m == l.macro
    IN  /\ kind[m] = "mod_tap"
        /\ IF read[i].key = m
           THEN Called(i, l, "called") /\ ready' = Append(Rest, Wake(i, HeadStart - 1)) /\ UNCHANGED jam
           ELSE /\ Called(i, l, "jammed")
                /\ ready' = Rest
                /\ jam' = IF Live(l) THEN [jam EXCEPT ![m] = Append(@, i)] ELSE jam
        /\ UNCHANGED <<pc, decidedBy>>

\* The listener of if_single: the press of a key wakes the macro.
CallIfSingle(i, l) ==
    LET m == l.macro
    IN  /\ kind[m] = "if_single"
        /\ Called(i, l, "called")
        /\ IF read[i].down /\ Live(l) /\ pc[m] = "deciding"
           THEN /\ pc' = [pc EXCEPT ![m] = "waking"]
                /\ decidedBy' = [decidedBy EXCEPT ![m] = {i}]
                /\ ready' = Append(Append(Rest, Wake(m, 2)), Wake(i, HeadStart - 1))
           ELSE ready' = Append(Rest, Wake(i, HeadStart - 1)) /\ UNCHANGED <<pc, decidedBy>>
        /\ UNCHANGED jam

CallListener(i) ==
    /\ EventTurn(i)
    /\ \E l \in ToCall(i) : CallModTap(i, l) \/ CallIfSingle(i, l)
    /\ UNCHANGED <<inputVars, listeners, run, holds, keysDown, count, known>>

\* Task.press_trigger.  One that waits for the second tap goes on; a toggle counts.
PressTrigger(m) ==
    /\ count' = [count EXCEPT ![m] = IF kind[m] = "toggle" THEN @ + 1 ELSE @]
    /\ holds' = [holds EXCEPT ![m] = TRUE]
    /\ pc' = [pc EXCEPT ![m] = IF @ = "tap_up" THEN "tap_down" ELSE @]

\* MacroHandler.notify for a press: Macro.running is only set when the task gets its turn.
PressMacro(m) ==
    /\ PressTrigger(m)
    /\ IF pc[m] = "idle"
       THEN known' = [known EXCEPT ![m] = TRUE] /\ ready' = Append(Rest, NewTask(m))
       ELSE ready' = Rest /\ UNCHANGED known

\* Mutant: the macro is not told of the release while it runs.
ReleaseUnnoticed(m) ==
    /\ holds' = [holds EXCEPT ![m] = FALSE]
    /\ ready' = Rest
    /\ UNCHANGED <<pc, count, known>>

\* ... and for a release, Macro.release_trigger.
ReleaseMacro(m) ==
    /\ holds' = [holds EXCEPT ![m] = FALSE]
    /\ CASE holds[m] /\ pc[m] = "deciding" ->
                /\ pc' = [pc EXCEPT ![m] = "waking"]
                /\ ready' = Append(Rest, Wake(m, 2))
         [] holds[m] /\ pc[m] \in Until ->
                /\ pc' = [pc EXCEPT ![m] = "released"]
                /\ ready' = Append(Rest, Wake(m, 0))
         [] OTHER -> ready' = Rest /\ UNCHANGED pc
    /\ UNCHANGED <<count, known>>

\* send_to_handlers: a macro is notified, any other key is forwarded.
HandToHandlers(i) ==
    /\ EventTurn(i)
    /\ ToCall(i) = {}
    /\ stage' = [stage EXCEPT ![i] = "handled"]
    /\ LET k == read[i].key
       IN  \/ k \in Macros /\ read[i].down /\ PressMacro(k)
           \/ k \in Macros /\ ~read[i].down /\ ReleaseMacro(k)
           \/ k \in OtherKeys /\ ready' = Rest /\ UNCHANGED <<holds, pc, count, known>>
    /\ UNCHANGED <<inputVars, left, listeners, run, jam, keysDown, decidedBy>>

-----------------------------------------------------------------------------
(* The macros.                                                             *)

MacroTurn(m) ==
    \/ ready # <<>> /\ Head(ready) = Wake(m, 0)
    \/ ready = <<>> /\ pc[m] \in Sleeping

\* run_macro forgets the task when the macro ends, whichever it knows by then.
Goto(m, place) ==
    /\ pc' = [pc EXCEPT ![m] = place]
    /\ known' = [known EXCEPT ![m] = @ /\ place # "idle"]
Down(m) == keysDown' = [keysDown EXCEPT ![m] = @ + 1]
\* A reset may have released the key already.
Up(m) == keysDown' = [keysDown EXCEPT ![m] = IF @ > 0 THEN @ - 1 ELSE 0]
\* Task.keycode_pause.
KeycodePause(m) == ready' = IF zeroSleep THEN Append(Rest, Wake(m, 0)) ELSE Rest

StartListening(m) ==
    /\ MacroTurn(m) /\ pc[m] = "starting"
    /\ kind[m] \in {"mod_tap", "if_single"}
    /\ listeners' = listeners \cup {Listener(m)}
    /\ jam' = [jam EXCEPT ![m] = <<>>]
    /\ decidedBy' = [decidedBy EXCEPT ![m] = {}]
    /\ IF holds[m]
       THEN Goto(m, "deciding") /\ ready' = Rest
       ELSE Goto(m, "waking") /\ ready' = Append(Rest, Wake(m, 2))
    /\ UNCHANGED <<inputVars, eventVars, run, holds, keysDown, count>>

StartIfTap(m) ==
    /\ MacroTurn(m) /\ pc[m] = "starting"
    /\ kind[m] = "if_tap"
    /\ Goto(m, IF holds[m] THEN "tap_down" ELSE "tap_up")
    /\ ready' = Rest
    /\ UNCHANGED <<inputVars, eventVars, listeners, run, holds, jam, keysDown, count, decidedBy>>

\* A trigger that was released already leaves a tap without a pause.
StartHold(m) ==
    /\ MacroTurn(m) /\ pc[m] = "starting"
    /\ kind[m] = "hold"
    /\ IF holds[m] THEN Goto(m, "until_release") /\ Down(m)
       ELSE Goto(m, "idle") /\ UNCHANGED keysDown
    /\ ready' = Rest
    /\ UNCHANGED <<inputVars, eventVars, listeners, run, holds, jam, count, decidedBy>>

\* KeyTask, as the macro that is an argument of the others.
TapKey(m) == Down(m) /\ Goto(m, "tapping") /\ KeycodePause(m)

Stops(m) == Goto(m, "idle") /\ ready' = Rest /\ UNCHANGED keysDown

\* The loops of hold(macro) and wheel, which sleep before they look at the trigger again.
HoldMacro(m) ==
    /\ MacroTurn(m) /\ pc[m] \in {"starting", "resting"}
    /\ \/ kind[m] = "hold_macro" /\ IF holds[m] THEN TapKey(m) ELSE Stops(m)
       \/ kind[m] = "wheel" /\ IF holds[m] THEN /\ Goto(m, "resting") /\ ready' = Rest
                                               /\ UNCHANGED keysDown
                               ELSE Stops(m)
    /\ UNCHANGED <<inputVars, eventVars, listeners, run, holds, jam, count, decidedBy>>

\* That of toggle goes on until the trigger is pressed again.
Toggle(m) ==
    /\ MacroTurn(m) /\ pc[m] \in {"starting", "resting"}
    /\ kind[m] = "toggle"
    /\ IF count[m] <= 1 THEN TapKey(m) /\ UNCHANGED count
       ELSE Stops(m) /\ count' = [count EXCEPT ![m] = 0]
    /\ UNCHANGED <<inputVars, eventVars, listeners, run, holds, jam, decidedBy>>

Repeat(m) ==
    /\ MacroTurn(m) /\ pc[m] \in {"starting", "ending"}
    /\ kind[m] = "repeat"
    /\ count' = [count EXCEPT ![m] = IF pc[m] = "starting" THEN 1 ELSE @ + 1]
    /\ IF count'[m] <= Repeats THEN TapKey(m) ELSE Stops(m)
    /\ UNCHANGED <<inputVars, eventVars, listeners, run, holds, jam, decidedBy>>

\* The modifier of modify goes down, the macro is run, and the modifier goes up.
Modify(m) ==
    /\ MacroTurn(m) /\ kind[m] = "modify"
    /\ \/ pc[m] = "starting" /\ Down(m) /\ Goto(m, "modifying") /\ KeycodePause(m)
       \/ pc[m] = "modifying" /\ TapKey(m)
       \/ pc[m] = "ending" /\ Up(m) /\ Goto(m, "unmodifying") /\ KeycodePause(m)
       \/ pc[m] = "unmodifying" /\ Stops(m)
    /\ UNCHANGED <<inputVars, eventVars, listeners, run, holds, jam, count, decidedBy>>

\* The keys of hold_keys go down one after the other, and up when the trigger does.
HoldKeys(m) ==
    /\ MacroTurn(m) /\ kind[m] = "hold_keys"
    /\ LET pressed == pc[m] = "pressing" /\ count[m] = Symbols
       IN  \/ pc[m] = "starting" /\ Down(m) /\ Goto(m, "pressing") /\ KeycodePause(m)
              /\ count' = [count EXCEPT ![m] = 1]
           \/ pc[m] = "pressing" /\ ~pressed /\ Down(m) /\ Goto(m, "pressing")
              /\ KeycodePause(m) /\ count' = [count EXCEPT ![m] = @ + 1]
           \/ pressed /\ holds[m] /\ Goto(m, "until_release") /\ ready' = Rest
              /\ UNCHANGED <<keysDown, count>>
           \/ /\ (pressed /\ ~holds[m]) \/ (pc[m] \in {"released", "releasing"} /\ count[m] > 0)
              /\ Up(m) /\ Goto(m, "releasing") /\ KeycodePause(m)
              /\ count' = [count EXCEPT ![m] = @ - 1]
           \/ pc[m] = "releasing" /\ count[m] = 0 /\ Stops(m) /\ UNCHANGED count
    /\ UNCHANGED <<inputVars, eventVars, listeners, run, holds, jam, decidedBy>>

\* then or else of if_single and if_tap.
IfSingleDecides(m) ==
    /\ MacroTurn(m) /\ pc[m] = "waking"
    /\ kind[m] = "if_single"
    /\ listeners' = listeners \ {Listener(m)}
    /\ TapKey(m)
    /\ UNCHANGED <<inputVars, eventVars, run, holds, jam, count, decidedBy>>

IfTapDecides(m) ==
    /\ MacroTurn(m) /\ pc[m] \in {"released", "timed_out"}
    /\ kind[m] = "if_tap"
    /\ TapKey(m)
    /\ UNCHANGED <<inputVars, eventVars, listeners, run, holds, jam, count, decidedBy>>

TapUp(m) ==
    /\ MacroTurn(m) /\ pc[m] = "tapping"
    /\ Up(m)
    /\ Goto(m, "ending")
    /\ KeycodePause(m)
    /\ UNCHANGED <<inputVars, eventVars, listeners, run, holds, jam, count, decidedBy>>

\* The modifier or the default goes down...
ModTapDecides(m) ==
    /\ MacroTurn(m) /\ pc[m] = "waking"
    /\ kind[m] = "mod_tap"
    /\ Down(m)
    /\ Goto(m, "draining")
    /\ KeycodePause(m)
    /\ UNCHANGED <<inputVars, eventVars, listeners, run, holds, jam, count, decidedBy>>

\* Mutant: throttle does not wait.
LetGoUnthrottled(m) ==
    /\ MacroTurn(m) /\ pc[m] = "draining" /\ kind[m] = "mod_tap"
    /\ jam[m] # <<>>
    /\ LET i == Head(jam[m])
       IN  /\ stage' = [stage EXCEPT ![i] = "called"]
           /\ ready' = IF zeroSleep THEN Append(Append(Rest, Wake(i, HeadStart)), Wake(m, 0))
                                    ELSE Append(Rest, Wake(i, HeadStart))
    /\ jam' = [jam EXCEPT ![m] = Tail(@)]
    /\ UNCHANGED <<inputVars, left, listeners, pc, run, holds, keysDown, count, known, decidedBy>>

\* ... then the keys that waited may go on, one after the other, each with its five
\* sleeps; keycode_pause or throttle take some time in between.
LetGo(m) ==
    /\ MacroTurn(m) /\ pc[m] = "draining" /\ kind[m] = "mod_tap"
    /\ jam[m] # <<>>
    /\ LET i == Head(jam[m])
       IN  /\ stage' = [stage EXCEPT ![i] = "called"]
           /\ ready' = Append(Rest, Wake(i, HeadStart))
    /\ jam' = [jam EXCEPT ![m] = Tail(@)]
    /\ UNCHANGED <<inputVars, left, listeners, pc, run, holds, keysDown, count, known, decidedBy>>

\* Mutant: keys that wait are forgotten with the listener.
StopListeningEarly(m) ==
    /\ MacroTurn(m) /\ pc[m] = "draining" /\ kind[m] = "mod_tap"
    /\ listeners' = listeners \ {Listener(m)}
    /\ IF holds[m]
       THEN Goto(m, "until_release") /\ ready' = Rest /\ UNCHANGED keysDown
       ELSE Up(m) /\ Goto(m, "ending") /\ KeycodePause(m)
    /\ UNCHANGED <<inputVars, eventVars, run, holds, jam, count, decidedBy>>

\* "We remove this as late as possible."
StopListening(m) ==
    /\ MacroTurn(m) /\ pc[m] = "draining" /\ kind[m] = "mod_tap"
    /\ jam[m] = <<>>
    /\ listeners' = listeners \ {Listener(m)}
    /\ IF holds[m]
       THEN Goto(m, "until_release") /\ ready' = Rest /\ UNCHANGED keysDown
       ELSE Up(m) /\ Goto(m, "ending") /\ KeycodePause(m)
    /\ UNCHANGED <<inputVars, eventVars, run, holds, jam, count, decidedBy>>

\* mod_tap and hold(key), when the trigger is released.
KeyUp(m) ==
    /\ MacroTurn(m) /\ pc[m] = "released"
    /\ kind[m] \in {"mod_tap", "hold"}
    /\ Up(m)
    /\ IF kind[m] = "mod_tap"
       THEN Goto(m, "ending") /\ KeycodePause(m)
       ELSE Goto(m, "idle") /\ ready' = Rest
    /\ UNCHANGED <<inputVars, eventVars, listeners, run, holds, jam, count, decidedBy>>

\* hold(macro) and toggle sleep 1 ms before they look at the trigger again.
End(m) ==
    /\ MacroTurn(m) /\ pc[m] = "ending" /\ kind[m] \notin {"repeat", "modify"}
    /\ Goto(m, IF kind[m] \in {"hold_macro", "toggle"} THEN "resting" ELSE "idle")
    /\ ready' = Rest
    /\ UNCHANGED <<inputVars, eventVars, listeners, run, holds, jam, keysDown, count, decidedBy>>

\* The tapping_term of mod_tap ends, or the timeout of if_single or if_tap.
TermEnds(m) ==
    /\ \/ /\ pc[m] = "deciding"
          /\ Goto(m, "waking")
          /\ ready' = Append(ready, Wake(m, IF kind[m] = "mod_tap" THEN 1 ELSE 0))
       \/ /\ pc[m] \in {"tap_up", "tap_down"}
          /\ Goto(m, "timed_out")
          /\ ready' = Append(ready, Wake(m, 0))
    /\ UNCHANGED <<inputVars, eventVars, listeners, run, holds, jam, keysDown, count, decidedBy>>

\* Macro.run: of two tasks the second one ends at once, unless the first one has ended.
StartRun(m) ==
    /\ ready # <<>> /\ Head(ready) = NewTask(m)
    /\ IF pc[m] # "idle"
       THEN known' = [known EXCEPT ![m] = FALSE] /\ ready' = Rest /\ UNCHANGED <<pc, run>>
       ELSE /\ Goto(m, "starting") /\ ready' = <<Wake(m, 0)>> \o Rest
            /\ run' = [run EXCEPT ![m] = @ + 1]
    /\ UNCHANGED <<inputVars, eventVars, listeners, holds, jam, keysDown, count, decidedBy>>

\* The cancelled task gets its turn.
Cancelled(m) ==
    /\ MacroTurn(m) /\ pc[m] = "cancelled"
    /\ Goto(m, "idle") /\ ready' = Rest
    /\ UNCHANGED <<inputVars, eventVars, listeners, run, holds, jam, keysDown, count, decidedBy>>

\* Context.reset, by the reader of another device: every MacroHandler is reset.  The task it
\* knows is cancelled: one that did not start never will, another one is wherever it waits,
\* but only in its turn; until then the macro is said to be running.  A run that is not known
\* is only told of the release.  Listeners stay in the context, and so does the count of a
\* toggle.
Reset ==
    /\ MayReset
    /\ holds' = [m \in Macros |-> FALSE]
    /\ keysDown' = [m \in Macros |-> 0]
    /\ known' = [m \in Macros |-> FALSE]
    /\ LET started   == Macros \ {ready[i].task : i \in {j \in DOMAIN ready : ready[j].new}}
           cancelled == {m \in started : known[m]}
           freed     == {m \in Macros \ cancelled : holds[m]}
           newest(i) == ready[i].new /\ \A j \in DOMAIN ready : j > i => ready[j] # ready[i]
           gone(i)   == \/ newest(i) /\ known[ready[i].task]
                        \/ ready[i].task \in cancelled /\ ready[i].hops > 0
           woken     == {Wake(m, 0) : m \in {n \in cancelled : \A i \in DOMAIN ready :
                                                                  ready[i] # Wake(n, 0)}}
                        \cup {Wake(m, 2) : m \in {n \in freed : pc[n] = "deciding"}}
                        \cup {Wake(m, 0) : m \in {n \in freed : pc[n] \in Until}}
       IN  /\ pc' = [m \in Macros |-> CASE m \in cancelled -> "cancelled"
                                        [] m \in freed /\ pc[m] = "deciding" -> "waking"
                                        [] m \in freed /\ pc[m] \in Until -> "released"
                                        [] OTHER -> pc[m]]
           /\ ready' = [i \in DOMAIN ready |-> IF gone(i) THEN Nothing ELSE ready[i]]
                       \o SetToSeq(woken)
    /\ UNCHANGED <<inputVars, eventVars, listeners, run, jam, count, decidedBy>>

-----------------------------------------------------------------------------
MacroInit ==
    /\ kind \in Setups
    /\ zeroSleep \in BOOLEAN
    /\ read = <<>>
    /\ stage = <<>>
    /\ left = <<>>
    /\ ready = <<>>
    /\ listeners = {}
    /\ pc = [m \in Macros |-> "idle"]
    /\ run = [m \in Macros |-> 0]
    /\ holds = [m \in Macros |-> FALSE]
    /\ jam = [m \in Macros |-> <<>>]
    /\ keysDown = [m \in Macros |-> 0]
    /\ count = [m \in Macros |-> 0]
    /\ known = [m \in Macros |-> FALSE]
    /\ decidedBy = [m \in Macros |-> {}]

HandleEvents == \E i \in DOMAIN read : CallListener(i) \/ HandToHandlers(i)

RunMacro(m) ==
    \/ StartListening(m) \/ StartIfTap(m) \/ StartHold(m) \/ HoldMacro(m)
    \/ Toggle(m) \/ Repeat(m) \/ Modify(m) \/ HoldKeys(m) \/ StartRun(m) \/ Cancelled(m)
    \/ IfSingleDecides(m) \/ IfTapDecides(m) \/ TapUp(m)
    \/ ModTapDecides(m) \/ LetGo(m) \/ StopListening(m) \/ KeyUp(m) \/ End(m)

MacroNext ==
    \/ Read
    \/ Hop \/ Skip
    \/ HandleEvents
    \/ \E m \in Macros : RunMacro(m) \/ TermEnds(m)
    \/ Reset

MacroSpec == MacroInit /\ [][MacroNext]_taskVars

\* The loop runs what is ready and what has slept; the terms of mod_tap and if_tap end.
FairSpec ==
    /\ MacroSpec
    /\ WF_taskVars(Hop \/ Skip \/ HandleEvents)
    /\ \A m \in Macros : WF_taskVars(RunMacro(m))
    /\ \A m \in Macros : WF_taskVars(kind[m] \in {"mod_tap", "if_tap"} /\ TermEnds(m))

-----------------------------------------------------------------------------
(* Properties.                                                             *)

Tasks == Macros \cup (1 .. MaxEvents)

\* "This ensures the order of all events that are pressed, until mod_tap is completely
\* finished": no key overtakes one that was read before it.
OrderIsKept ==
    (\A m \in Macros : kind[m] # "if_single") =>
        \A i, j \in DOMAIN read :
            /\ i < j /\ read[i].key \in OtherKeys /\ read[j].key \in OtherKeys
            /\ stage[j] = "handled"
            => stage[i] = "handled"

\* "Running macros have priority": the key that makes if_single decide is not handed
\* to the handlers before if_single did what it decided.
HeadStartIsEnough ==
    [][\A i \in DOMAIN read, m \in Macros :
          stage[i] # "handled" /\ stage'[i] = "handled"
              => ~(pc[m] = "waking" /\ i \in decidedBy[m])]_taskVars

\* Every event that is read gets to the handlers, whatever the macros make it wait
\* for, unless the listener of a cancelled macro is left.
EventsReachTheHandlers ==
    \A i \in 1 .. MaxEvents :
        i \in DOMAIN read
            ~> \/ i \in DOMAIN read /\ stage[i] = "handled"
               \/ \E l \in listeners : ~Live(l)

\* A macro whose trigger was released ends, and takes back the keys it has down, also if
\* it was cancelled, or pressed again meanwhile; a toggle does once two presses are counted.
GoesOn(m) == holds[m] \/ (kind[m] = "toggle" /\ count[m] <= 1)
MacrosEnd ==
    \A m \in Macros : ~GoesOn(m) ~> GoesOn(m) \/ (pc[m] = "idle" /\ keysDown[m] = 0)
=============================================================================
