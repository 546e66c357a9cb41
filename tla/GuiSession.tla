------------------------------ MODULE GuiSession ------------------------------
(***************************************************************************)
(* A session of the GUI: the device group and the preset it shows, and the *)
(* injections it starts, stops, waits for and follows.  Controller and     *)
(* DataManager run on one GLib loop with the widgets and two timers, one   *)
(* that waits for the state of an injection, and one that follows what     *)
(* windowd injects.  The service and windowd go on meanwhile.              *)
(*                                                                         *)
(* An operation of the GUI is one step, but for set_window_rules_mode:     *)
(* between its call of the service and that of windowd others get a turn.  *)
(* windowd reads the modes before it can be called, and the GUI calls it   *)
(* only if it could when the GUI started.                                  *)
(*                                                                         *)
(* The timer that waits for the end of an injection is left out: it waits  *)
(* for STOPPED, but the service has forgotten an injector by the time      *)
(* stop_injecting returns, and says UNKNOWN until the timer gives up.  Of  *)
(* several timers that wait for a start only the last is kept: the others  *)
(* look at the same state, and give up earlier.                            *)
(***************************************************************************)
EXTENDS ActiveGroup, Naturals

CONSTANTS
    PresetsOf,  \* the presets of each group, none of them empty
    Patience,   \* how often the timer that waits looks (30 times in the code)
    Switchable  \* bound: the groups whose mode the user changes

Presets == UNION {PresetsOf[g] : g \in Groups}

Calls == [group : Groups, enabled : BOOLEAN]

ASSUME SessionAssumption ==
    /\ \A g \in Groups : PresetsOf[g] # {}
    /\ None \notin Presets \cup Calls \cup Nat
    /\ Patience \in Nat /\ Switchable \subseteq Groups

VARIABLES
    preset,    \* the name of active_preset
    automatic, \* config.json: the groups with "window_rules_automation"
    applies,   \* the button "Apply" is sensitive
    switched,  \* the switch of the window rules is on
    reporting, \* show_injector_result is subscribed
    waiting,   \* do_when_injector_state: how often the timer of the last start will look yet
    idle,      \* start_injecting was passed to idle_add
    seen,      \* _last_seen_running_preset
    calling,   \* the call to windowd that set_window_rules_mode is about to make
    injectors, \* the service: Daemon.injectors
    connected, \* WindowDaemonClient.connected
    windowd,   \* "down", "starting" once it has read the modes, "up" when it can be called
    managed,   \* windowd: the groups with automation
    untold     \* the groups whose mode was saved since windowd read the modes, and that it
               \* was not told of (history)

widgets == <<applies, switched>>
startVars == <<reporting, waiting, idle>>
shownVars == <<group, preset, automatic, widgets, startVars, seen, calling>>
windowdVars == <<connected, windowd, managed, untold>>
sessionVars == <<shownVars, injectors, windowdVars>>

-----------------------------------------------------------------------------
(* What the service answers.                                               *)

\* get_active_preset: an injection that failed is still there.
Active(g) == IF injectors[g] = None THEN None ELSE injectors[g].preset

\* get_state: a stopped injector is gone, and its state is UNKNOWN.
State(g) == IF injectors[g] = None THEN "unknown" ELSE injectors[g].state

\* Mutant: an injection that failed is waited for in vain.
OnlyRunning(state) == state = "running"

\* RUNNING, or ERROR, NO_GRAB and UPGRADE_EVDEV, end the wait.
IsResult(state) == state \in {"running", "failed"}

-----------------------------------------------------------------------------
(* The GUI.                                                                *)

Free == calling = None

\* update_manual_controls_for_window_rules_mode, which goes by the mode that is saved.
UpdateControls(g) == applies' = (g \notin automatic)

\* Who listens to "group" and "preset" updates the button and the switch.
Refresh(g) == UpdateControls(g) /\ switched' = (g \in automatic)

\* show_injector_result listens once.
ShowResult == reporting' = FALSE

LoadPreset(p) == preset' = p /\ Refresh(group)

\* Controller.load_group.  Before a preset is loaded, the state of the injection is
\* published: whoever still waits for a result asserts that there is a preset.
LoadGroup(g) ==
    /\ Free
    /\ group' = g
    /\ Refresh(g)
    /\ IF reporting THEN preset' = None ELSE preset' \in PresetsOf[g]
    /\ ShowResult
    /\ UNCHANGED <<automatic, waiting, idle, seen, calling, injectors, windowdVars>>

\* Controller.start_injecting for the active preset p.  The service may refuse.  (That a
\* first click on a preset without a left button only warns is one that does nothing.)
Start(p) ==
    \/ /\ waiting' = Patience
       /\ reporting' = TRUE
       /\ injectors' = [injectors EXCEPT ![group] = [state |-> "starting", preset |-> p]]
    \/ reporting' = FALSE /\ UNCHANGED <<waiting, injectors>>

Apply ==
    /\ Free /\ applies /\ preset # None
    /\ Start(preset)
    /\ UNCHANGED <<group, preset, automatic, widgets, idle, seen, calling, windowdVars>>

\* PresetEntry: a click on a preset loads it, and starts it.
SelectPreset(p) ==
    /\ Free /\ p \in PresetsOf[group]
    /\ LoadPreset(p)
    /\ IF group \in automatic THEN UNCHANGED <<reporting, waiting, injectors>>
                              ELSE Start(p)
    /\ UNCHANGED <<group, automatic, idle, seen, calling, windowdVars>>

\* create_preset and copy_preset show another preset, and start nothing.
AddPreset(p) ==
    /\ Free /\ p \in PresetsOf[group]
    /\ LoadPreset(p)
    /\ UNCHANGED <<group, automatic, startVars, seen, calling, injectors, windowdVars>>

\* GlobalConfig.set_window_rules_mode.
SaveMode(g, enabled) ==
    /\ automatic' = IF enabled THEN automatic \cup {g} ELSE automatic \ {g}
    /\ untold' = IF windowd = "down" THEN untold ELSE untold \cup {g}

\* Mutant: windowd is told, but the mode is not saved.
ModeIsNotSaved(g, enabled) ==
    /\ g \in Switchable
    /\ injectors' = [injectors EXCEPT ![g] = None]
    /\ calling' = [group |-> g, enabled |-> enabled]
    /\ UNCHANGED <<automatic, connected, windowd, managed, untold>>

\* set_window_rules_mode up to the call of windowd: the mode is saved, and the injection
\* is stopped.
SetMode(g, enabled) ==
    /\ g \in Switchable
    /\ SaveMode(g, enabled)
    /\ injectors' = [injectors EXCEPT ![g] = None]
    /\ calling' = [group |-> g, enabled |-> enabled]
    /\ UNCHANGED <<connected, windowd, managed>>

\* WindowRulesModeSwitch._on_gtk_toggle.
ToggleMode ==
    /\ Free
    /\ SetMode(group, ~switched)
    /\ switched' = ~switched
    /\ UNCHANGED <<group, preset, applies, startVars, seen>>

\* Controller.stop_injecting: in automatic mode the "emergency stop".
Stop ==
    /\ Free
    /\ IF group \in automatic THEN SetMode(group, FALSE)
       ELSE /\ injectors' = [injectors EXCEPT ![group] = None]
            /\ UNCHANGED <<automatic, calling, windowdVars>>
    /\ UNCHANGED <<group, preset, widgets, startVars, seen>>

\* A client that was not connected when the GUI started calls nobody, and a call fails
\* while windowd is not published.
WindowdAnswers == connected /\ windowd = "up"

\* set_window_rules_mode, the rest.  A windowd that gives a group up stops what it had
\* started there.  The buttons are updated, the switch is not.
CallWindowd ==
    /\ ~Free
    /\ LET g == calling.group
       IN  \/ /\ WindowdAnswers
              /\ managed' = IF calling.enabled THEN managed \cup {g} ELSE managed \ {g}
              /\ untold' = untold \ {g}
              /\ \/ UNCHANGED injectors
                 \/ ~calling.enabled /\ injectors' = [injectors EXCEPT ![g] = None]
           \/ ~WindowdAnswers /\ UNCHANGED <<managed, untold, injectors>>
    /\ UpdateControls(group)
    /\ calling' = None
    /\ UNCHANGED <<group, preset, automatic, switched, startVars, seen, connected, windowd>>

\* ActivePresetMenu._on_row_activated: the preset is loaded; where windowd switches the
\* profiles it is bound to the application that has the focus, elsewhere it is started soon.
ActivateRow(p) ==
    /\ Free /\ p \in PresetsOf[group]
    /\ LoadPreset(p)
    /\ \/ group \in automatic /\ UNCHANGED <<automatic, injectors, calling, idle, windowdVars>>
       \/ group \notin automatic /\ WindowdAnswers /\ SetMode(group, TRUE) /\ UNCHANGED idle
       \/ /\ group \notin automatic /\ idle' = TRUE
          /\ UNCHANGED <<automatic, injectors, calling, windowdVars>>
    /\ UNCHANGED <<group, reporting, waiting, seen>>

\* start_injecting, called by idle_add.
IdleStart ==
    /\ Free /\ idle
    /\ idle' = FALSE
    /\ IF preset = None THEN UNCHANGED <<reporting, waiting, injectors>>
                        ELSE Start(preset)
    /\ UNCHANGED <<group, preset, automatic, widgets, seen, calling, windowdVars>>

\* do, every tenth of a second: the timer gives up, or looks at the group that is active by
\* now.
Look ==
    /\ Free /\ waiting # None
    /\ IF waiting > 0 /\ IsResult(State(group))
       THEN waiting' = None /\ ShowResult
       ELSE /\ waiting' = IF waiting = 0 THEN None ELSE waiting - 1
            /\ UNCHANGED reporting
    /\ UNCHANGED <<group, preset, automatic, widgets, idle, seen, calling, injectors,
                   windowdVars>>

\* Mutant: the editor follows in manual mode.
FollowsManual(running) == running # None /\ group \notin automatic /\ preset # running

Follows(running) == running # None /\ group \in automatic /\ preset # running

\* ActivePresetMenu._on_poll_tick: what windowd injects now is shown.
PollTick ==
    LET running == Active(group)
    IN  /\ Free
        /\ running # seen
        /\ seen' = running
        /\ IF Follows(running) THEN LoadPreset(running) ELSE UNCHANGED <<preset, widgets>>
        /\ UNCHANGED <<group, automatic, startVars, calling, injectors, windowdVars>>

-----------------------------------------------------------------------------
(* The others.                                                             *)

\* An injector starts up, fails to, or crashes.
Progress(g) ==
    /\ injectors[g] # None
    /\ \/ injectors[g].state = "starting"
          /\ injectors' = [injectors EXCEPT ![g].state = "running"]
       \/ injectors[g].state \in {"starting", "running"}
          /\ injectors' = [injectors EXCEPT ![g].state = "failed"]
    /\ UNCHANGED <<shownVars, windowdVars>>

\* windowd applies a preset to a group, or none.
WindowdApplies(g, p) ==
    /\ windowd = "up" /\ g \in managed /\ p \in PresetsOf[g] \cup {None}
    /\ injectors' = [injectors EXCEPT ![g] =
           IF p = None THEN None ELSE [state |-> "starting", preset |-> p]]
    /\ UNCHANGED <<shownVars, windowdVars>>

\* windowd ends; the next one goes by config.json.
WindowdEnds ==
    /\ windowd # "down"
    /\ windowd' = "down" /\ managed' = {} /\ untold' = {}
    /\ UNCHANGED <<shownVars, injectors, connected>>

\* WindowDaemonService.__init__: the modes are read.
WindowdStarts ==
    /\ windowd = "down"
    /\ windowd' = "starting" /\ managed' = automatic
    /\ UNCHANGED <<shownVars, injectors, connected, untold>>

\* publish: from now on it can be called.
WindowdPublishes ==
    /\ windowd = "starting"
    /\ windowd' = "up"
    /\ UNCHANGED <<shownVars, injectors, connected, managed, untold>>

\* The GUI is closed or killed, and another one is started and has shown a group since.
GuiRestarts ==
    /\ group' \in Groups /\ preset' \in PresetsOf[group'] /\ Refresh(group')
    /\ reporting' = FALSE /\ waiting' = None /\ idle' = FALSE
    /\ seen' = None /\ calling' = None
    /\ connected' = (windowd = "up")
    /\ UNCHANGED <<automatic, injectors, windowd, managed, untold>>

SessionInit ==
    /\ group \in Groups /\ preset \in PresetsOf[group]
    /\ automatic \in SUBSET Groups
    /\ applies = (group \notin automatic) /\ switched = (group \in automatic)
    /\ reporting = FALSE /\ waiting = None /\ idle = FALSE
    /\ seen = None /\ calling = None
    /\ injectors = [g \in Groups |-> None]
    /\ windowd \in {"down", "starting", "up"} /\ connected = (windowd = "up")
    /\ managed = (IF windowd = "down" THEN {} ELSE automatic) /\ untold = {}

SessionNext ==
    \/ \E g \in Groups : LoadGroup(g) \/ Progress(g)
    \/ \E p \in Presets : SelectPreset(p) \/ AddPreset(p) \/ ActivateRow(p)
    \/ Apply \/ ToggleMode \/ Stop \/ CallWindowd \/ IdleStart
    \/ Look \/ PollTick
    \/ \E g \in Groups, p \in Presets \cup {None} : WindowdApplies(g, p)
    \/ WindowdEnds \/ WindowdStarts \/ WindowdPublishes
    \/ GuiRestarts

\* Time passes, the GLib loop runs its timers, and D-Bus calls return.
SessionSpec ==
    /\ SessionInit /\ [][SessionNext]_sessionVars
    /\ WF_sessionVars(Look) /\ WF_sessionVars(PollTick)
    /\ WF_sessionVars(CallWindowd)

-----------------------------------------------------------------------------
(* Properties.                                                             *)

\* controller.py:835: "mode will apply when windowd starts".  However windowd ends and
\* starts, and however the GUI is killed, toggles, and calls it or not: windowd manages the
\* groups that are saved as automatic.  Exempted are the modes that were saved since it read
\* them, until it is told: it never is if the GUI was started before it was published
\* (client.py:50), or if it was called before that (service.py:147, 194).
WindowdKnowsTheMode ==
    windowd # "down" => \A g \in Groups \ untold : g \in managed <=> g \in automatic

\* data_manager.py:611: 'Will send "injector_state" message once the startup is complete'.
\* If the injection came up or failed while the timer has turns left, and stays so while its
\* group is shown, the result is reported.
StartIsReported ==
    \A g \in Groups :
        (/\ reporting /\ group = g /\ State(g) \in {"running", "failed"}
         /\ waiting \in 1 .. Patience)
            ~> (~reporting \/ group # g \/ State(g) \notin {"running", "failed"})

\* active_preset_menu.py:358: "keeps the header label and editor in sync with the actually
\* injected preset".  A preset that windowd switches to while its group is shown in automatic
\* mode is shown, unless it is gone again, or the user turns away.
SwitchIsFollowed ==
    \A g \in Groups : \A p \in PresetsOf[g] :
        (group = g /\ g \in automatic /\ Active(g) = p /\ seen # p)
            ~> (preset = p \/ group # g \/ g \notin automatic \/ Active(g) # p)
=============================================================================
