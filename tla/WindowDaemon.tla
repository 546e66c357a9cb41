---------------------------- MODULE WindowDaemon ----------------------------
(***************************************************************************)
(* The window daemon: WindowDaemonState, the D-Bus methods of              *)
(* WindowDaemonService that change something, the choice of the app rule   *)
(* and ProfilesConfig.bind_device_preset_to_match.                         *)
(*                                                                         *)
(* The service runs on one GLib loop: a D-Bus method or a timer callback   *)
(* is one step, including its synchronous calls to the system daemon, of   *)
(* which "injecting" is all that matters here.  profiles.json is read anew *)
(* in every step ("doc" is the file), and the GUI writes it too.  Which    *)
(* profile was applied last is only told in the status.                    *)
(***************************************************************************)
EXTENDS Naturals, Sequences

CONSTANTS
    Windows,   \* the focused windows, told apart as far as a rule can
    OwnWindows, \* those of input-remapper-gtk
    Devices,   \* group keys
    Presets,   \* preset names
    Profiles,  \* the profiles the user named
    Desktop,   \* desktop_profile, one of them
    Docs,      \* the contents the GUI may give profiles.json
    SlugOf,    \* [Windows -> slugs]: what _slug leaves of the name of an application
    NoWindow,  \* desktop or lock screen
    Blank,     \* BLANK_PRESET: no injection
    None,      \* a missing entry
    Disturbed  \* the devices whose calls may fail, and that others inject, too

VARIABLES
    window,      \* current_window
    debounce,    \* _debounce_id: the timer of 200 ms is running
    grace,       \* _none_grace_id: the timer of 800 ms is running
    applied,     \* applied_presets
    managed,     \* _managed_devices
    automation,  \* _automation_enabled
    doc,         \* the content of profiles.json
    unread,      \* the file was not looked at since the start or the last edit of the GUI
    injecting,   \* what the system daemon injects
    touched      \* for the property: applied devices that others started or stopped since

daemonVars == <<window, debounce, grace, applied, managed, automation, doc, unread>>
vars == <<daemonVars, injecting, touched>>

ProfileNames == Profiles \cup Windows
\* A bound application has the profile APP:<kind>:<value>, here the window itself.
Entries == [Devices -> Presets \cup {Blank, None}]
RuleIds == {SlugOf[w] : w \in Windows}
               \cup UNION {{d.rules[i].id : i \in DOMAIN d.rules} : d \in Docs}
RuleSet == [id : RuleIds, matches : SUBSET Windows,
            profile : ProfileNames, enabled : BOOLEAN, priority : Nat]
Documents ==
    [profiles : UNION {[S -> Entries] : S \in SUBSET ProfileNames},
     persistent : ProfileNames \cup {None}, active : ProfileNames,
     switching : BOOLEAN, rules : Seq(RuleSet)]

ASSUME WindowDaemonAssumption ==
    /\ Desktop \in Profiles
    /\ Profiles \cap Windows = {}
    /\ NoWindow \notin Windows /\ OwnWindows \subseteq Windows
    /\ Blank \notin Presets /\ None \notin Presets \cup ProfileNames
    /\ Disturbed \subseteq Devices
    /\ Docs \subseteq Documents
    \* load() adds the desktop profile and resets a dangling active profile.
    /\ \A d \in Docs : {Desktop, d.active} \subseteq DOMAIN d.profiles

-----------------------------------------------------------------------------
(* Which profile, and which preset of a device, a document asks for.       *)

Hits(d, w) == {i \in DOMAIN d.rules : d.rules[i].enabled /\ w \in d.rules[i].matches}

\* Mutant: the lowest priority comes first.
BestRuleLowest(d, w) ==
    IF Hits(d, w) = {} THEN 0
    ELSE CHOOSE i \in Hits(d, w) :
            \A j \in Hits(d, w) : d.rules[i].priority <= d.rules[j].priority

\* find_matching_app_rule: the index of the enabled rule with the highest priority,
\* the first of them; 0 if none matches.
BestRule(d, w) ==
    LET Before(i, j) == \/ d.rules[i].priority > d.rules[j].priority
                        \/ d.rules[i].priority = d.rules[j].priority /\ i <= j
    IN  IF Hits(d, w) = {} THEN 0
        ELSE CHOOSE i \in Hits(d, w) : \A j \in Hits(d, w) : Before(i, j)

\* _pick_target_profile; w is NoWindow without a window.
TargetProfile(d, w) ==
    LET i == IF w = NoWindow THEN 0 ELSE BestRule(d, w)
    IN  IF d.persistent \in DOMAIN d.profiles THEN d.persistent
        ELSE IF ~d.switching THEN d.active
        ELSE IF i # 0 /\ d.rules[i].profile \in DOMAIN d.profiles THEN d.rules[i].profile
        ELSE Desktop

\* _compute_device_targets: the profile over the desktop profile.
Entry(d, p, dev) ==
    IF p \in DOMAIN d.profiles /\ d.profiles[p][dev] # None
    THEN d.profiles[p][dev]
    ELSE d.profiles[Desktop][dev]

-----------------------------------------------------------------------------
(* The calls to the system daemon, and their outcomes.                     *)

\* stop_injecting raises DBusError, or start_injecting is refused, or it raises
\* DBusError although the daemon starts the injection.
StopOutcomes  == {"done", "lost"}
StartOutcomes == {"done", "refused", "late"}
OnlyDisturbedFail(outcomes) == \A dev \in DOMAIN outcomes : outcomes[dev] = "done" \/ dev \in Disturbed

\* Mutant: the answer of start_injecting is not looked at.
AnswersTrueAlways(outcome) == TRUE

AnswersTrue(outcome) == outcome = "done"

AfterStop(now, outcome) == IF outcome = "done" THEN None ELSE now
AfterStart(now, preset, outcome) == IF outcome = "refused" THEN now ELSE preset

\* What windowd remembers of the devices, and what is really injected.
Now == [applied |-> applied, managed |-> managed, automation |-> automation,
        injecting |-> injecting, touched |-> touched]

Remember(s) ==
    /\ applied' = s.applied
    /\ managed' = s.managed
    /\ automation' = s.automation
    /\ injecting' = s.injecting
    /\ touched' = s.touched

\* Mutant: every device of the profile is managed.
TargetsOfAll(d, p, s) == {dev \in Devices : Entry(d, p, dev) # None}

Targets(d, p, s) == {dev \in Devices : s.automation[dev] /\ Entry(d, p, dev) # None}

\* The preset dev gets out of _apply_profile: None to stop it.
Wanted(d, p, s, dev) ==
    IF dev \in Targets(d, p, s) /\ Entry(d, p, dev) # Blank THEN Entry(d, p, dev) ELSE None

\* Only the devices of the profile and those of the previous one are looked at.
Changing(d, p, s) ==
    {dev \in Targets(d, p, s) \cup s.managed : s.applied[dev] # Wanted(d, p, s, dev)}

\* _apply_profile: each device that changes is stopped if it was started, then started.
Apply(d, p, s) ==
    LET stops  == {dev \in Changing(d, p, s) : s.applied[dev] # None}
        starts == {dev \in Changing(d, p, s) : Wanted(d, p, s, dev) # None}
    IN  \E stop \in [stops -> StopOutcomes], start \in [starts -> StartOutcomes] :
          /\ OnlyDisturbedFail(stop) /\ OnlyDisturbedFail(start)
          /\ LET Stopped(dev) == IF dev \in stops THEN AfterStop(s.injecting[dev], stop[dev])
                                                  ELSE s.injecting[dev]
                 Started(dev) == dev \in starts /\ AnswersTrue(start[dev])
             IN  Remember([s EXCEPT
                     !.managed = Targets(d, p, s),
                     !.applied = [dev \in Devices |->
                         IF Started(dev) THEN Wanted(d, p, s, dev)
                         ELSE IF dev \in stops \cup starts THEN None ELSE s.applied[dev]],
                     !.touched = @ \ (stops \cup starts),
                     !.injecting = [dev \in Devices |->
                         IF dev \in starts
                         THEN AfterStart(Stopped(dev), Wanted(d, p, s, dev), start[dev])
                         ELSE Stopped(dev)]])

-----------------------------------------------------------------------------
(* WindowDaemonState.                                                      *)

\* _on_debounced, after its timer was taken care of.  Without a window the grace timer
\* is started, unless no device is managed.
Reconcile(d, graceRuns, s) ==
    /\ unread' = FALSE
    /\ IF window = NoWindow
       THEN grace' = (graceRuns \/ s.managed # {}) /\ Remember(s)
       ELSE grace' = graceRuns /\ Apply(d, TargetProfile(d, window), s)

\* evaluate_now: both timers are removed.
Evaluate(d, s) == debounce' = FALSE /\ Reconcile(d, FALSE, s)

OnWindowChanged(w) ==
    /\ window' = w
    /\ grace' = (grace /\ w = NoWindow)
    /\ debounce' = TRUE
    /\ UNCHANGED <<applied, managed, automation, doc, unread, injecting, touched>>

\* A window that the KWin script tells; NoWindow if it has neither a class nor a title.
NotifyWindow(w) == OnWindowChanged(w)

Debounced ==
    /\ debounce
    /\ debounce' = FALSE
    /\ Reconcile(doc, grace, Now)
    /\ UNCHANGED <<window, doc>>

\* _on_none_grace_elapsed.
GraceElapsed ==
    /\ grace
    /\ grace' = FALSE
    /\ IF window = NoWindow
       THEN Apply(doc, TargetProfile(doc, NoWindow), Now)
       ELSE Remember(Now)
    /\ UNCHANGED <<window, debounce, doc, unread>>

\* What set_device_automation may leave behind: a device that is given up is stopped.
AutomationSet(dev, enabled) ==
    LET set == [Now EXCEPT !.automation[dev] = enabled]
        GivenUp(outcome) ==
            [set EXCEPT !.managed = @ \ {dev},
                        !.applied[dev] = None,
                        !.touched = @ \ {dev},
                        !.injecting[dev] = IF applied[dev] = None THEN @
                                           ELSE AfterStop(@, outcome)]
    IN  IF enabled THEN {set}
        ELSE {GivenUp(o) : o \in {x \in StopOutcomes : x = "done" \/ dev \in Disturbed}}

-----------------------------------------------------------------------------
(* WindowDaemonService, and the GUI's hand in profiles.json.               *)

\* Either the automation of config.json (_sync_automation_from_config), or nothing.
Init ==
    /\ window = NoWindow
    /\ debounce = FALSE
    /\ grace = FALSE
    /\ applied = [dev \in Devices |-> None]
    /\ managed = {}
    /\ automation \in [Devices -> BOOLEAN]
    /\ doc \in Docs
    /\ unread = TRUE
    /\ injecting = [dev \in Devices |-> None]
    /\ touched = {}

\* The GUI writes profiles.json, and asks for an evaluation in a step of its own.
EditProfiles ==
    /\ doc' \in Docs
    /\ unread' = TRUE
    /\ UNCHANGED <<window, debounce, grace, applied, managed, automation, injecting, touched>>

EvaluateNow ==
    /\ Evaluate(doc, Now)
    /\ UNCHANGED <<window, doc>>

\* The setters save the document and evaluate it.
SaveAndEvaluate(d) ==
    /\ doc' = d
    /\ Evaluate(d, Now)
    /\ UNCHANGED window

SetActiveProfile(p) ==
    p \in DOMAIN doc.profiles /\ SaveAndEvaluate([doc EXCEPT !.active = p])

SetProfileSwitchingEnabled(b) == SaveAndEvaluate([doc EXCEPT !.switching = b])

\* An unknown profile leaves the document as it is.
SetPersistentProfile(p) ==
    SaveAndEvaluate(IF p = None \/ p \in DOMAIN doc.profiles
                    THEN [doc EXCEPT !.persistent = p]
                    ELSE doc)

\* bind_device_preset_to_match: the document that binds the preset of dev to w.
Bound(d, w, dev, preset) ==
    LET entry == IF w \in DOMAIN d.profiles THEN d.profiles[w] ELSE [x \in Devices |-> None]
        rule  == [id |-> SlugOf[w], matches |-> {w}, profile |-> w,
                  enabled |-> TRUE, priority |-> 1000]
        same  == {i \in DOMAIN d.rules : d.rules[i].id = rule.id}
        first == CHOOSE i \in same : \A j \in same : i <= j
    IN  [d EXCEPT !.switching = TRUE,
                  !.profiles = [n \in DOMAIN d.profiles \cup {w} |->
                      IF n = w THEN [entry EXCEPT ![dev] = preset] ELSE d.profiles[n]],
                  !.rules = IF same = {} THEN Append(@, rule) ELSE [@ EXCEPT ![first] = rule]]

BindPresetToCurrentApp(dev, preset) ==
    /\ window \notin OwnWindows \cup {NoWindow}
    /\ SaveAndEvaluate(Bound(doc, window, dev, preset))

\* The copy in the document is never read.
SetDeviceAutomation(dev, enabled) ==
    /\ \E s \in AutomationSet(dev, enabled) : Evaluate(doc, s)
    /\ UNCHANGED <<window, doc>>

\* Quit: what was applied is stopped, everything is forgotten, and the process ends; the
\* next one starts as in Init.
Quit ==
    LET stops == {dev \in Devices : applied[dev] # None}
    IN  /\ \E stop \in [stops -> StopOutcomes] :
            /\ OnlyDisturbedFail(stop)
            /\ injecting' = [dev \in Devices |->
                  IF dev \in stops THEN AfterStop(injecting[dev], stop[dev])
                                   ELSE injecting[dev]]
        /\ applied' = [dev \in Devices |-> None]
        /\ managed' = {}
        /\ touched' = {}
        /\ automation' \in [Devices -> BOOLEAN]
        /\ window' = NoWindow
        /\ debounce' = FALSE
        /\ grace' = FALSE
        /\ unread' = TRUE
        /\ UNCHANGED doc

\* Others who take the device, whether or not it is left to windowd, which is not told: the
\* buttons of the GUI (the stop button calls the daemon before it takes the device from
\* windowd), an autoload of udev or at the login, input-remapper-control.
OthersInject ==
    /\ \E dev \in Disturbed, preset \in Presets \cup {None} :
          /\ injecting' = [injecting EXCEPT ![dev] = preset]
          /\ touched' = touched \cup {e \in {dev} : applied[e] # None}
    /\ UNCHANGED daemonVars

\* The system daemon is restarted and injects nothing.
SystemDaemonRestarts ==
    /\ Disturbed # {}
    /\ injecting' = [dev \in Devices |-> None]
    /\ touched' = {dev \in Devices : applied[dev] # None}
    /\ UNCHANGED daemonVars

\* windowd is killed, and starts anew: a fault, like the calls that fail.
Killed ==
    /\ Disturbed # {}
    /\ applied' = [dev \in Devices |-> None]
    /\ managed' = {}
    /\ touched' = {}
    /\ automation' \in [Devices -> BOOLEAN]
    /\ window' = NoWindow
    /\ debounce' = FALSE
    /\ grace' = FALSE
    /\ unread' = TRUE
    /\ UNCHANGED <<doc, injecting>>

Next ==
    \/ \E w \in Windows \cup {NoWindow} : NotifyWindow(w)
    \/ Debounced
    \/ GraceElapsed
    \/ EditProfiles
    \/ EvaluateNow
    \/ \E p \in Profiles : SetActiveProfile(p)
    \/ \E b \in BOOLEAN : SetProfileSwitchingEnabled(b)
    \/ \E p \in Profiles \cup {None} : SetPersistentProfile(p)
    \/ \E dev \in Devices, preset \in Presets \cup {Blank} : BindPresetToCurrentApp(dev, preset)
    \/ \E dev \in Devices, b \in BOOLEAN : SetDeviceAutomation(dev, b)
    \/ Quit
    \/ OthersInject
    \/ SystemDaemonRestarts
    \/ Killed

Spec == Init /\ [][Next]_vars

-----------------------------------------------------------------------------
(* Properties.                                                             *)

\* What README and docstring promise a device while w has the focus: the persistent
\* profile, or without switching the active one, or that of a rule no other rule
\* outranks, each over the desktop profile.
Promises(d, w, dev, preset) ==
    LET Gives(p) == preset = (IF Entry(d, p, dev) = Blank THEN None ELSE Entry(d, p, dev))
        Rules == IF w = NoWindow THEN {} ELSE
            {d.rules[i] : i \in {j \in DOMAIN d.rules :
                d.rules[j].enabled /\ w \in d.rules[j].matches}}
    IN  IF d.persistent # None /\ d.persistent \in DOMAIN d.profiles THEN Gives(d.persistent)
        ELSE IF ~d.switching THEN Gives(d.active)
        ELSE IF Rules = {} THEN Gives(Desktop)
        ELSE \E r \in Rules : Gives(r.profile) /\ \A o \in Rules : o.priority <= r.priority

Settled == ~debounce /\ ~grace /\ ~unread

\* Once the timers have run out, every device with automation has the preset the profiles
\* promise for the focused window, or for the desktop if some device is managed there,
\* whatever came in between: focus changes within the debounce or grace time, setters,
\* edits of the file (WindowDaemonState._apply_profile, which goes by what it remembers).
PromisesAreApplied ==
    Settled /\ (window # NoWindow \/ managed # {}) =>
        \A dev \in Devices \ Disturbed :
            automation[dev] => Promises(doc, window, dev, applied[dev])

\* Even when calls fail and windowd is killed, what is remembered as applied is injected, so
\* that windowd is right to skip it (state.py: "if current == desired: continue").  That is
\* so as long as nobody else takes the device: of what the GUI, an autoload or a restart of
\* the system daemon does to an injection, windowd learns nothing before it next changes it.
AppliedIsTrue ==
    \A dev \in Devices \ touched : applied[dev] # None => injecting[dev] = applied[dev]

\* state.py:183: "windowd should only manage devices that opted into automation".  A step
\* of windowd does not touch the injection of another device, even if it once managed it.
ManualIsLeftAlone ==
    [][\A dev \in Devices : injecting'[dev] # injecting[dev] => automation[dev] \/ automation'[dev]]_
        daemonVars

=============================================================================
