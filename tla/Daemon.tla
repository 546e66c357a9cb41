------------------------------- MODULE Daemon -------------------------------
(***************************************************************************)
(* The daemon and its injection processes: daemon.Daemon, AutoloadHistory, *)
(* injector.Injector on both sides of its pipe.                            *)
(*                                                                         *)
(* The daemon serves one D-Bus call at a time on its GLib loop; what a     *)
(* call does between two waits or two looks at a process is one step       *)
(* ("call" says where it stands), and the processes, the devices and the   *)
(* clock move between the steps.  Of the outputs of an injection it only   *)
(* matters whether one of them is down.                                    *)
(***************************************************************************)
EXTENDS Sequences

CONSTANTS
    Groups,      \* the keys of the device groups
    Presets,     \* preset names
    Saved,       \* the presets whose file exists
    Configs,     \* "autoload" sections of config.json: [Groups -> Presets \cup {NoPreset}]
    Processes,   \* identities of injection processes, reused after the join
    NoConfig,    \* the config_dir is None
    NoPreset,    \* None, for presets
    NoGroup,     \* the group of a process that does not run
    NoProcess,   \* None, for injectors
    SlowClose,   \* may a process need more than the 2.5 s it is given to close?
    ReadMayFail, \* may a device vanish between the check of its fd and the read?
    MayCrash     \* may a process die of an exception or a signal?

ASSUME DaemonAssumption ==
    /\ Saved \subseteq Presets
    /\ Configs \subseteq [Groups -> Presets \cup {NoPreset}]
    /\ NoConfig \notin Configs
    /\ NoPreset \notin Presets
    /\ NoProcess \notin Processes
    /\ NoGroup \notin Groups
    /\ {SlowClose, ReadMayFail, MayCrash} \subseteq BOOLEAN

VARIABLES
    plugged,     \* the groups whose devices are connected
    known,       \* groups.groups: what the last refresh saw
    infoOld,     \* refreshed_devices_at is more than 10 s ago
    config,      \* what set_config_dir loaded, GlobalConfig
    injectors,   \* Daemon.injectors
    history,     \* AutoloadHistory: the preset, and whether 15 s have not passed
    autoloaded,  \* for the property: the process of the group's last autoload, for 15 s
    call,        \* the daemon's call, and where it stands
    autoloading, \* the groups Daemon.autoload still has to go through
    stopping,    \* the groups Daemon.stop_all still has to go through
    phase,       \* where the process is in Injector.run
    groupOf,     \* Injector.group
    presetOf,    \* Injector.preset
    closeSent,   \* CLOSE is in the pipe to the process
    pipe,        \* the states in the pipe to the daemon
    state,       \* Injector._state: what get_state said last
    holding,     \* the processes whose handlers hold an output down
    outDown      \* the groups that have an output down on the daemon's uinputs

daemonVars  == <<injectors, history, autoloaded, call, autoloading, stopping>>
groupVars   == <<plugged, known, infoOld, config>>
processVars == <<phase, groupOf, presetOf, closeSent, pipe, state>>
outputVars  == <<holding, outDown>>
vars == <<groupVars, daemonVars, processVars, outputVars>>

States == {"UNKNOWN", "STARTING", "RUNNING", "FAILED", "STOPPED", "NO_GRAB", "UPGRADE_EVDEV"}
Phases == {"free", "starting", "reading", "deserted", "closing", "ended", "died"}
Alive(p) == phase[p] \in {"starting", "reading", "deserted", "closing"}

Steps == {"start", "stop", "wait", "spawn", "poll", "judge"}
Calls == [do : Steps, group : Groups, preset : Presets \cup {NoPreset},
          auto : BOOLEAN, restart : BOOLEAN, seen : States]
Idle  == [do |-> "idle"]
Forgotten == [preset |-> NoPreset, recent |-> FALSE]
Histories == [preset : Presets \cup {NoPreset}, recent : BOOLEAN]

Free == call = Idle /\ autoloading = {} /\ stopping = {}

-----------------------------------------------------------------------------
(* The calls.                                                              *)

NewCall(do, g, p, auto) ==
    [do |-> do, group |-> g, preset |-> p, auto |-> auto, restart |-> FALSE,
     seen |-> "UNKNOWN"]

\* A client tells of the user's session; injections go on.
SetConfigDir ==
    /\ Free
    /\ config' \in Configs
    /\ UNCHANGED <<plugged, known, infoOld, daemonVars, processVars, outputVars>>

\* The client's request reaches the daemon; the rest follows in steps.
Request ==
    /\ Free
    /\ \/ \E g \in Groups :
             /\ \/ \E p \in Presets : call' = NewCall("start", g, p, FALSE)
                \/ call' = NewCall("stop", g, NoPreset, FALSE)
                \/ call' = NewCall("poll", g, NoPreset, FALSE)
             /\ UNCHANGED <<autoloading, stopping>>
       \/ /\ config # NoConfig
          /\ \/ \E g \in Groups : autoloading' = {g}
             \/ autoloading' = {g \in Groups : config[g] # NoPreset}
          /\ UNCHANGED <<call, stopping>>
       \/ /\ stopping' = {g \in Groups : injectors[g] # NoProcess}
          /\ UNCHANGED <<call, autoloading>>
    /\ UNCHANGED <<groupVars, injectors, history, autoloaded, processVars, outputVars>>

\* Daemon.refresh.
Refresh(g) ==
    IF infoOld \/ g \notin known
    THEN known' = plugged /\ infoOld' = FALSE
    ELSE UNCHANGED <<known, infoOld>>

MayAutoload(g, p) == history[g].preset # p \/ ~history[g].recent

\* _autoload, up to its start_injecting.
AutoloadNext ==
    /\ call = Idle
    /\ \E g \in autoloading :
          /\ autoloading' = autoloading \ {g}
          /\ Refresh(g)
          /\ call' = IF g \in known' /\ config[g] # NoPreset /\ MayAutoload(g, config[g])
                     THEN NewCall("start", g, config[g], TRUE)
                     ELSE Idle
    /\ UNCHANGED <<plugged, config, injectors, history, autoloaded, stopping, processVars, outputVars>>

StopNext ==
    /\ call = Idle
    /\ \E g \in stopping :
          /\ stopping' = stopping \ {g}
          /\ call' = NewCall("stop", g, NoPreset, FALSE)
    /\ UNCHANGED <<groupVars, injectors, history, autoloaded, autoloading, processVars, outputVars>>

\* Mutant: the autoload is remembered before start_injecting, whose stop forgets it.
HistoryBeforeStart ==
    history' = IF call.auto /\ ~call.restart
               THEN [history EXCEPT ![call.group] = [preset |-> call.preset, recent |-> TRUE]]
               ELSE history

\* What _autoload does after start_injecting, whatever it returned.
HistoryAfterStart ==
    history' = IF call.auto
               THEN [history EXCEPT ![call.group] = [preset |-> call.preset, recent |-> TRUE]]
               ELSE history

\* What the property knows of the start: the process, or that there is none.
Note(p) == autoloaded' = IF call.auto THEN [autoloaded EXCEPT ![call.group] = p] ELSE autoloaded

\* Mutant: the previous injector is not stopped.
BeginStartOverlapping ==
    /\ call.do = "start"
    /\ Refresh(call.group)
    /\ IF config # NoConfig /\ call.group \in known' /\ call.preset \in Saved
       THEN call' = [call EXCEPT !.do = "spawn"] /\ UNCHANGED <<history, autoloaded>>
       ELSE call' = Idle /\ HistoryAfterStart /\ Note(NoProcess)
    /\ UNCHANGED <<plugged, config, injectors, autoloading, stopping, processVars, outputVars>>

\* start_injecting, up to the stop of a previous injector.
BeginStart ==
    /\ call.do = "start"
    /\ Refresh(call.group)
    /\ IF config # NoConfig /\ call.group \in known' /\ call.preset \in Saved
       THEN /\ call' = IF injectors[call.group] # NoProcess
                       THEN [call EXCEPT !.do = "stop", !.restart = TRUE]
                       ELSE [call EXCEPT !.do = "spawn"]
            /\ UNCHANGED <<history, autoloaded>>
       ELSE call' = Idle /\ HistoryAfterStart /\ Note(NoProcess)
    /\ UNCHANGED <<plugged, config, injectors, autoloading, stopping, processVars, outputVars>>

AfterStop == IF call.restart THEN [call EXCEPT !.do = "spawn"] ELSE Idle

\* stop_injecting, up to its wait for the process.
SendClose ==
    /\ call.do = "stop"
    /\ LET p == injectors[call.group]
       IN  IF p = NoProcess
           THEN call' = AfterStop /\ UNCHANGED closeSent
           ELSE /\ call' = [call EXCEPT !.do = "wait"]
                /\ closeSent' = [closeSent EXCEPT ![p] = TRUE]
    /\ UNCHANGED <<groupVars, injectors, history, autoloaded, autoloading, stopping,
                   phase, groupOf, presetOf, pipe, state, outputVars>>

\* The end of stop_injecting: the process is joined and forgotten.
Pop(p) ==
    /\ phase' = [phase EXCEPT ![p] = "free"]
    /\ groupOf' = [groupOf EXCEPT ![p] = NoGroup]
    /\ presetOf' = [presetOf EXCEPT ![p] = NoPreset]
    /\ closeSent' = [closeSent EXCEPT ![p] = FALSE]
    /\ pipe' = [pipe EXCEPT ![p] = <<>>]
    /\ state' = [state EXCEPT ![p] = "UNKNOWN"]
    /\ injectors' = [injectors EXCEPT ![call.group] = NoProcess]
    /\ history' = [history EXCEPT ![call.group] = Forgotten]
    /\ autoloaded' = [autoloaded EXCEPT ![call.group] = NoProcess]
    /\ call' = AfterStop
    /\ UNCHANGED <<groupVars, autoloading, stopping>>

Join ==
    /\ call.do = "wait"
    /\ ~Alive(injectors[call.group])
    /\ Pop(injectors[call.group])
    /\ UNCHANGED outputVars

\* Mutant: only a process that grabs is ever terminated.
TerminateStartingOnly ==
    /\ call.do = "wait"
    /\ LET p == injectors[call.group]
       IN  /\ phase[p] = "starting"
           /\ Pop(p)
           /\ holding' = holding \ {p}
    /\ UNCHANGED outDown

\* The deadline of 2.5 s: a process that still grabs its devices (up to 2 s for each
\* of them) does not listen yet, others may be slow.  It is terminated, and no
\* handler is reset.
Terminate ==
    /\ call.do = "wait"
    /\ LET p == injectors[call.group]
       IN  /\ phase[p] = "starting" \/ (SlowClose /\ Alive(p))
           /\ Pop(p)
           /\ holding' = holding \ {p}
    /\ UNCHANGED outDown

\* The rest of start_injecting.
Spawn ==
    /\ call.do = "spawn"
    /\ \E p \in Processes :
          /\ phase[p] = "free"
          /\ phase' = [phase EXCEPT ![p] = "starting"]
          /\ groupOf' = [groupOf EXCEPT ![p] = call.group]
          /\ presetOf' = [presetOf EXCEPT ![p] = call.preset]
          /\ injectors' = [injectors EXCEPT ![call.group] = p]
          /\ Note(p)
    /\ HistoryAfterStart
    /\ call' = Idle
    /\ UNCHANGED <<groupVars, autoloading, stopping, closeSent, pipe, state, outputVars>>

\* get_state: the messages are read...
Poll ==
    /\ call.do = "poll"
    /\ LET p == injectors[call.group]
       IN  IF p = NoProcess
           THEN call' = Idle /\ UNCHANGED pipe
           ELSE /\ call' = [call EXCEPT !.do = "judge",
                                !.seen = IF pipe[p] = <<>> THEN state[p] ELSE pipe[p][Len(pipe[p])]]
                /\ pipe' = [pipe EXCEPT ![p] = <<>>]
    /\ UNCHANGED <<groupVars, injectors, history, autoloaded, autoloading, stopping,
                   phase, groupOf, presetOf, closeSent, state, outputVars>>

\* What get_state makes of a state and of is_alive.
Judged(s, alive) ==
    CASE s = "UNKNOWN" /\ alive                  -> "STARTING"
      [] s \in {"STARTING", "RUNNING"} /\ ~alive -> "FAILED"
      [] OTHER                                   -> s

\* ... and then is_alive is asked, when the process may be further.
Judge ==
    /\ call.do = "judge"
    /\ LET p == injectors[call.group]
       IN  state' = [state EXCEPT ![p] = Judged(call.seen, Alive(p))]
    /\ call' = Idle
    /\ UNCHANGED <<groupVars, injectors, history, autoloaded, autoloading, stopping,
                   phase, groupOf, presetOf, closeSent, pipe, outputVars>>

-----------------------------------------------------------------------------
(* The process: Injector.run.                                              *)

Goto(p, f)  == phase' = [phase EXCEPT ![p] = f]
\* Mutant: the message is not sent.
TellNothing(p, s) == UNCHANGED pipe
Tell(p, s)  == pipe' = [pipe EXCEPT ![p] = Append(@, s)]
\* Mutant: the readers end without a reset.
ResetNoOutputs(p) == holding' = holding \ {p} /\ UNCHANGED outDown

\* The handlers take back what they injected.
ResetOutputs(p) ==
    /\ holding' = holding \ {p}
    /\ outDown' = IF p \in holding THEN outDown \ {groupOf[p]} ELSE outDown

\* The devices of the group are grabbed.
Grab(p) ==
    /\ phase[p] = "starting"
    /\ groupOf[p] \in plugged
    /\ Goto(p, "reading")
    /\ Tell(p, "RUNNING")
    /\ UNCHANGED <<groupVars, daemonVars, groupOf, presetOf, closeSent, state, outputVars>>

\* None of the devices the mappings name could be found and grabbed, in ten attempts each, or
\* evdev is too old.
FailToGrab(p) ==
    /\ phase[p] = "starting"
    /\ Goto(p, "ended")
    /\ \E s \in {"NO_GRAB", "UPGRADE_EVDEV"} : Tell(p, s)
    /\ UNCHANGED <<groupVars, daemonVars, groupOf, presetOf, closeSent, state, outputVars>>

\* A mapping's output goes down or up.
Inject(p) ==
    /\ phase[p] = "reading"
    /\ IF p \in holding
       THEN ResetOutputs(p)
       ELSE holding' = holding \cup {p} /\ outDown' = outDown \cup {groupOf[p]}
    /\ UNCHANGED <<groupVars, daemonVars, processVars>>

\* _msg_listener gets CLOSE: the readers stop and reset the context.
Close(p) ==
    /\ phase[p] \in {"reading", "deserted"}
    /\ closeSent[p]
    /\ Goto(p, "closing")
    /\ ResetOutputs(p)
    /\ UNCHANGED <<groupVars, daemonVars, groupOf, presetOf, closeSent, pipe, state>>

\* Ungrab, STOPPED and the exit.
Exit(p) ==
    /\ phase[p] = "closing"
    /\ Goto(p, "ended")
    /\ Tell(p, "STOPPED")
    /\ UNCHANGED <<groupVars, daemonVars, groupOf, presetOf, closeSent, state, outputVars>>

\* read_one raises OSError: gather ends, no reader resets the context, STOPPED is
\* sent all the same.
FailToRead(p) ==
    /\ ReadMayFail
    /\ phase[p] = "reading"
    /\ plugged' = plugged \ {groupOf[p]}
    /\ Goto(p, "ended")
    /\ Tell(p, "STOPPED")
    /\ holding' = holding \ {p}
    /\ UNCHANGED <<known, infoOld, config, daemonVars, groupOf, presetOf, closeSent, state, outDown>>

Die(p) ==
    /\ MayCrash
    /\ Alive(p)
    /\ Goto(p, "died")
    /\ holding' = holding \ {p}
    /\ UNCHANGED <<groupVars, daemonVars, groupOf, presetOf, closeSent, pipe, state, outDown>>

-----------------------------------------------------------------------------
(* The devices and the clock.                                              *)

Plug(g) ==
    /\ g \notin plugged
    /\ plugged' = plugged \cup {g}
    /\ UNCHANGED <<known, infoOld, config, daemonVars, processVars, outputVars>>

\* The readers of the group end and reset the context; the process lives on and
\* waits for CLOSE.
Unplug(g) ==
    /\ g \in plugged
    /\ plugged' = plugged \ {g}
    /\ LET left == {p \in Processes : phase[p] = "reading" /\ groupOf[p] = g}
       IN  /\ phase' = [p \in Processes |-> IF p \in left THEN "deserted" ELSE phase[p]]
           /\ holding' = holding \ left
           /\ outDown' = IF left \cap holding # {} THEN outDown \ {g} ELSE outDown
    /\ UNCHANGED <<known, infoOld, config, daemonVars, groupOf, presetOf, closeSent, pipe, state>>

InfoAges ==
    /\ ~infoOld
    /\ infoOld' = TRUE
    /\ UNCHANGED <<plugged, known, config, daemonVars, processVars, outputVars>>

\* 15 s after the last autoload of the group.
HistoryAges(g) ==
    /\ history[g].recent \/ autoloaded[g] # NoProcess
    /\ history' = [history EXCEPT ![g].recent = FALSE]
    /\ autoloaded' = [autoloaded EXCEPT ![g] = NoProcess]
    /\ UNCHANGED <<groupVars, injectors, call, autoloading, stopping,
                   processVars, outputVars>>

-----------------------------------------------------------------------------
Init ==
    /\ plugged \in SUBSET Groups
    /\ known = {}
    /\ infoOld = TRUE
    /\ config = NoConfig
    /\ injectors = [g \in Groups |-> NoProcess]
    /\ history = [g \in Groups |-> Forgotten]
    /\ autoloaded = [g \in Groups |-> NoProcess]
    /\ call = Idle
    /\ autoloading = {}
    /\ stopping = {}
    /\ phase = [p \in Processes |-> "free"]
    /\ groupOf = [p \in Processes |-> NoGroup]
    /\ presetOf = [p \in Processes |-> NoPreset]
    /\ closeSent = [p \in Processes |-> FALSE]
    /\ pipe = [p \in Processes |-> <<>>]
    /\ state = [p \in Processes |-> "UNKNOWN"]
    /\ holding = {}
    /\ outDown = {}

ServeCall ==
    AutoloadNext \/ StopNext \/ BeginStart \/ SendClose \/ Join \/ Terminate \/ Spawn
        \/ Poll \/ Judge

Next ==
    \/ SetConfigDir
    \/ Request
    \/ ServeCall
    \/ \E p \in Processes :
          Grab(p) \/ FailToGrab(p) \/ Inject(p) \/ Close(p) \/ Exit(p) \/ FailToRead(p) \/ Die(p)
    \/ \E g \in Groups : Plug(g) \/ Unplug(g) \/ HistoryAges(g)
    \/ InfoAges

Spec == Init /\ [][Next]_vars

\* The daemon goes on with the call it serves; nothing is assumed of the processes.
FairSpec == Spec /\ WF_vars(ServeCall)

-----------------------------------------------------------------------------
(* Properties.                                                             *)

TypeOK ==
    /\ plugged \subseteq Groups
    /\ known \subseteq Groups
    /\ infoOld \in BOOLEAN
    /\ config \in Configs \cup {NoConfig}
    /\ injectors \in [Groups -> Processes \cup {NoProcess}]
    /\ history \in [Groups -> Histories]
    /\ autoloaded \in [Groups -> Processes \cup {NoProcess}]
    /\ call \in Calls \cup {Idle}
    /\ autoloading \subseteq Groups
    /\ stopping \subseteq Groups
    /\ phase \in [Processes -> Phases]
    /\ groupOf \in [Processes -> Groups \cup {NoGroup}]
    /\ presetOf \in [Processes -> Presets \cup {NoPreset}]
    /\ closeSent \in [Processes -> BOOLEAN]
    /\ pipe \in [Processes -> Seq(States)]
    /\ state \in [Processes -> States]
    /\ holding \subseteq Processes
    /\ outDown \subseteq Groups

\* No process injects behind the daemon's back: one that is alive is the injector of
\* its group, so that two of them never compete for the grab of one device.
LiveInjectorIsKnown ==
    \A p \in Processes : Alive(p) => injectors[groupOf[p]] = p

\* A handler of a process that is alive will take the output back.
Owned(g) == \E p \in holding : Alive(p) /\ groupOf[p] = g

OutputsHaveAnOwner == \A g \in outDown : Owned(g)

EndAbandons(g) == \E p \in holding : groupOf[p] = g /\ ~Alive(p)'

OnlyEndsAbandon ==
    \A g \in outDown' : (g \in outDown => Owned(g)) => Owned(g)' \/ EndAbandons(g)

\* No output is left down by stop_injecting, by a restart or by an unplugged device: one
\* loses its owner only in the step in which the process that holds it is terminated, dies
\* or fails to read, never on the way to an orderly end (injector.py:505: "fully stopped
\* (including handler resets/ungrabs)").
OutputsAreTakenBack == [][OnlyEndsAbandon]_vars

\* get_state may look at the pipe before, and at the process after it ended by
\* itself, and call that a failure; the next get_state finds out.
FailureIsCorrected ==
    call.do # "judge" =>
        \A g \in Groups :
            LET p == injectors[g]
            IN  p # NoProcess /\ state[p] = "FAILED" /\ phase[p] = "ended" => pipe[p] # <<>>

\* Whatever AutoloadHistory remembers: the process that the last autoload of a group
\* started is not replaced by another autoload of its preset before 15 s have passed, as
\* udev asks for when it reports one device several times, or when a device is replugged
\* to get rid of its injection (daemon.py:84-93).
NoRedundantAutoload ==
    \A g \in Groups :
        call # Idle /\ call.auto /\ call.do = "stop" /\ call.group = g
            => ~(autoloaded[g] # NoProcess /\ presetOf[autoloaded[g]] = call.preset)

\* Every call returns, even when a process hangs and never reacts to CLOSE: the
\* wait of stop_injecting is bounded.
CallsReturn == ~Free ~> Free
=============================================================================
