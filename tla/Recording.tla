------------------------------ MODULE Recording ------------------------------
(***************************************************************************)
(* Recording a combination: the GUI (ReaderClient, and what Controller and *)
(* DataManager do with a recording) and the privileged ReaderService,      *)
(* which talk through two named pipes that belong to the GUI.              *)
(*                                                                         *)
(* The service handles one command, and the GUI one message, per step.     *)
(* Keys are released by the user; the movement of an axis counts as        *)
(* released when the timer of its handler ends, 0.3 s after it was moved.  *)
(***************************************************************************)
EXTENDS ActiveGroup, Naturals, Sequences, FiniteSets

CONSTANTS
    NoGroup,        \* nothing is shown yet
    Keys, Axes,     \* the inputs
    GroupOf,        \* the group of each input
    Unpluggable,    \* the groups that may be unplugged
    Wander,         \* may the user go to other groups and mappings while recording?
    Hasty,          \* ... or record again within the 0.3 s a movement lasts?
    SlowBoot,       \* may the service take longer than 5 s to start?
    MaxTroubles,    \* bound on the GUIs and the times a group is unplugged, together
    MaxBoots,       \* bound on the services that are started
    MaxRecordings,  \* bound on the recordings
    MaxQueue        \* bound on what waits in a pipe

Inputs == Keys \cup Axes

\* What start_recorder remembers, and what the service was asked to read.
Recorders == [nth : Nat, sentTo : Nat, active : SUBSET Inputs, accumulator : SUBSET Inputs]
Readings == [group : Groups \cup {NoGroup}, nth : Nat]

ASSUME RecordingAssumption ==
    /\ Keys \cap Axes = {}
    /\ GroupOf \in [Inputs -> Groups]
    /\ Unpluggable \subseteq Groups
    /\ NoGroup \notin Groups
    /\ None \notin Recorders /\ None \notin Readings
    /\ {Wander, Hasty, SlowBoot} \subseteq BOOLEAN
    /\ {MaxTroubles, MaxBoots, MaxRecordings, MaxQueue} \subseteq Nat \ {0}

VARIABLES
    gui,       \* "gone", "idle", or "waiting" for the service to start
    guis,      \* counts the GUIs; each has pipes of its own
    outbox,    \* the command that the waiting GUI sends afterwards
    mapping,   \* DataManager has an active mapping
    polling,   \* the GLib timer that calls _read is not removed
    recorder,  \* _recording_generator
    recordings,\* counts the recordings
    commands,  \* the pipe from each GUI to the service
    results,   \* the pipe from the service to the GUI that runs
    service,   \* "down", "booting" or "up"
    boots,     \* counts the services
    attached,  \* the GUI whose pipes the service has opened
    known,     \* the groups as the service discovered them last
    reading,   \* the readers of the service (_tasks)
    heard,     \* the last recording whose command the service handled
    timers,    \* the movements that are not released yet, and in which recording
    held,      \* the keys that are down
    plugged,   \* the groups that are plugged in
    unplugs,   \* counts the times a group was unplugged
    chord      \* what was pressed in a recording until all of it was released

guiVars == <<gui, guis, outbox, group, mapping, polling, recorder, recordings>>
serviceVars == <<service, boots, attached, known, reading, heard, timers>>
deviceVars == <<held, plugged, unplugs>>
vars == <<guiVars, commands, results, serviceVars, deviceVars, chord>>

Command(type, g, n) == [type |-> type, group |-> g, nth |-> n]
Simple(type) == Command(type, NoGroup, 0)
Event(i, pressed) == [type |-> "event", input |-> i, pressed |-> pressed]
GroupsMessage(k) == [type |-> "groups", keys |-> {g \in Groups : k[g] # "absent"}]

\* Nothing is added to a chord after all of it was released.
NewChord(n) == [nth |-> n, inputs |-> {}, down |-> {}]
Over(c) == c.inputs # {} /\ c.down = {}
ChordWith(i) ==
    chord' = IF Over(chord) THEN chord
             ELSE [chord EXCEPT !.inputs = @ \cup {i}, !.down = @ \cup {i}]
ChordWithout(i) == chord' = [chord EXCEPT !.down = @ \ {i}]

-----------------------------------------------------------------------------
(***************************************************************************)
(* The pipes.                                                              *)
(***************************************************************************)
Send(cmds) == commands' = [commands EXCEPT ![guis] = @ \o cmds]

\* Nobody reads the pipes of a GUI that is gone.
Answer(messages) ==
    results' = IF gui # "gone" /\ attached = guis THEN results \o messages ELSE results

RoomFor(pipe) == Len(pipe) < MaxQueue

-----------------------------------------------------------------------------
(***************************************************************************)
(* The GUI.                                                                *)
(***************************************************************************)
\* The user acts when the messages that arrived are handled: _read runs every 30 ms.
UserActs ==
    /\ gui = "idle"
    /\ polling => results = <<>>
    /\ RoomFor(commands[guis])

Recorder(n) == [nth |-> n, sentTo |-> boots, active |-> {}, accumulator |-> {}]

\* The command is written; for a recording, start_recorder goes on.
SendNow(c) ==
    /\ Send(<<c>>)
    /\ IF c.type = "start" THEN /\ recorder' = Recorder(c.nth)
                                /\ recordings' = c.nth
                           ELSE UNCHANGED <<recorder, recordings>>

\* ensure_reader_service_running starts the service and waits.  When the user does not
\* enter the password, pkexec raises and nothing changes.
BootAndWait(c) ==
    /\ boots < MaxBoots
    /\ service' = "booting"
    /\ boots' = boots + 1
    /\ gui' = "waiting"
    /\ outbox' = c
    /\ UNCHANGED <<commands, recorder, recordings>>

\* Mutant: the service is started, but not waited for.
SendCommandAtOnce(c) ==
    /\ UNCHANGED <<gui, outbox>>
    /\ IF service = "down"
       THEN boots < MaxBoots /\ service' = "booting" /\ boots' = boots + 1
       ELSE UNCHANGED <<service, boots>>
    /\ Send(<<c>>)
    /\ IF c.type = "start"
       THEN recorder' = [Recorder(c.nth) EXCEPT !.sentTo = boots'] /\ recordings' = c.nth
       ELSE UNCHANGED <<recorder, recordings>>

\* _send_command, of commands that need the service.
SendCommand(c) ==
    \/ service # "down" /\ SendNow(c) /\ UNCHANGED <<gui, outbox, service, boots>>
    \/ service = "down" /\ BootAndWait(c)

\* The toggle is only sensitive with an active mapping, and off after a recording.
StartRecorder ==
    /\ UserActs
    /\ group # NoGroup /\ mapping /\ recorder = None
    /\ recordings < MaxRecordings
    /\ ~Hasty => (commands[guis] = <<>> /\ timers = {})
    /\ SendCommand(Command("start", group, recordings + 1))
    /\ UNCHANGED <<guis, group, mapping, polling, results, attached, known, reading, heard,
                   timers, deviceVars, chord>>

\* ... by the toggle, or because start_key_recording found an injection running.
StopRecorder ==
    /\ UserActs
    /\ recorder' = None
    /\ Send(<<Simple("stop")>>)
    /\ UNCHANGED <<gui, guis, outbox, group, mapping, polling, recordings, results,
                   serviceVars, deviceVars, chord>>

RefreshGroups ==
    /\ UserActs
    /\ SendCommand(Simple("refresh"))
    /\ UNCHANGED <<guis, group, mapping, polling, results, attached, known, reading, heard,
                   timers, deviceVars, chord>>

\* The wait ends with the first message, or after 5 s, and the command is sent.
WaitEnds ==
    /\ gui = "waiting"
    /\ ~SlowBoot => results # <<>>
    /\ gui' = "idle"
    /\ outbox' = None
    /\ SendNow(outbox)
    /\ UNCHANGED <<guis, group, mapping, polling, results, serviceVars, deviceVars, chord>>

\* Another group, preset or mapping, or none because the preset is empty.
Select ==
    /\ UserActs
    /\ group # NoGroup
    /\ ~Wander => recorder = None
    /\ group' \in Groups /\ mapping' \in BOOLEAN
    /\ UNCHANGED <<gui, guis, outbox, polling, recorder, recordings, commands, results,
                   serviceVars, deviceVars, chord>>
-----------------------------------------------------------------------------
(***************************************************************************)
(* _read.                                                                  *)
(***************************************************************************)
\* A group is loaded with the first groups the GUI hears of.
ReadGroups(m) ==
    /\ m.type = "groups"
    /\ IF group = NoGroup /\ m.keys # {} THEN group' \in m.keys /\ mapping' \in BOOLEAN
                                          ELSE UNCHANGED <<group, mapping>>
    /\ UNCHANGED <<polling, recorder, commands>>

\* The recorder is not running, or did not see the press.
Ignored(m) == recorder # None => (~m.pressed /\ m.input \notin recorder.active)

ReadIgnored(m) ==
    /\ m.type = "event" /\ Ignored(m)
    /\ UNCHANGED <<group, mapping, polling, recorder, commands>>

\* A new input is written to the active mapping.  Without one, update_mapping raises, and
\* GLib drops a timer whose callback raises.
ReadPress(m) ==
    /\ m.type = "event" /\ ~Ignored(m) /\ m.pressed
    /\ recorder' = [recorder EXCEPT !.active = @ \cup {m.input},
                                    !.accumulator = @ \cup {m.input}]
    /\ polling' = (mapping \/ m.input \in recorder.accumulator)
    /\ UNCHANGED <<group, mapping, commands>>

\* Mutant: the first release ends the recording.
ReadReleaseFirst(m) ==
    /\ m.type = "event" /\ ~Ignored(m) /\ ~m.pressed
    /\ recorder' = None
    /\ Send(<<Simple("stop")>>)
    /\ UNCHANGED <<group, mapping, polling>>

\* The last release ends the recording, and the service is told.
ReadRelease(m) ==
    /\ m.type = "event" /\ ~Ignored(m) /\ ~m.pressed
    /\ LET active == recorder.active \ {m.input} IN
       IF active = {} THEN recorder' = None /\ Send(<<Simple("stop")>>)
                      ELSE recorder' = [recorder EXCEPT !.active = active] /\ UNCHANGED commands
    /\ UNCHANGED <<group, mapping, polling>>

ReadMessage ==
    /\ gui = "idle" /\ polling /\ results # <<>>
    /\ results' = Tail(results)
    /\ LET m == Head(results) IN
       ReadGroups(m) \/ ReadIgnored(m) \/ ReadPress(m) \/ ReadRelease(m)
    /\ UNCHANGED <<gui, guis, outbox, recordings, serviceVars, deviceVars, chord>>

-----------------------------------------------------------------------------
(***************************************************************************)
(* The process of the GUI comes and goes, and its pipes with it.           *)
(***************************************************************************)
Gone ==
    /\ gui' = "gone"
    /\ outbox' = None
    /\ recorder' = None
    /\ group' = NoGroup
    /\ mapping' = FALSE
    /\ polling' = FALSE
    /\ results' = <<>>
    /\ UNCHANGED <<guis, recordings, serviceVars, deviceVars, chord>>

\* Controller.close, ReaderClient.terminate.
Close ==
    /\ UserActs
    /\ Send(<<Simple("terminate"), Simple("stop")>>)
    /\ Gone

Crash == gui # "gone" /\ Gone /\ UNCHANGED commands

\* The client makes new pipes before a service is looked for; one that is there is used.
StartGui ==
    /\ gui = "gone"
    /\ guis + unplugs < MaxTroubles
    /\ gui' = "idle"
    /\ guis' = guis + 1
    /\ polling' = TRUE
    /\ IF service = "down"
       THEN boots < MaxBoots /\ service' = "booting" /\ boots' = boots + 1
       ELSE UNCHANGED <<service, boots>>
    /\ UNCHANGED <<outbox, group, mapping, recorder, recordings, commands, results, attached,
                   known, reading, heard, timers, deviceVars, chord>>

-----------------------------------------------------------------------------
(***************************************************************************)
(* ReaderService.                                                          *)
(***************************************************************************)
Exit ==
    /\ service' = "down"
    /\ reading' = None
    /\ timers' = {}
    /\ UNCHANGED <<boots, attached, known, heard>>

Refreshed == [g \in Groups |-> IF g \in plugged THEN "right" ELSE "absent"]

\* The service waits for pipes, opens them and clears them, discovers the groups and
\* sends them.
OpenPipes ==
    /\ service = "booting"
    /\ gui # "gone"
    /\ service' = "up"
    /\ attached' = guis
    /\ known' = Refreshed
    /\ commands' = [commands EXCEPT ![guis] = <<>>]
    /\ results' = <<GroupsMessage(Refreshed)>>
    /\ UNCHANGED <<guiVars, boots, reading, heard, timers, deviceVars, chord>>

\* Paths that were plugged in again may have other names than those that are known.
Openings(k, g) ==
    IF k[g] = "right" THEN {TRUE} ELSE IF g \in plugged THEN BOOLEAN ELSE {FALSE}

\* _stop_reading, then _start_reading, which gives up at the first path it cannot open.
Restart(k, c) ==
    \E opens \in Openings(k, c.group) :
        /\ reading' = IF opens THEN [group |-> c.group, nth |-> c.nth] ELSE None
        /\ chord' = IF opens THEN NewChord(c.nth) ELSE chord

\* A group that is not known is looked for once more.
HandleStart(c) ==
    /\ c.type = "start"
    /\ LET k == IF known[c.group] = "absent" THEN Refreshed ELSE known IN
       /\ known' = k
       /\ IF k[c.group] = "absent" THEN UNCHANGED <<reading, chord>> ELSE Restart(k, c)
    /\ heard' = c.nth
    /\ UNCHANGED <<service, boots, attached, timers, results>>

\* The handlers are not reset, their timers go on.
HandleStop(c) ==
    /\ c.type = "stop"
    /\ reading' = None
    /\ UNCHANGED <<service, boots, attached, known, heard, timers, results, chord>>

HandleRefresh(c) ==
    /\ c.type = "refresh"
    /\ known' = Refreshed
    /\ Answer(<<GroupsMessage(Refreshed)>>)
    /\ UNCHANGED <<service, boots, attached, reading, heard, timers, chord>>

HandleTerminate(c) == c.type = "terminate" /\ Exit /\ UNCHANGED <<results, chord>>

ReadCommand ==
    /\ service = "up"
    /\ commands[attached] # <<>>
    /\ commands' = [commands EXCEPT ![attached] = Tail(@)]
    /\ LET c == Head(commands[attached]) IN
       HandleStart(c) \/ HandleStop(c) \/ HandleRefresh(c) \/ HandleTerminate(c)
    /\ UNCHANGED <<guiVars, deviceVars>>

\* _stop_if_pipes_broken, which looks once a second.
PipesBroken ==
    /\ service = "up"
    /\ gui = "gone"
    /\ Exit
    /\ UNCHANGED <<guiVars, commands, results, deviceVars, chord>>

\* _timeout: after 15 minutes, or at most one more while it reads.
Lifetime ==
    /\ service = "up"
    /\ Exit
    /\ UNCHANGED <<guiVars, commands, results, deviceVars, chord>>

-----------------------------------------------------------------------------
(***************************************************************************)
(* The devices, and the handlers of the service that send their events.    *)
(***************************************************************************)
ReadsInput(i) == reading # None /\ reading.group = GroupOf[i]

Press(k) ==
    /\ k \notin held
    /\ GroupOf[k] \in plugged
    /\ held' = held \cup {k}
    /\ IF ReadsInput(k) THEN /\ RoomFor(results)
                             /\ Answer(<<Event(k, TRUE)>>)
                             /\ ChordWith(k)
                        ELSE UNCHANGED <<results, chord>>
    /\ UNCHANGED <<guiVars, commands, serviceVars, plugged, unplugs>>

Release(k) ==
    /\ k \in held
    /\ held' = held \ {k}
    /\ IF ReadsInput(k) THEN /\ RoomFor(results)
                             /\ Answer(<<Event(k, FALSE)>>)
                             /\ ChordWithout(k)
                        ELSE UNCHANGED <<results, chord>>
    /\ UNCHANGED <<guiVars, commands, serviceVars, plugged, unplugs>>

Movement(a) == [axis |-> a, nth |-> reading.nth]

\* While it moves already, the timer is only put off.
Move(a) ==
    /\ ReadsInput(a)
    /\ Movement(a) \notin timers
    /\ RoomFor(results)
    /\ timers' = timers \cup {Movement(a)}
    /\ Answer(<<Event(a, TRUE)>>)
    /\ ChordWith(a)
    /\ UNCHANGED <<guiVars, commands, service, boots, attached, known, reading, heard, deviceVars>>

\* Mutant: the handler believes that it sent the release already.
AxisReleaseAborted(t) ==
    /\ t \in timers
    /\ timers' = timers \ {t}
    /\ IF t.nth = chord.nth THEN ChordWithout(t.axis) ELSE UNCHANGED chord
    /\ UNCHANGED <<guiVars, commands, results, service, boots, attached, known, reading, heard,
                   deviceVars>>

\* _stage_release, which does not know that the reading was stopped.
AxisRelease(t) ==
    /\ t \in timers
    /\ RoomFor(results)
    /\ timers' = timers \ {t}
    /\ Answer(<<Event(t.axis, FALSE)>>)
    /\ IF t.nth = chord.nth THEN ChordWithout(t.axis) ELSE UNCHANGED chord
    /\ UNCHANGED <<guiVars, commands, service, boots, attached, known, reading, heard, deviceVars>>

\* The readers end, and stay in _tasks; that the keys are up is not read.
Unplug(g) ==
    /\ g \in Unpluggable \cap plugged
    /\ guis + unplugs < MaxTroubles
    /\ unplugs' = unplugs + 1
    /\ plugged' = plugged \ {g}
    /\ held' = {k \in held : GroupOf[k] # g}
    /\ known' = [known EXCEPT ![g] = IF @ = "right" THEN "stale" ELSE @]
    /\ reading' = IF reading # None /\ reading.group = g
                  THEN [reading EXCEPT !.group = NoGroup] ELSE reading
    /\ UNCHANGED <<guiVars, commands, results, service, boots, attached, heard, timers, chord>>

Plug(g) ==
    /\ g \notin plugged
    /\ plugged' = plugged \cup {g}
    /\ UNCHANGED <<guiVars, commands, results, serviceVars, held, unplugs, chord>>

-----------------------------------------------------------------------------
\* The GUI is about to be started, with a service of an earlier GUI or without.
Init ==
    /\ gui = "gone" /\ guis = 0 /\ outbox = None
    /\ group = NoGroup /\ mapping = FALSE /\ polling = FALSE
    /\ recorder = None /\ recordings = 0
    /\ commands = [n \in 1 .. MaxTroubles |-> <<>>]
    /\ results = <<>>
    /\ service \in {"down", "booting"}
    /\ boots = IF service = "down" THEN 0 ELSE 1
    /\ attached = 0
    /\ known = [g \in Groups |-> "absent"]
    /\ reading = None
    /\ heard = 0
    /\ timers = {}
    /\ held = {}
    /\ plugged = Groups /\ unplugs = 0
    /\ chord = NewChord(0)

Next ==
    \/ StartRecorder \/ StopRecorder \/ RefreshGroups \/ WaitEnds \/ Select
    \/ ReadMessage
    \/ Close \/ Crash \/ StartGui
    \/ OpenPipes \/ ReadCommand \/ PipesBroken \/ Lifetime
    \/ \E k \in Keys : Press(k) \/ Release(k)
    \/ \E a \in Axes : Move(a)
    \/ \E t \in timers : AxisRelease(t)
    \/ \E g \in Groups : Unplug(g) \/ Plug(g)

Spec == Init /\ [][Next]_vars

\* GLib runs _read every 30 ms.
FairSpec == Spec /\ WF_vars(ReadMessage)

-----------------------------------------------------------------------------
(***************************************************************************)
(* Properties.                                                             *)
(***************************************************************************)
\* The GUI and the service it talks to have nothing left to tell each other.
Quiet == gui = "idle" /\ service = "up" /\ attached = guis /\ commands[guis] = <<>>

\* reader_client.py:154: "the ReaderService should only send events while the gui is
\* recording".  Once its commands are read, the service reads nothing for a GUI that does
\* not record, and for one that does, it was asked for that very recording, whatever GUIs,
\* recordings and services came before.
ServiceAgrees ==
    Quiet => IF recorder = None THEN reading = None
             ELSE recorder.sentTo = boots => /\ heard = recorder.nth
                                             /\ reading = None \/ reading.nth = recorder.nth

\* data_manager.py:585: 'Will eventually send a "recording_finished" message': when all that
\* was pressed in a recording is released, it ends.
RecordingEnds ==
    \A n \in 1 .. MaxRecordings :
        (recorder # None /\ recorder.nth = n /\ chord.nth = n /\ Over(chord)) ~>
            (recorder = None \/ recorder.nth # n)

\* "It accumulates them into EventCombinations ... It will stop once all keys or inputs are
\* released": what a recording has by its end is what was pressed until all of it was
\* released, although events are sent, read and released by timers in between.
RecordsTheChord ==
    [][(recorder # None /\ recorder' = None /\ gui' # "gone" /\ results' # results)
        => (chord.nth = recorder.nth /\ Over(chord) /\ recorder.accumulator = chord.inputs)]_vars
=============================================================================
