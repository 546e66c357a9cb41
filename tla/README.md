# A verification of input-remapper

input-remapper reads the events of input devices, grabs the devices, and injects other
events in their place, as a preset of mappings asks for. This directory holds TLA+ models
of the parts of it that are concurrent, long-lived or hard to test, the TLC runs that check
them, and proofs, checked by TLAPS, of what matters most about them. Everything is
translated from the code under `src/inputremapper`; `PROJECT.json` maps every definition to
the lines it stands for, and lists what in this code is hard to test (`hazards`) with the
properties that are about it.

* [The system](#the-system): its components, their state, operations and difficulties
* [The models](#the-models): which module stands for which code, and how
* [The runs](#the-runs): what each one checks, its bounds, the fairness
* [Where the code disagrees with what is said of it](#where-the-code-disagrees-with-what-is-said-of-it)
* [The proofs](#the-proofs)
* [What is not modelled](#what-is-not-modelled)
* [Plan](#plan)

## The system

```
 GTK GUI (user) --D-Bus--> Daemon (root) --fork, pipe--> Injector (one process per group)
   |   \                     ^   ^                          |  one asyncio loop:
   |    \--D-Bus--> windowd -/   |                          |  EventReader per device
   |         |        ^      udev, input-remapper-control   |  -> listeners (macros)
   | named   |profiles.json                                 |  -> mapping handlers
   | pipes   v        KWin script                           v
 ReaderService (root)                                 uinputs, owned by the daemon
```

| component | state it keeps | operations | what is hard about it |
|---|---|---|---|
| Event pipeline (`injection/event_reader.py`, `mapping_handlers/`) | per combination: pressed inputs, whether it is active, the forwarded keys that owe a release; what is down on the outputs | an event of a device; `Context.reset` when a device goes away or the injection stops | overlapping combinations in every order of presses and releases; one context shared by the readers of all devices; dropped events |
| Axis handlers (`abs_to_*`, `rel_to_*`, `axis_switch_handler`) | timers, loops, the last value, remainders | motion, release after a while, switching an axis on and off by keys | timers per activation that share a flag; loops that start and end later than the events that ask for it |
| Macros (`injection/macros/`) | per macro: running, pressed, the trigger events; per loop: tasks, listeners | an event goes to listeners, then to handlers, with sleeps in between; a macro starts, waits, decides, ends; cancellation | cooperative scheduling where the order of keys rests on counting turns of the loop; timeouts racing releases |
| Daemon (`daemon.py`) | `injectors`, `autoload_history`, `refreshed_devices_at`, `config_dir` | D-Bus: `set_config_dir`, `start_injecting`, `stop_injecting`, `stop_all`, `get_state`, `autoload`, `autoload_single` | methods that run for seconds while processes change; a deadline, then a kill; udev calls that come twice |
| Injection process (`injection/injector.py`) | grabbed devices, `_state` at the parent, a pipe in each direction | grab, run, CLOSE, STOPPED, crash, terminate | each side reads what the other was some time ago; who takes back outputs that are down |
| Window daemon (`windowd/`) | window, two timers, `_applied_by_device`, `_managed_devices`, automation | `NotifyWindow`, timer callbacks, setters, bindings, `Quit` | debounce and grace timers against synchronous evaluations; its memory of what is injected against calls that fail; other users of the daemon |
| `profiles.json` (`profiles/config.py`), `window_rules.json` (`windowd/config.py`) | profiles, app rules; the rules of old | load with repair, migrate, bind a preset to an application, setters | two processes write; a rule, its profile and the presets in it are edited in different places |
| Window rules dialog (`gui/components/window_rules.py`) | rules, the selected index, a form | add, duplicate, delete, toggle, edit, capture, save | rebuilding the list emits the signals by which the form is written back |
| Presets (`configs/preset.py`, `gui/data_manager.py`, `gui/controller.py`) | the files, the active group, preset and mapping | load, create, copy, rename, delete, follow windowd, save | dialogs during which messages wait and windowd goes on; what refers to presets by name |
| Mapping editor (`gui/components/editor.py`, `configs/mapping.py`, `controller.py`) | the active mapping and input, what the widgets show | record, choose an output, an input, analog or not, thresholds | validators that depend on one another; widgets that learn of changes by queued messages |
| GUI session (`controller.py`, `active_preset_menu.py`, `window_rules_mode.py`) | the mode of each group, timers, one-shot listeners | apply, stop, switch the mode, follow what windowd injects | timers that look at what is active by then; the mode kept in three places |
| Reader service and client (`gui/reader_service.py`, `reader_client.py`, `ipc/pipe.py`) | pipes, the running recorder, what the service reads | commands one way, results the other; life time; recordings | two processes and a recording that ends by itself; restarts on each side |
| Shared dictionary (`ipc/shared_dict.py`) | a dictionary in a process of its own | get and set through one pipe, with a limit of 20 ms | late answers; two processes that add |
| Migrations (`configs/migrations.py`) | the folder of configurations | a list of renames and rewrites at each start | a crash between two of them |
| Device groups (`groups.py`), macro parser, keyboard layouts | data | classify, parse, look up | nothing: sequential functions |

What makes each of them correct:

* *pipeline*: every key that was forwarded, and every output that was pressed, is released
  once the keys that caused it are up; a press has exactly one effect; the longest
  combination that can be injected wins.
* *axes*: an axis that is used as a button is released in time and not earlier; an output
  axis comes to rest; an axis that is switched off moves nothing; no movement is lost.
* *macros*: keys come out in the order they were typed, whatever waits for whom; each event
  reaches the handlers; a macro ends when its trigger is up, with its key up.
* *daemon and injector*: one injection per group, and never one that the daemon does not
  know of; what it says about an injection converges to what is the case; outputs do not
  outlive the injection that pressed them; a device is autoloaded once per plug.
* *windowd*: when the timers have run out, each device that opted in has the preset that the
  profiles promise for the focused window; what it remembers is injected; it leaves other
  devices alone.
* *rules, presets, mappings*: an edit changes what is selected and nothing else; what is
  shown is in the file; what refers to a preset by name refers to one that exists; what the
  validators accept can be injected, and what they refuse is explained.
* *GUI session*: the GUI and windowd agree on who manages a device; a start is answered; the
  editor follows what is injected.
* *reader service*: a recording that the user began is heard, ends when everything is
  released, and nothing reads devices as root when nobody records.

## The models

Thirteen modules hold the model, and each component has an `MC` module that gives TLC its
instance. `MappingEditor` extends `Mappings`; `AxisButtons` implements `HeldButton`; `Axes`
and `ActiveGroup` declare what `AxisButtons` and `AxisHandlers`, or `Recording` and
`GuiSession`, have in common, so that one module can hold the theorems about both
(`KeyPipeline` and `MacroTasks` have no name in common, for the same reason). The
components share no other variables: what one component knows of another is part of its own state
(`injecting` of `WindowDaemon` is all that windowd can see of `Daemon`; the outputs of an
injection are one bit per group in `Daemon` and a set of keys in `KeyPipeline`). Lines that
start with `\* Mutant:` introduce wrong versions of a definition nearby, which show that the
properties depend on it; nothing else uses them.

### KeyPipeline

*Code*: `injection/event_reader.py`, `mapping_handlers/combination_handler.py`,
`hierarchy_handler.py`, `key_handler.py`, `null_handler.py`, the ordering and wrapping of
`mapping_parser.py`, `context.py`.

| state | in the code |
|---|---|
| `pressed[m]`, `requiresRelease[m]`, `outActive[m]` | `_pressed_keys`, `_requires_a_release`, `_output_previously_active` of the CombinationHandler of mapping `m` |
| `readers` | the devices whose `EventReader.read_loop` runs |
| `fwdDown`, `outDown` | keys that are down on the forwarded devices and on the target uinputs |
| `held` | the physical keys; the kernel drops an event that repeats a key's state |

`Press` and `Release` are `EventReader.handle` as a whole: every CombinationHandler that has
the key, in the order of the HierarchyHandler (`Outranks`), with the first one that handles
the press suppressing the rest, the releases injected for a combination
(`ForwardReleases`), the bookkeeping of releases that are owed (`RequiresAfterPress`), and
the forwarding of what nobody handled. They are one step because without a macro nothing in
the handling suspends. `Unplug` is the end of one read loop, with the `Context.reset` that
it brings to all devices; `Stop` and `Start` are the CLOSE of an injection and a new one,
with keys held in any way; `DropEvent` is an overflow of a reader's buffer, of the devices in
`Lagging`. The loops over
handlers have become sets: `Fires` says of each handler whether it is the one.

*Abstracted*: values of events are 0 and 1; a combination has keys only (axes as triggers
come as keys from their own handlers, see `AxisButtons`); the sub-handler at the end either injects a key, is
disabled, or cannot inject.

### Daemon

*Code*: `daemon.py` (calls, `AutoloadHistory`), `injection/injector.py` on both sides of
its pipes.

The daemon serves one D-Bus call at a time, on the GLib loop, but a call takes seconds:
`call` is where it stands, and between its steps processes run, devices come and go and the
clock moves. `start_injecting` is `BeginStart`, then `SendClose`, `Join` or `Terminate` for a
previous injector, then `Spawn`; `get_state` is `Poll` (the pipe is read) and `Judge`
(`is_alive` is asked, later); `autoload` and `stop_all` go through `autoloading` and
`stopping` one group at a time. `Injector.run` is `phase`: starting, reading, deserted (the
devices are gone, the process waits for CLOSE), closing, ended or died. `pipe` and
`closeSent` are the two directions of its pipe, `state` is `Injector._state`.
Durations are booleans that a step of the clock changes: `infoOld` (10 s since the last
refresh), `history[g].recent` (15 s since an autoload). `autoloaded[g]` is not in the code:
what was autoloaded within the 15 s, written when the injection starts, whatever
`AutoloadHistory` remembers of it.

*Abstracted*: what is injected is one bit per group; a process identity is reused after
the join. Three switches say what processes may do beyond the ordinary: `SlowClose` (need
more than the 2.5 s), `ReadMayFail` (a device vanishes between two calls of one read),
`MayCrash`.

### WindowDaemon

*Code*: `windowd/state.py`, `windowd/service.py`, the choice of a rule in
`profiles/config.py` and `ProfilesConfig.bind_device_preset_to_match`.

windowd runs on one GLib loop and every method and timer callback is synchronous, with its
calls to the system daemon: each is one action (`NotifyWindow`, `Debounced`,
`GraceElapsed`, the setters, `BindPresetToCurrentApp`, `Quit`). `Apply` is `_apply_profile`:
the devices whose remembered preset differs from the wanted one are stopped if something was
applied, and started if something is wanted, each call with an outcome of its own. `doc` is
`profiles.json`, which is read anew each time; `EditProfiles` is the GUI that writes it, and
`unread` says that windowd has not looked since. `OthersInject` is everybody else: the GUI,
`autoload` of the daemon and key combinations start and stop injections of any group, with
automation or without, and `SystemDaemonRestarts` ends all of them. windowd is not told.
`touched` is not in the code: the devices whose injection others changed since windowd last
changed it. `Disturbed` are the devices whose calls may fail or be answered after windowd gave
up, and that single calls of others start and stop.

*Abstracted*: what a rule matches is the set `matches` of windows; a read and the write that
follows it in a setter are one step (see below); the debounce and grace periods are timers
that may end at any time. `current_profile` is left out: it is only told in the status.

### MacroTasks

*Code*: `send_to_listeners` and `handle` of `event_reader.py`, `macros/macro.py`,
`mapping_handlers/macro_handler.py`, and the tasks that wait or go on for the trigger:
`mod_tap`, `if_single`, `if_tap`, `hold`, `hold_keys`, `modify`, `repeat`, `toggle`, `wheel`,
`mouse`.

The order of keys rests on how many turns of the asyncio loop each side takes, so `ready` is
the loop's queue: first come, first served; an entry with `hops` left is queued again, for
each `asyncio.sleep(0)` and for the callbacks between a future and the task that awaits it.
`Read` makes a task per event; `CallListener` and `HandToHandlers` are the turns of such a
task, the rest are turns of macros. A sleep with a duration ends when nothing is ready.
`Macro.running` is set when the task gets its turn, so a second press in a burst makes a
second task (`StartRun`); `MacroHandler` only remembers the newest, and forgets it when any of
them ends (`known`). `Reset` cancels the one that is remembered, which ends in its next turn;
an entry that this leaves without effect becomes `Nothing`, which the loop skips (`Skip`).

*Abstracted*: what is typed, except how many keys a macro has down; the tasks that run in one
go; chains of tasks, except for the macro that `hold`, `modify`, `repeat` or `toggle` run.

### Recording

*Code*: `gui/reader_client.py`, `gui/reader_service.py`, `ipc/pipe.py`, and of
`gui/controller.py` and `gui/data_manager.py` what a recording changes.

`commands` and `results` are the named pipes: they belong to a GUI, `guis` counts the GUIs,
and `attached` says whose pipes the service has opened. `StartRecorder`, `StopRecorder` and
`RefreshGroups` are what the user can ask for, with `ensure_reader_service_running` between
the request and the command (`BootAndWait`, `WaitEnds`); `ReadMessage` is `_read`, the
callback of a GLib timer, one message a step. The service handles commands (`ReadCommand`)
and sends events (`Press`, `Release`, `Move`, and `AxisRelease`, the timer by which the
movement of an axis is released); it ends with its GUI (`PipesBroken`), on `terminate` or
when its lifetime is over. `chord` is not in the code: what was pressed in a recording, by
the order of the service, until all of it was released.

*Abstracted*: combinations are sets; the groups message is the set of groups.

### HeldButton and AxisButtons

*Code*: `mapping_handlers/rel_to_btn_handler.py`, `abs_to_btn_handler.py`, `abs_util.py`, and
of `combination_handler.py` what a combination of two axes needs.

`HeldButton` is what a relative axis promises as a button, in four actions: it is down while
the axis is fast enough, and up between `release_timeout` and a period of the timer later.
`AxisButtons` is how the code does it: `timers` has the time until each `_stage_release` task
looks at the clock again, all of them share `abort` (`_abort_release`), and `idle` is the
time since `_last_activation`. `MoveStick` is `AbsToBtnHandler.notify` with its three ways
out (not pressed, pressed, on the other side), in integers: doubled and in percent, so that
nothing is rounded. `Tick` passes time only when no timer is due, which is what an event loop
without load does.

### AxisHandlers

*Code*: `axis_switch_handler.py`, `abs_to_abs_handler.py`, `abs_to_rel_handler.py`,
`rel_to_abs_handler.py`, `rel_to_rel_handler.py`, `axis_transform.py`.

`pipeline` says which of the four handlers is meant, and whether keys switch it. `ready` has
the callbacks of the asyncio loop: an event that was read (`Read`), a loop that was created
(`Start`), a turn of the recenter loop (`Turn`); `running`, `stop` and `center` change only
when these get their turn. A recenter loop is created, moving, resting or ending, or cancelled
and not yet ended, since `Task.cancelled()` is true one turn after `cancel()`. `loops` has each
output loop with what it carries from step to step, and `carried` is the same for a relative
axis. `remainder` and `owed` say what is left of a movement and how much of it was not written.
`raced` is not in the code: an event came between a callback that was scheduled and its turn.

*Abstracted*: the transfer curve is linear with a deadzone, in integers.

### Mappings and MappingEditor

*Code*: `configs/mapping.py`, `configs/input_config.py`, `configs/validation_errors.py`, the
choice of handlers in `mapping_parser.py` (`Mappings`); `gui/components/editor.py`, and of
`controller.py` and `data_manager.py` what edits the active mapping (`MappingEditor`).

`Mappings` is operators only: the validators of `UIMapping` and `Mapping` (`Errors`), the
handlers that MappingParser builds (`Pipeline`), and when it succeeds (`Handled`), that is
when the parser does not raise and every constructor finds what it looks up: the handlers of
an absolute output need the axis among the capabilities of the target (`Axes`, `HasAxis`). In
`MappingEditor` every GTK handler is an action, and operators on a record of the state are
the calls it consists of; `Fails` is an exception, which ends the handler but keeps what was
changed before. `rows`, `row`, `list`, `listRow`, `shown`, `input` and `page` are what the
widgets remember of the messages they got.

*Abstracted*: texts are a handful of symbols (nothing, a key, a macro, a macro that does not
parse, "disable", an unknown name); thresholds have few values.

### PresetStore

*Code*: `configs/preset.py`, and of `controller.py` and `data_manager.py` what deals with
groups and presets; the poll of `active_preset_menu.py`.

`files` are the presets of each model of a device, as similar devices, which are groups of
their own (`mouse` and `mouse 2`), share one folder by their name; autoload and window rules go
by the key of the group. `preset`, `mappings`, `active` and `saved` the preset
that is shown; `asking` is a dialog that is open, during which messages wait in `queue` and
the poll may load the preset that windowd applied (`FollowActive`).

### WindowRules

*Code*: `gui/components/window_rules.py`, the rules in `data_manager.py`,
`windowd/config.py`, the migration and the binding in `profiles/config.py`.

`dialog` has the rules, the index of the one that is selected and the form. `Rebuild` is
`_rebuild_listbox` with the signals it emits, which `Select` and `Deselect` handle. The form
does not hold everything a rule may: its spin button ends at 999, and a rule that a preset was
bound to a window with has priority 1000 (`Clamped`).
`SaveRules` is `save_window_rules_for_device_preset`: `Upserted` if there is a
`profiles.json`, else `Merged` into `window_rules.json`. windowd starts and migrates, ends,
and makes bindings for other D-Bus clients while the dialog, which is modal, is open. A list that the code filters is `Kept`, the elements at a set of
places in their order. A profile that a file does not have is one without presets, which is
what every reader takes it for. The ids of a file are distinct at first, as uuids are.

*Abstracted*: two of the seven fields of a match, one that is compared and one that is a
regular expression; ids in place of uuids. A dialog that is hidden keeps its form and
selection in the model, as in the code, but not its rules, which `open` replaces.

### GuiSession

*Code*: starting, stopping and following an injection in `controller.py`, `data_manager.py`,
`active_preset_menu.py`, `window_rules_mode.py`; `windowd/client.py`.

`waiting` is the timer of `do_when_injector_state`, `reporting` the listener that shows the
result of a start, `seen` the poll's `_last_seen_running_preset`. `CallWindowd` is the second
half of `set_window_rules_mode`: between the call of the service and that of windowd,
injections and windowd go on. `injectors`, `windowd` and `managed` are the other processes.
windowd starts in two steps: it reads the modes (`WindowdStarts`), and can be called later
(`WindowdPublishes`). The GUI calls it only if it could be called when the GUI started
(`connected`, which `GuiRestarts` sets anew). `untold` is not in the code: the groups whose mode
was saved after windowd had read the modes and that it was not told of.

## The runs

Twelve runs with 39 properties; each property has a mutant in `PROJECT.json`, a plausible bug
that the run finds.

| run | instance | states | what it shows |
|---|---|---|---|
| `pipeline_overlap` | 5 keys of 2 devices, 8 mappings; the mouse loses events, either device may go, the injection stops and starts | 19 000 | overlapping, nested and permuted combinations, a disabled key and an output that cannot be injected: nothing is stuck, no press vanishes or has two outputs, the longest combination wins |
| `daemon_faults` | 1 group, 2 presets (one without a file), 2 processes that hang, die or cannot read | 80 000 | the daemon's book-keeping survives its processes, an output is only lost with the process that holds it, and every call returns |
| `window_follow` | 2 windows (one the GUI's own), a keyboard and a mouse whose calls fail and that others inject; restarts of either daemon | 178 000 | after any sequence of focus changes, setters, bindings and edits, once the timers have run out, each undisturbed device has what the profiles promise; what is remembered is injected unless others changed it; other devices are left alone |
| `macros_alone` | each macro that waits or goes on, 1 other key, 4 events, resets | 149 000 | keys keep their order, five sleeps are enough of a head start, every event is handled, macros end |
| `macros_two_mod_taps` | 2 mod_taps, 1 key, 4 events | | a violation, see below |
| `recording_restarts` | a mouse with a button and a wheel, 2 recordings, 2 services, 2 GUIs or a GUI and an unplug | 662 000 | GUI and service agree, recordings end once all is released, and have all that was pressed until then |
| `presets_edited` | 2 similar devices that share their presets, 2 presets, 2 combinations | 1 010 000 | what is shown is in the file, no rule of the device comes to name a preset that is gone, a mapping is shown |
| `mapping_edited` | 2 mappings, 3 recordings, 3 stored mappings, 6 edits | 898 000 | what the validators accept gets handlers, errors are explained, rows and widgets show what is edited |
| `axis_buttons` | a mouse, a stick, timers of 3 and 2, up to 4 of them | 54 000 | the button is held as `HeldButton` says (a refinement); the key is down only while both axes ask for it |
| `axis_turned` | all 8 pipelines, 5 positions of the stick, a wheel with two codes, 2 events read at once, 3 loops | 1 400 000 | an axis that is off is silent, an output is centered in the end, less than a step is owed |
| `gui_session` | 2 groups of which both have a preset of the same name, the mode of one is changed; windowd down, starting or up | 646 000 | GUI and windowd agree on the mode, a start is reported, the editor follows |
| `rules_edited` | 2 devices, 2 presets, 1 window, 2 edits, a binding by another client | 2 742 000 | the form changes the selected rule only, what is shown is saved and found again, other rules and presets are kept |

### Why the bounds are enough

* *KeyPipeline* is finite without bounds. Handlers of a key only interact through the order
  of the HierarchyHandler and the keys of their combinations. The eight mappings have pairs
  that share one key, contain one another, differ only in order or take a key of either
  device, two keys of one code, with and without `release_combination_keys` and with all
  three kinds of sub-handler. The theorems do away with the bound.
* *Daemon*: two processes are needed for one that is about to be replaced and its successor,
  and one group can never have two, which is what `LiveInjectorIsKnown` says. More groups add
  no interaction, since a call works on one group at a time; the theorems hold for any number.
* *WindowDaemon*: two devices tell apart the one that a profile sets and one that it does
  not, and the one with trouble from the one without; two windows the one with two rules and
  the one with one. The theorems hold for any number of each and any document.
* *MacroTasks*: four events are the press and release of the trigger and of a key, in any
  order, or two presses and releases of the trigger, in one burst or apart. The theorems hold
  for any number of events and macros (for `OrderIsKept`, one of them a mod_tap).
* *Recording*: two recordings are needed for one to be taken for the other; two GUIs and two
  services for commands and results that reach the wrong one; one button and one wheel are
  the two ways in which an input is released. `MaxQueue` bounds the pipes.
* *PresetStore*: two presets are the one that is shown and one that is renamed or copied to,
  deleted or followed; two groups of one model share their presets, which is how groups meet.
  `Meanwhile` is off in the run (see the divergences). The theorems hold for any number and any
  groups that share presets, and all but `EditsReachTheFile` for `Meanwhile = TRUE` too.
* *MappingEditor*: two mappings are what it takes to clash. The recordings have one to two
  inputs, of each type; the stored mappings start where edits do not lead in six steps.
  The theorems hold for any preset, files, recordings and number of edits.
* *AxisButtons*: a period that does not divide the timeout makes the timers look at different
  times; four timers are as many as activations fit into the time that one lives. The theorem
  has no bound.
* *AxisHandlers*: `MaxBatch = 2` is a second event that is read before the first is handled,
  as the reader does when the kernel has several. It takes two to switch an axis off between
  the event that starts a loop and the loop, or to move between the cancellation of a recenter
  loop and its end. `MaxLoops = 3` bounds the output loops that such races leave running side
  by side. The theorems hold for any batch, unit, range and weights.
* *GuiSession*: the timer that waits looks twice instead of thirty times: it can succeed at
  once, later, or give up. `Switchable` are the groups whose mode the user changes, one of the
  two; the other stays with windowd, or without it, as it was. The theorem holds for any number
  of groups and looks.
* *WindowRules*: two edits are one that shifts the rows and one after it; one file has a rule
  whose profile is bound to a window and shared with another device. The binding by another
  client brings a rule whose priority the form cannot hold, which is then opened and saved.

### Fairness

* `WF(ServeCall)`: the daemon goes on with its own call. Nothing is assumed of processes: the
  wait of `stop_injecting` has a deadline (`daemon.py`), so calls return although a process
  may hang.
* `WF(Hop \/ HandleEvents)`, `WF(RunMacro(m))`: asyncio runs what is ready, and sleeps end.
  `WF(TermEnds(m))` only for `mod_tap` and `if_tap`, whose terms are always finite;
  `if_single` may have no timeout.
* `WF(Handle)`, `WF(Tasks)`, `WF(Tick)` of `AxisHandlers`: the loop runs what is ready and
  what is due, and time passes.
* `WF(ReadMessage)`: the GLib timer of 30 ms, as long as it is not removed.
* `WF(Look)`, `WF(PollTick)` of `GuiSession`: the timers of 100 ms and 1 s;
  `WF(CallWindowd)`: a handler goes on after its first call.

Users, devices, injections and other processes are never assumed to do anything. Deadlock is
checked in all runs but those of `MacroTasks` and `MappingEditor`, where the bound on events
or edits ends every behaviour.

## Where the code disagrees with what is said of it

One violation run:

* `macros_two_mod_taps`: an event that waits for the first listener is given to the second
  one although its macro has finished meanwhile, since `send_to_listeners` took a copy
  (`event_reader.py:140`). It is appended to a queue that nobody looks at any more; the key
  is lost. `task.py:97`: "After all listeners are done, the event will go into the mapping
  handlers."

Others were met while modelling. Each is visible in a model with other constants, or is left
out of a property by a condition that names it.

*Event pipeline, daemon, windowd*

* The reader of a device that goes away resets the handlers of *all* devices of the group
  (`event_reader.py:204`); the release of a key that was forwarded from another one is then
  swallowed, against `combination_handler.py:198`. `NoStuckForwardedKey` has
  `readers = Devices` for it.
* `combination_handler.py:211` finds a pending release by type and code, not by device, so
  that of two equal keys of two devices in one combination one release is lost. The theorem
  on forwarded keys assumes `CodesTellApart` for keys that are forwarded.
* An `OSError` while reading ends the process without a reset (`injector.py:487`), and
  STOPPED is sent, which is said to mean "fully stopped (including handler resets/ungrabs)"
  (`injector.py:505`). `OutputsAreTakenBack` speaks of such ends as what they are.
* After 15 s an autoload of the preset that is running stops and starts it (`daemon.py:430`,
  `:456`).
* When windowd starts on the desktop and manages no device yet, the desktop profile is not
  applied before a window gets the focus (`state.py:114`, against the docstring at
  `state.py:25`).
* Two applications whose names have the same slug share one rule id (`profiles/config.py:297`).
  The runs take distinct slugs. The migration has the same gap: a profile may be overwritten.
* The "Stop" button calls the daemon before it tells windowd (`controller.py:820`, `:827`), and
  `autoload` starts injections of devices that were left to windowd (`daemon.py:427`). windowd
  goes on to take what it remembers for injected (`state.py:211`), as it does after a restart
  of the daemon, until it wants something else for the device. `AppliedIsTrue` exempts these
  devices (`touched`).
* The GUI and windowd each read, change and write the whole of `profiles.json`; a write may
  undo one in between. The models make each of them one step.

*Macros*

* `Context.reset` cancels the task of a macro (`macro_handler.py:111`), but its listener stays
  in the context and makes every later key wait for ever (`task.py:99`).
* A key that is read in the same burst as the trigger of a mod_tap gets to the handlers before
  the macro listens. A press of the trigger while its macro finishes does not start it again,
  nor does one between a reset and the end of the cancelled task.
* Press, release and press in one burst make two tasks (`macro_handler.py:86`). The second ends
  at once, and the first is forgotten: a reset no longer cancels it. If the macro is a toggle,
  the first may end before the second gets its turn, which then goes on although the trigger
  was pressed twice: it takes two more presses to stop it. `MacrosEnd` says of a toggle what
  its loop says, that it ends once two presses are counted.
* The key after the one that decides an `if_single` may be handled first, in the two turns
  between the removal of the listener and the end of the other's head start.

*Axes*

* A short flick can leave an axis without its loop: the old loop has not ended when the next
  event finds it running (`abs_to_rel_handler.py:148` against `:59`). When several events are
  read at once, two loops may run at double speed, or one on after the stick came to rest or
  its axis was switched off: the loop only clears `_stop` when it starts. `SilentWhenOff`
  exempts an axis that was switched off while a loop waited to start (`raced`).
* The rest that `abs_to_btn_handler.py:126` speaks of is not always seen: the forwarded axis
  may stay at a value it left while the key was down.
* `AxisSwitchHandler.reset` remembers 0 as the raw value of the axis, which is not the middle
  of every axis. An event that is handled while a recenter loop is being cancelled is not
  recentered until the next one (`rel_to_abs_handler.py:172`, `:177`); `OutputIsCentered`
  exempts that event (`raced`).

*Recording*

* A press that is recorded when the active mapping is gone raises in `data_manager.py:503`,
  out of the callback of the GLib timer, which is removed (`Wander = TRUE`); the recording
  never ends, against `data_manager.py:585`.
* The same exception ends the wait for the service, so that the next command is sent before
  the service opens the pipes, which clears it: `Wander = TRUE` violates `ServiceAgrees`, too.
* `Hasty = TRUE` violates `RecordsTheChord`: the timer that releases a movement goes on when a
  recording is stopped, and ends the next one. `SlowBoot = TRUE` violates `ServiceAgrees`: a
  command sent after the wait of 5 s is cleared when the service opens the pipes.
* A GUI that starts within a second after another one crashed finds its service, which keeps
  the old pipes; it hears nothing until that service ends by its clock.
* A device that is unplugged while it is held is never released; a service that ends during a
  recording is not noticed. What is recorded goes to the mapping that is active when it
  arrives (`controller.py:652`).

*Presets*

* The dialog names a preset, and deletes the one that is active when it is answered
  (`data_manager.py:471`, `controller.py:589`); `Meanwhile = TRUE` lets windowd's preset be
  loaded in between, and then violates `EditsAreSaved`. Answering the other dialogs raises if
  the active mapping is gone by then.
* The thresholds of inputs are edited through `Controller.update_input_config`
  (`controller.py:453`), which does not save, against `readme/usage.md:22`, "Changes are saved
  automatically." `EditsAreSaved` has `~tuned` for it.
* Renaming and deleting keep the legacy `window_rules.json` consistent
  (`data_manager.py:403`-`418`), not the `profiles.json` that windowd uses. Deleting leaves an
  autoload entry behind; renaming leaves the last active preset.
* Groups of equal name share their presets (`groups.py:301`), but only the rules and the
  autoload of the group that is shown follow a preset that is renamed, and only its rules go
  when it is deleted (`data_manager.py:411`, `:486`): those of the sibling go on to name a
  preset that is gone, against "Keep window rules consistent". `RulesNamePresets` is about
  every other rule.

*Mapping editor*

* `TriggerThresholdInput` raises when no input is selected (`controller.py:485`); `editor.py:953`
  sets `rel_xy_cutoff`, which mappings do not have; `ReleaseTimeout` lets 0 be entered, which
  is refused; moving an input runs into an input that the list does not have any more;
  confirming "analog" raises half-way if the result clashes with another mapping. These are
  the exceptions that `broken` stands for.
* A mapping without a kind shows both toggles after the question was refused
  (`ShownIsTheMapping` has `kind # None`). The comment at `controller.py:299` ("there is
  also always another more readable error at the same time") does not hold for a mapping
  whose input was just recorded, nor for one that a file gives an `output_type` of an axis, no
  `output_code`, the type "analog" and an analog input: it is not injected, and nothing says
  why. The editor sets the two together, so only a preset edited by hand has it; the theorem
  `ErrorsAreTold` assumes that none does.
* Nothing checks that the target can emit the axis of a mapping: it may be changed after the
  axis was chosen. The mapping is valid, and the constructor of its handler raises `KeyError`
  if the axis is absolute (`abs_to_abs_handler.py:68`, `rel_to_abs_handler.py:93`); a relative
  one is found missing when an event is to be written. `ValidMeansHandled` exempts the former
  (`LacksAxis`). Two combinations that
  differ only in the threshold of an axis are not ranked. A text that differs from the shown
  one only in its case does not reach the editor.

*GUI session*

* A stop is never reported: `Daemon.stop_injecting` forgets the injector (`daemon.py:346`), so
  that the state is UNKNOWN, while the GUI waits for STOPPED for 3 s (`data_manager.py:599`,
  `:603`).
* Choosing another device while a start is awaited trips the assertion in
  `show_injector_result` (`controller.py:752`), and no preset of it is loaded. "Applied
  preset" names the one that is shown when RUNNING arrives (`controller.py:725`).
* "Stop now" and activating a row leave the switch of the window rules stale
  (`controller.py:842`, `window_rules_mode.py:98`).
* `get_active_preset` returns the preset of an injection that failed, against its docstring
  (`daemon.py:357`). A start that was passed to `idle_add` may come after the mode became
  automatic. A group switch is not followed if both run presets of equal name.
* The GUI connects to windowd once, at its start (`client.py:50`): a mode that it saves is not
  told to a windowd that started later (`controller.py:825`), which has read it if it was
  saved before. A mode that is saved after windowd has read the modes (`service.py:147`) and
  before it can be called (`:194`) is not known to it, against "mode will apply when windowd
  starts" (`controller.py:835`). `WindowdKnowsTheMode` exempts these groups (`untold`). If
  windowd is killed between the GUI's stop
  and its `SetDeviceAutomation`, the injection that windowd started stays.
* `desktop_default` in `config.json` is read by a label only (`active_preset_menu.py:119`).

*Window rules*

* Without windowd and `profiles.json`, rules go to `window_rules.json` and the status says
  "saved and applied" (`controller.py:986`); if a setter then creates `profiles.json` without
  a migration, they are never seen again.
* The rules of bound windows have priority 1000 (`profiles/config.py:307`), the spin button
  ends at 999 (`data/input-remapper.glade:31`). Selecting such a rule, which opening the dialog
  does, and then any other callback or "Save" gives it 999 (`window_rules.py:311`, `:335`).
  `EditsStayInTheirRule` exempts that (`Seen`), and `SavedIsStored` is about what is shown.
* Saving writes the rules that were not touched, too, so that what another client bound
  meanwhile is reverted. Editing a rule of a shared profile changes it for other devices,
  against "Unrelated rules are preserved" (`data_manager.py:788`).
* The migration keeps one rule where two devices had their own; a deleted rule is shown
  again, disabled. Capturing a second window keeps fields of the first, and the row keeps its
  old summary.

## The proofs

Eight modules are checked by TLAPS, for every value of the constants. Of the 39 properties of
the runs, 32 are theorems; each follows from an inductive invariant that a lemma carries
through each action. What is assumed of the constants besides the types the modules state is
named here.

**Stuck keys** (`PipelineProofs`). `HandlersInv` (`HandlersAreRight`) is inductive for every
preset:

* `PressedInv`, `ActiveInv`: handlers believe reliable keys to be down only if they are, and a
  combination is active only while all of its keys are believed to be down;
* `OutputInv`: an output that is down has a mapping that is active;
* `ReadersInv`: without a process there is no reader and nothing is forwarded, and without a
  reader the handlers are reset.

`OutputsAreReleased` follows with no assumption. That no key that was *forwarded* is stuck is
not inductive: its release must also get past every handler. `IInv` (`Inductive`) adds
`ForwardedInv`: for a key of a reliable device that is down on a forwarded device, every
handler that has the key believes that a release is owed for its code, and the key is held.
The step that matters is the press. If a combination handles it, the keys of that combination
that were forwarded before are released, and the key itself is not forwarded. If none does,
the key is forwarded, and every handler that has it records that its release is owed, so that
none of them swallows the release later. Here two keys of one code would be mistaken for each
other: `ForwardedKeysAreReleased` assumes `CodesTellApart`, which names a real limit (see
above). Devices may lose events and be unplugged: the invariants are about keys of devices
that lose none (`Reliable`), and about forwarded ones as long as all are read.

**Rankings** (`PressHasOneOutput`, `LongestWins`, `NoPressVanishes`) hold for every preset:
`Outranks` is a total order on the handlers of a key (`OrderIsTotal`; the place of an input in
its combination is well-defined by the well-foundedness of the natural numbers). Of two
mappings that would fire in one step one outranks the other, and the other is suppressed. A
finite preset (all that `NoPressVanishes` assumes) has a first one among those that handle a
press (`AFirstExists`); it is not suppressed by the others, so that the press is not swallowed
by handlers that each leave it to another.

**Macros** (`PipelineProofs`: `MacrosHavePriority`, `EventsKeepTheirOrder`). Both are about the
queue of the loop, for any set of macros, any number of events, with or without
`macro_key_sleep_ms`, and with a context that may be reset. `LoopInv` says that nothing is
forgotten or done twice: an event that is not handled and does not wait for a macro has an
entry in the queue (`NoneIsForgotten`), every task that was started has one entry at most
(`WaitsOnce`), and whose entry is in the queue is where it has a turn to come (`AllCan`).

* The five sleeps suffice: `DecidesFirst` says that the entry of an `if_single` that was woken
  is before that of the event that woke it, where an entry with fewer hops left is before one
  with more (`Sooner`); other events and macros join at the end, where they cannot come
  between the two.
* Order: `NewAreLast` says that events have their first turn in the order in which they were
  read. From then on an event waits for the mod_tap, has the listeners of cancelled runs to
  call, or is on its way to the handlers. `JamIsSorted`: those that wait are in order.
  `LetGoOneByOne`: while one that was let go is on its way, the macro sleeps and
  nothing in the queue is for it, so the next one is let go only after the queue is empty; that
  is what the wait between two of them is for. `DoomSpreads`: if one will wait for ever, as a
  reset cancelled the macro, so will all after it. Together they carry `NoneOvertakes`.

`EventsKeepTheirOrder` assumes that a preset has one mod_tap at most. Where two of them wait for
one another, events are lost (see above), and which of the others come before them is not
proved.

**Injections** (`DaemonProofs`: `LiveInjectorsAreKnown`, `AutoloadsAreNotRedundant`,
`TypeCorrect`). `Inv` adds to the types that a call that is about to spawn found no injector
of its group left (`SpawnsAlone`) and that an autoload that got past its check stays due
until it restarts the injection (`AutoloadIsDue`), although the clock moves. That an autoload
does not restart what the last one started is about the process and not about the memory that
the check asks: `AutoloadsAreRemembered` says that while the process that was autoloaded
(`autoloaded`, a history variable) is young, it is the injector of its group and the memory has
its preset; `InjectorsAreUsed` is what it takes to tell that process from others. They hold
whatever processes do: no assumption on `SlowClose`, `ReadMayFail` or `MayCrash`.

**Reasons** (`FailuresAreCorrected`). `get_state` looks at the pipe, then at the process, and may
take an end between the two for a failure. The invariant `EndsAreTold` says where the true
reason of a process that ended by itself is: it is the last message in the pipe, or, with an
empty pipe, what `get_state` has just read, or the state it has set. So the next call tells it.

**Outputs** (`OutputsAreNotForgotten`, `OutputsHaveOwners`). An output loses its owner only in
the step that ends the process that holds it, with no assumption. Where no process is
terminated while it injects, crashes or fails to read (`Orderly`), every output has an owner:
a process that holds an output down is reading (`HoldersRead`), and each way out of reading
takes it back.

**Promises of the profiles** (`WindowDaemonProofs`: `PromisesAreKept`, `AppliedIsInjected`,
`OnlyManagedAreTouched`). `Sound` says that only devices with automation are managed, that
only those have a preset applied, and that it is the one injected, unless others (the GUI, an
autoload, a restart of the daemon) took the device since windowd started it (`touched`); each
call that stops or starts an injection keeps it, whether it succeeds, fails or is answered late.
`GraceMeansNoWindow` says that the grace timer only runs while nothing has the focus. With
them `Reconciled` is inductive: with no timer running and the file read, every device that no
call failed for has what `_apply_profile` would give it, so that a change of the focus, of a
setter or of the file that matters either applies the profile or leaves a timer that will.
That this is what the profiles *promise* takes one more argument: the loop that chooses a rule
returns the first one of the highest priority, and such a rule exists for any finite list
(`AFirstExists`).

**Recordings** (`GuiProofs`: `ServiceAgreesWithItsGui`, `ARecordingHasItsChord`). Once the commands of a GUI are read, the
service reads nothing unless that GUI records, and then for that recording. The invariant
(`Agreed`) speaks of the commands that still wait in the pipe: every one to start will find a
service that reads nothing, because a stop is before it in the pipe or nothing is read now
(`StoppedBefore`); if no recording runs, the whole pipe leaves it so; if one runs that this
service was asked for, the last command that counts is the start of that one (`StartedBy`), or
none is left and it was heard. `Chances` says which states of GUI and service go together:
while the GUI waits for a service it has no recording, and a pipe that is not attached is not
read. It holds for any number of GUIs, services, recordings and commands, with devices
unplugged and processes that end at any time. `SlowBoot = FALSE` and `Wander = FALSE` are
assumed, since with either of them TLC finds it violated (see above); of the invariant, only
what is said of a GUI that is `Prompt` needs them.

That a recording has by its end what was pressed until all of it was released is about the
other pipe. `Pressed` and `Collected` are what the recorder will have once it has read the
first n messages; the invariant (`Chorded`) says that after some e messages it has the chord,
and that before them it does not end (`Reaches`). An input that is pressed adds a message and
to the chord (`ReachesAdded`), a message that is read moves e to the front (`ReachesRead`), and
the recording can only end at e. Before its command is heard nothing is read and no event waits
(`NotBegun`), because `start_recorder` finds a service that reads nothing: that is `Agreed`
again. `Wander` and `SlowBoot` may be anything here, since a GUI whose timer is gone ends no
recording; `Hasty = FALSE` is assumed, since TLC finds it violated otherwise.

**Window rules** (`RulesProofs`: `EditsStay`, `SavingStoresTheRules`, `SavingKeepsTheRest`). The
signals of a list that is rebuilt write the form back to the selected rule. The invariant says
that they change nothing but a priority that the form cannot hold: when a handler begins, the
form is what it can hold of the selected rule (`Shown`, or no row is selected), and every rule
that was not edited is there as it was loaded or as the form shows it (`Covers`), so an edit
stays in its rule. That what is shown when "Save" is pressed is found again is about ids: each is that of one rule of a file and of the dialog, and the dialog never has that of a
rule for another preset of `window_rules.json`, although ids are made up while windowd binds
and migrates. One lemma says what a filtered list has and in which order (`KeptIs`, by the
ranks of the places that are kept, with the cardinality of finite sets), one what each way of
saving stores (`UpsertedIs`, `MergedIs`). The theorems hold for any files, any numbers of
devices, presets and windows, and any number of edits.

**Modes** (`GuiProofs`: `ModesAreKnown`). The GUI saves the mode and then tells windowd, which
may end, start, read the file and be published in between; a GUI that started before windowd
tells it nothing. `SavedFirst` says that what the GUI is about to tell is what was saved, and
makes `WindowdKnowsTheMode` inductive: a windowd that has read the modes knows those of all
groups but the ones whose mode was saved since and not told (`untold`). The theorem is for any
number of groups, any `Switchable` ones, and restarts of either program at any time.

**Movements** (`AxisProofs`). `RemaindersAreOwed` is a loop invariant of the division with
a carried remainder: `NoMovementIsLost` for every unit, all weights and
movements in either direction.
Each loop carries its own remainders, and every one of them is less than a step (`Small`).
`Centered` (`OffIsCentered`): an absolute output is centered as soon as its axis is off, however
many events were read. `NothingComesOut` is about loops too, however many run: by
`LoopsAreStopped`, while the axis is off they are told to stop and none waits to start (a loop
that starts forgets that it was told), unless one did when the axis was switched off (`raced`,
see above). Nothing is assumed of `MaxBatch` and `MaxLoops`.

**Mappings** (`MappingProofs`: `ValidIsHandled`, `TypeImpliesHandled`). What the validators
accept gets a handler for each input, exactly one, and neither MappingParser nor a constructor
raises: for all combinations, targets, symbols and layouts, except where the target lacks the
absolute axis that is to be moved (`LacksAxis`, see above). The argument follows the parser: an output by
axis, by key or by symbol; a combination with an analog input becomes an axis switch, which
leaves its keys to a combination.

**The editor** (`MappingProofs`: `EditorTypeCorrect`, `EditedIsHandled`, `RowsAreMappings`,
`WidgetsShowTheMapping`, `ErrorsAreTold`). A handler of the editor is a chain of calls, each of
which may raise and leave the rest undone. So the invariant is about the record that the chain
passes on: `Consistent` (no two mappings clash, the rows are the combinations of the preset,
the selected input is one of the mapping and is shown) holds after *every* call, raised or not,
and `ShowsMapping` (the other widgets show the mapping) as long as nothing raised. One lemma
for each call, then one for each handler. `ErrorsAreTold` also needs that type and code of an
output are set together (`InPairs`); the editor does so, of files it is an assumption (see
above).

**Presets** (`PresetStoreProofs`: `StoreInvariance`, `RulesAreNamed`, `AlwaysOneShown`,
`EditsReachTheFile`). The operations are chains of calls here, too. `Held`, `HasFile` and what
is said of rules hold whatever windowd loads while a dialog is open. `RulesAreNamed` is about
steps: after none of them does a rule name a preset that is gone if it did not before
(`RulesStep`), but for the rules of devices that share the presets of the one shown, which
nothing updates (see above). Most operations remove no file; renaming and deleting do, and
change the rules with it. That a preset with
mappings shows one is not inductive, as messages wait behind a dialog and one whose
listener raises leaves those after it waiting: `WillBeShown` says that then the *last* message
that waits is about the mappings of the preset, and it shows one. `EditsReachTheFile` needs
that nothing is loaded while a dialog is open (`Meanwhile = FALSE`; with it, TLC finds an edit
that is lost): no message waits then, and the file holds what the GUI believes it does
(`Quiet`, `Synced`).

**Axes as buttons** (`AxisProofs`: `ReleaseIsComing`, `ButtonIsImplemented`,
`KeyIsNotStuck`). `AxisButtons` implements `HeldButton` for all times, thresholds and any
number of timers. The invariant is that there is a timer more than the shared flag takes away
(`EnoughTimers`), and that none of them sleeps past the deadline (`NoneIsLate`). With
`ComboOK`, what the combination knows of its two inputs, the key is down only while both
axes ask for it.

*Only model-checked*:

* Liveness (`CallsReturn`, `EventsReachTheHandlers`, `MacrosEnd`, `RecordingEnds`,
  `OutputIsCentered`, `StartIsReported`, `SwitchIsFollowed`), which is out of reach of the
  prover because of ENABLED.

## What is not modelled

* *Shared dictionary*: one process that answers one question at a time; that an add of a macro
  is two questions is its hazard, and stays untested here.
* *Migrations* run once, on folders of old releases, before anything else runs.
* *Macro parser, keyboard layouts, paths, device classification*: sequential functions over
  data without a history, that unit tests reach well.
* *Layout, texts, colours, autocompletion, debounced text fields, command line, logging,
  installer, numlock*: presentation, process start-up, or calls passed on.
* *Macro tasks that run in one go* (`key_down`, `event`, `wait`, `set`, `add`, `if_eq`, ...), and
  `parallel`: they neither listen to events nor look at the trigger.
* *`ipc/socket.py`* and *`enable_persistent_profile`*: used by nothing in the program.
* *The KWin script*: not Python; all it does for windowd is `NotifyWindow`.
* *Real time*: durations are timers that may end at any time, booleans that a clock step
  changes, or (for axes) small numbers. Where an order of two durations matters, the model
  says so (a sleep ends when the loop has nothing ready; a process that listens closes within
  the deadline unless `SlowClose`).

## Plan

1. **Proofs**: what of the order of keys remains with several mod_taps.
2. **Abstract specifications**: an injection service with one injection per group that
   `Daemon` implements; an abstract recorder (idle, recording a chord, done) for `Recording`.
3. **SharedDict** and **Migrations**, which need runs of their own: others would be given up
   for them.
