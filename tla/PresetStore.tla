------------------------------ MODULE PresetStore ------------------------------
(***************************************************************************)
(* The presets of the GUI: what Controller, DataManager and Preset do with *)
(* the files of the presets, the preset and the mapping that are being     *)
(* edited, and what refers to presets by name (autoload, window rules).    *)
(*                                                                         *)
(* The GUI is one GLib loop, and an operation of the user is one step,     *)
(* unless it asks the user something: the dialog is run by a listener of   *)
(* the MessageBroker, so that messages which are published meanwhile wait  *)
(* until the dialog is closed, while the timers of the GUI go on.          *)
(*                                                                         *)
(* The mappings of a preset are a function of their combinations; of a     *)
(* mapping only its output is kept.                                        *)
(***************************************************************************)
EXTENDS Naturals, Sequences, SequencesExt, FiniteSets

CONSTANTS
    Groups,     \* the device groups
    Models,     \* the names of groups, each with a folder of presets
    Model,      \* the name of each group: similar devices have the same
    Presets,    \* names of presets
    Combos,     \* combinations of inputs
    Empty,      \* the combination of a mapping whose input was not recorded yet
    Outputs,    \* what a mapping can produce
    Unset,      \* the output of a new mapping
    None,       \* no group, preset, mapping, file or dialog
    Meanwhile,  \* may windowd apply another preset while a dialog is open?
    MaxWaiting  \* bound on the messages that wait in the broker

Contents == UNION {[S -> Outputs \cup {Unset}] : S \in SUBSET (Combos \cup {Empty})}
NoMappings == [c \in {} |-> Unset]

ASSUME StoreAssumption ==
    /\ None \notin Groups \cup Presets \cup Combos \cup {Empty} \cup Contents
    /\ Model \in [Groups -> Models]
    /\ Empty \notin Combos /\ Unset \notin Outputs
    /\ Meanwhile \in BOOLEAN /\ MaxWaiting \in Nat

VARIABLES
    files,      \* files[m][p]: the mappings in the file of a preset, or None
    group,      \* active_group
    preset,     \* the name of active_preset
    mappings,   \* Preset._mappings
    saved,      \* Preset._saved_mappings, believed to be in the file
    active,     \* the combination of active_mapping
    queue,      \* the "preset" messages that wait in the broker
    asking,     \* the question of the dialog that is open
    autoload,   \* config.json: the preset to autoload for each group
    last,       \* config.json: the preset that was last selected for each group
    rules,      \* window_rules.json: the group and preset of each rule
    tuned       \* thresholds were edited since the preset was saved

nameVars == <<autoload, last, rules>>
vars == <<files, group, preset, mappings, saved, active, queue, asking, nameVars, tuned>>

-----------------------------------------------------------------------------
(***************************************************************************)
(* An operation is a chain of steps on the following record.  An exception *)
(* ends the chain.                                                         *)
(***************************************************************************)
Now == [files |-> files, group |-> group, preset |-> preset, mappings |-> mappings,
        saved |-> saved, active |-> active, queue |-> queue, tuned |-> tuned,
        failed |-> FALSE]

Becomes(s) ==
    /\ files' = s.files /\ group' = s.group /\ preset' = s.preset
    /\ mappings' = s.mappings /\ saved' = s.saved /\ active' = s.active
    /\ queue' = s.queue /\ tuned' = s.tuned

Fails(s) == [s EXCEPT !.failed = TRUE]

Existing(s) == {p \in Presets : s.files[Model[s.group]][p] # None}
Read(content) == IF content = None THEN NoMappings ELSE content

\* The mapping whose name comes first.
First(combos) == CHOOSE c \in combos : TRUE

\* Controller._on_preset_changed, for a message that lists combinations.
LoadFirst(s, combos) ==
    CASE combos = {} -> s
      [] combos # {} /\ s.preset # None /\ First(combos) \in DOMAIN s.mappings ->
            [s EXCEPT !.active = First(combos)]
      [] OTHER -> Fails(s)

\* Messages are sent in order, and each can only change which mapping is active; an
\* exception in a listener leaves the rest in the queue.
SendAll(s) ==
    LET raising == {i \in DOMAIN s.queue : LoadFirst(s, s.queue[i]).failed}
        stop == IF raising = {} THEN Len(s.queue) ELSE Min(raising)
        heard == {i \in 1..stop : i \notin raising /\ s.queue[i] # {}}
    IN  IF s.failed THEN s
        ELSE [s EXCEPT !.active = IF heard = {} THEN @ ELSE First(s.queue[Max(heard)]),
                       !.queue = SubSeq(@, stop + 1, Len(@)),
                       !.failed = raising # {}]

\* While a listener runs a dialog, messages are only queued.
Send(s) == IF asking = None THEN SendAll(s) ELSE s

\* A message that has no listener here (group, mapping, input, status).
Publish(s) == IF s.failed THEN s ELSE Send(s)

\* Mutant: nobody is told which mappings the preset has.
PublishNothing(s) == Publish(s)

PublishPreset(s) ==
    IF s.failed THEN s ELSE Send([s EXCEPT !.queue = Append(@, DOMAIN s.mappings)])

\* A mapping without an input is not saved.
Savable(m) == [c \in DOMAIN m \ {Empty} |-> m[c]]

\* Preset.save: what did not change is not written, but a missing file is created.
Save(s) ==
    IF s.failed \/ s.preset = None THEN s
    ELSE IF s.mappings = s.saved
    THEN [s EXCEPT !.files[Model[s.group]][s.preset] = Read(@), !.tuned = FALSE]
    ELSE [s EXCEPT !.files[Model[s.group]][s.preset] = Savable(s.mappings),
                   !.saved = Savable(s.mappings), !.tuned = FALSE]

Holding(s, p, content) ==
    [s EXCEPT !.preset = p, !.active = None, !.mappings = content, !.saved = content,
              !.tuned = FALSE]

\* DataManager.load_preset.
LoadPreset(s, p) ==
    IF s.failed \/ s.files[Model[s.group]][p] = None THEN Fails(s)
    ELSE PublishPreset(Holding(s, p, s.files[Model[s.group]][p]))

\* DataManager.create_preset: an empty file.
CreatePreset(s, p) ==
    IF s.failed THEN s ELSE Publish([s EXCEPT !.files[Model[s.group]][p] = NoMappings])

\* Controller.get_a_preset, and then load it: the newest, or a new one.
LoadAPreset(s) ==
    IF s.failed THEN {s}
    ELSE IF Existing(s) # {} THEN {LoadPreset(s, p) : p \in Existing(s)}
    ELSE {LoadPreset(CreatePreset(s, p), p) : p \in Presets}

\* Mutant: what was saved elsewhere counts as saved here.
MovedUnread(s, p) == [s EXCEPT !.preset = p]

\* Preset.path is set: what is believed to be in the file is read again.
MovedTo(s, p) == [s EXCEPT !.preset = p, !.saved = Read(s.files[Model[s.group]][p])]

\* Mutant: the rules keep the name that was given up.
RulesKept(p) == rules

\* The rules for the preset that is loaded get its new name; None removes them.
RulesFollow(p) ==
    {IF r = <<group, preset>> THEN <<group, p>> ELSE r : r \in rules} \ {<<group, None>>}

\* UIMapping.__setattr__ of input_combination: a combination is mapped only once.
Renamed(s, c) ==
    IF c \in DOMAIN s.mappings THEN Fails(s)
    ELSE [s EXCEPT
            !.mappings = [d \in (DOMAIN @ \ {s.active}) \cup {c} |->
                             IF d = c THEN @[s.active] ELSE @[d]],
            !.active = c]

-----------------------------------------------------------------------------
Idle == asking = None
Editing == Idle /\ preset # None
Available == Presets \ Existing(Now)

\* The names that other files know do not change.
KeepsNames == UNCHANGED nameVars

(***************************************************************************)
(* Groups and presets.                                                     *)
(***************************************************************************)
\* GlobalConfig: what config.json has for the group.
SetLastActivePreset(s) == last' = IF s.failed THEN last ELSE [last EXCEPT ![s.group] = s.preset]
SetAutoloadPreset(p) == autoload' = [autoload EXCEPT ![group] = p]

\* The group, and the preset that was last selected or any other.
LoadGroup(g) ==
    LET left == Publish([Holding(Now, None, NoMappings) EXCEPT !.group = g])
        before == last[g]
        again == IF before = None THEN Fails(left) ELSE LoadPreset(left, before)
    IN  /\ Idle
        /\ \E s \in IF again.failed /\ ~left.failed THEN LoadAPreset(left) ELSE {again} :
              /\ Becomes(s)
              /\ SetLastActivePreset(s)
        /\ UNCHANGED <<asking, autoload, rules>>

\* The user selects a preset.
SelectPreset(p) ==
    LET s == LoadPreset(Now, p)
    IN  /\ Editing
        /\ p \in Existing(Now)
        /\ Becomes(s)
        /\ SetLastActivePreset(s)
        /\ UNCHANGED <<asking, autoload, rules>>

\* windowd applied another preset, and the GUI looks each second which one it is; also
\* while a dialog is open.
FollowActive(p) ==
    LET s == LoadPreset(Now, p)
    IN  /\ Idle \/ Meanwhile
        /\ group # None /\ p # preset /\ Len(queue) < MaxWaiting
        /\ Becomes(s)
        /\ SetLastActivePreset(s)
        /\ UNCHANGED <<asking, autoload, rules>>

\* A name that is taken gets a number.  What refers to the old name is updated.
RenamePreset(p) ==
    LET content == files[Model[group]][preset]
        moved == [Now EXCEPT !.files[Model[group]][preset] = None,
                             !.files[Model[group]][p] = content]
    IN  /\ Editing
        /\ p \in Available
        /\ content # None
        /\ Becomes(PublishPreset(Publish(MovedTo(moved, p))))
        /\ SetAutoloadPreset(IF autoload[group] = preset THEN p ELSE autoload[group])
        /\ rules' = RulesFollow(p)
        /\ UNCHANGED <<asking, last>>

CopyPreset(p) ==
    /\ Editing
    /\ p \in Available
    /\ Becomes(PublishPreset(Publish(Save(MovedTo(Now, p)))))
    /\ UNCHANGED asking /\ KeepsNames

AddPreset(p) ==
    /\ Idle /\ group # None
    /\ p \in Available
    /\ Becomes(LoadPreset(CreatePreset(Now, p), p))
    /\ UNCHANGED asking /\ KeepsNames

SetAutoload(status) ==
    /\ Editing
    /\ SetAutoloadPreset(CASE status -> preset
                           [] ~status /\ autoload[group] = preset -> None
                           [] OTHER -> autoload[group])
    /\ Becomes(PublishPreset(Now))
    /\ UNCHANGED <<asking, last, rules>>

\* The rules that the user wants for this preset.
SaveWindowRules(some) ==
    /\ Editing
    /\ rules' = IF some THEN rules \cup {<<group, preset>>} ELSE rules \ {<<group, preset>>}
    /\ Becomes(Publish(Now))
    /\ UNCHANGED <<asking, autoload, last>>

-----------------------------------------------------------------------------
(***************************************************************************)
(* Questions.                                                              *)
(***************************************************************************)
Ask(what, name) == asking' = [what |-> what, group |-> group, name |-> name]

AskToDeletePreset ==
    /\ Editing
    /\ Ask("preset", preset)
    /\ Becomes(Publish(Now))
    /\ KeepsNames

AskToDeleteMapping ==
    /\ Editing /\ active # None
    /\ Ask("mapping", active)
    /\ Becomes(Publish(Now))
    /\ KeepsNames

\* The answer is given to a closure which deletes what is active by now.  Then the dialog
\* is closed, and messages are sent again.
DeletePreset ==
    LET gone == [Holding(Now, None, NoMappings) EXCEPT !.files[Model[group]][preset] = None]
    IN  /\ asking # None /\ asking.what = "preset"
        /\ asking' = None
        /\ \E s \in LoadAPreset(gone) : Becomes(SendAll(s))
        /\ rules' = RulesFollow(None)
        /\ UNCHANGED <<autoload, last>>

DeleteMapping ==
    LET without == [Now EXCEPT !.mappings = [c \in DOMAIN @ \ {active} |-> @[c]],
                               !.active = None]
    IN  /\ asking # None /\ asking.what = "mapping"
        /\ asking' = None
        /\ IF active = None THEN Becomes(SendAll(Now))
                            ELSE Becomes(SendAll(Save(PublishPreset(without))))
        /\ KeepsNames

Cancel ==
    /\ asking # None
    /\ asking' = None
    /\ Becomes(SendAll(Now))
    /\ KeepsNames

-----------------------------------------------------------------------------
(***************************************************************************)
(* Mappings.                                                               *)
(***************************************************************************)
\* A new mapping is not saved before it has an input.
CreateMapping ==
    LET added == [Now EXCEPT !.mappings = [c \in DOMAIN @ \cup {Empty} |->
                                              IF c = Empty THEN Unset ELSE @[c]]]
        told == PublishPreset(added)
    IN  /\ Editing
        /\ Empty \notin DOMAIN mappings
        /\ Becomes(IF told.failed THEN told ELSE Publish([told EXCEPT !.active = Empty]))
        /\ UNCHANGED asking /\ KeepsNames

SelectMapping(c) ==
    /\ Editing
    /\ c \in DOMAIN mappings
    /\ Becomes(Publish([Now EXCEPT !.active = c]))
    /\ UNCHANGED asking /\ KeepsNames

\* The widgets of the output are disabled for a mapping without input.
UpdateMapping(o) ==
    /\ Editing /\ active \notin {None, Empty}
    /\ Becomes(Save(Publish([Now EXCEPT !.mappings[active] = o])))
    /\ UNCHANGED asking /\ KeepsNames

\* A combination is recorded, or its inputs are moved, removed or made analog.
UpdateCombination(c) ==
    /\ Editing /\ active # None
    /\ Becomes(IF c = active THEN Save(Publish(Now))
                ELSE IF Renamed(Now, c).failed THEN Publish(Now)
                ELSE Save(Publish(Renamed(Now, c))))
    /\ UNCHANGED asking /\ KeepsNames

\* The threshold of an input is edited, which is part of the combination.
UpdateInputConfig(c) ==
    /\ Editing /\ active \notin {None, Empty, c}
    /\ Becomes(IF Renamed(Now, c).failed THEN Publish(Now)
                ELSE Publish([Renamed(Now, c) EXCEPT !.tuned = TRUE]))
    /\ UNCHANGED asking /\ KeepsNames

\* The GUI is closed, and will start again with the configuration it finds.
Close ==
    /\ Idle /\ group # None
    /\ Becomes([Holding(Save(Now), None, NoMappings) EXCEPT !.group = None, !.queue = <<>>])
    /\ UNCHANGED asking /\ KeepsNames

-----------------------------------------------------------------------------
Init ==
    /\ files = [m \in Models |-> [p \in Presets |-> None]]
    /\ group = None /\ preset = None
    /\ mappings = NoMappings /\ saved = NoMappings /\ active = None
    /\ queue = <<>> /\ asking = None
    /\ autoload = [g \in Groups |-> None]
    /\ last = [g \in Groups |-> None]
    /\ rules = {}
    /\ tuned = FALSE

Next ==
    \/ \E g \in Groups : LoadGroup(g)
    \/ \E p \in Presets :
          SelectPreset(p) \/ FollowActive(p) \/ RenamePreset(p) \/ CopyPreset(p) \/ AddPreset(p)
    \/ \E b \in BOOLEAN : SetAutoload(b) \/ SaveWindowRules(b)
    \/ AskToDeletePreset \/ AskToDeleteMapping
    \/ DeletePreset \/ DeleteMapping \/ Cancel
    \/ CreateMapping
    \/ \E c \in Combos \cup {Empty} : SelectMapping(c)
    \/ \E o \in Outputs : UpdateMapping(o)
    \/ \E c \in Combos : UpdateCombination(c) \/ UpdateInputConfig(c)
    \/ Close

Spec == Init /\ [][Next]_vars

-----------------------------------------------------------------------------
(***************************************************************************)
(* Properties.                                                             *)
(***************************************************************************)
\* "Changes are saved automatically": whatever is edited, copied, renamed, created or
\* deleted in whatever order, the file of the preset that is shown holds what is shown;
\* only the thresholds of inputs, which the code does not save at once, are excepted.
EditsAreSaved ==
    preset # None /\ Idle /\ ~tuned => files[Model[group]][preset] = Savable(mappings)

Dangling == {r \in rules : files[Model[r[1]]][r[2]] = None}

\* "Keep window rules consistent": whatever is renamed, deleted, copied or followed, a rule
\* of the group that is shown never comes to name a preset that does not exist.  A rule of
\* a similar device does: it shares the files, but only the rules of the group that is
\* shown are updated (data_manager.py:411, 486).
RulesNamePresets ==
    [][\A r \in Dangling' \ Dangling : r[1] # group /\ Model[r[1]] = Model[group]]_vars

\* A preset that has mappings shows one of them, so that there is something to edit.
AMappingIsShown ==
    Idle /\ queue = <<>> /\ DOMAIN mappings # {} => active # None

=============================================================================
