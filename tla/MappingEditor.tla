---------------------------- MODULE MappingEditor ----------------------------
(***************************************************************************)
(* The editor of the GUI: the widgets that change the mapping which is     *)
(* loaded, the operations of Controller and DataManager they call, and the *)
(* "preset", "combination_update", "mapping" and "selected_event" messages *)
(* by which the widgets learn what is loaded.                              *)
(*                                                                         *)
(* A handler of GTK is one step.  An exception ends it where it occurs:    *)
(* what was changed before stays changed, and no message tells of it.      *)
(***************************************************************************)
EXTENDS Mappings, FiniteSets, SequencesExt

CONSTANTS
    Ids,         \* mappings: as many as the preset may hold
    Recordings,  \* the combinations that can be recorded
    Thresholds,  \* the thresholds that can be entered, for each type of input
    Stored,      \* mappings of preset files, which can be edited by hand too
    DefaultTarget,
    MaxEdits     \* bound on the edits

ASSUME EditorAssumption ==
    /\ DefaultTarget \in Targets
    /\ Recordings \subseteq Seq(InputConfig) \ {<<>>}
    /\ \A type \in DOMAIN Thresholds : Thresholds[type] \subseteq Int
    /\ \A m \in Stored : m \in UIMapping /\ m = Typed(m)
    /\ Axes \subseteq Targets \X {"abs", "rel"} \X Int
    /\ None \notin Ids \cup Int \cup InputConfig \cup Seq(InputConfig) \cup UIMapping
    /\ MaxEdits \in Nat

Kinds == {"key_macro", "analog"}
Unset == [inputs |-> EmptyCombination, target |-> None, symbol |-> None,
          type |-> None, code |-> None, kind |-> None]
Default == [Unset EXCEPT !.target = DefaultTarget]

VARIABLES
    preset,    \* preset[i]: a mapping of the active preset, or None
    active,    \* active_mapping
    selected,  \* active_input_config
    rows,      \* MappingListBox: the combinations of its rows
    row,       \* the row that is selected
    list,      \* CombinationListbox: the combination it lists
    listRow,   \* the input whose row is selected there
    shown,     \* the mapping of the last "mapping" message
    input,     \* AnalogInputSwitch, TriggerThresholdInput: the last "selected_event"
    page,      \* KeyAxisStackSwitcher: the toggles that are active
    broken,    \* a handler raised an exception since the last "mapping" message
    edits      \* the number of edits

vars == <<preset, active, selected, rows, row, list, listRow, shown, input, page,
          broken, edits>>

-----------------------------------------------------------------------------
(* The steps a handler is made of. *)

Now == [preset |-> preset, active |-> active, selected |-> selected, rows |-> rows,
        row |-> row, list |-> list, listRow |-> listRow, shown |-> shown,
        input |-> input, page |-> page, broken |-> broken, failed |-> FALSE]

Becomes(s) ==
    /\ preset' = s.preset /\ active' = s.active /\ selected' = s.selected
    /\ rows' = s.rows /\ row' = s.row /\ list' = s.list /\ listRow' = s.listRow
    /\ shown' = s.shown /\ input' = s.input /\ page' = s.page
    /\ broken' = (s.broken \/ s.failed)

Fails(s) == [s EXCEPT !.failed = TRUE]
Mapping(s) == s.preset[s.active]
Combinations(s) == {s.preset[i].inputs : i \in {j \in Ids : s.preset[j] # None}}

\* InputCombination.get_permutations: only the last input keeps its place.
PermutationOf(c, d) ==
    \/ c = d
    \/ /\ Len(c) > 2 /\ Len(c) = Len(d) /\ Last(c) = Last(d)
       /\ \A x \in ToSet(c) \cup ToSet(d) :
            Cardinality({i \in DOMAIN c : c[i] = x}) = Cardinality({i \in DOMAIN d : d[i] = x})

IsEmptyMapping(s) == s.active = None \/ Mapping(s) = Default

\* KeyAxisStackSwitcher: a mapping without a kind leaves the toggles as they are.
Toggles(m, toggles) == IF m.kind = None THEN toggles ELSE {m.kind}

\* CombinationListbox: the list is made anew if the combination is another one.
ListsNew(s, m) == s.list # m.inputs

\* The "mapping" message, and what each of the widgets makes of it.
SendMapping(s, m) ==
    IF s.failed THEN s
    ELSE LET relist == ListsNew(s, m)
         IN  [s EXCEPT !.shown = m,
                       !.row = IF m.inputs \in s.rows THEN m.inputs ELSE @,
                       !.list = IF ~relist THEN @
                                ELSE IF IsEmptyMapping(s) THEN None ELSE m.inputs,
                       !.listRow = IF relist THEN None ELSE @,
                       !.page = Toggles(m, @), !.broken = FALSE]

PublishMapping(s) == IF s.active = None THEN s ELSE SendMapping(s, Mapping(s))

\* The "selected_event" message; publish_event asserts that the mapping has the input.
PublishEvent(s) ==
    IF s.failed \/ s.selected = None THEN s
    ELSE IF s.selected \notin ToSet(Mapping(s).inputs) THEN Fails(s)
    ELSE [s EXCEPT !.input = s.selected,
                   !.listRow = IF s.list # None /\ s.selected \in ToSet(s.list)
                               THEN s.selected ELSE @]

Synchronize(s) == PublishEvent(PublishMapping(s))

LoadInputConfig(s, config) ==
    IF s.failed THEN s
    ELSE IF config \notin ToSet(Mapping(s).inputs) THEN Fails(s)
    ELSE PublishEvent([s EXCEPT !.selected = config])

LoadMapping(s, c) ==
    LET found == {i \in Ids : s.preset[i] # None /\ PermutationOf(c, s.preset[i].inputs)}
    IN  IF s.failed THEN s
        ELSE IF found = {} THEN Fails(s)
        ELSE LoadInputConfig(PublishMapping([s EXCEPT !.selected = None,
                                                      !.active = CHOOSE i \in found : TRUE]),
                             c[1])

\* MappingListBox makes new rows, then Controller loads the mapping that comes first.
SendPreset(s, first) ==
    LET t == [s EXCEPT !.rows = Combinations(s), !.row = None]
    IN  IF Combinations(s) = {} THEN SendMapping(t, Default)
        ELSE LoadMapping(t, first)

\* The mappings with one of these inputs cannot be told apart.
Clashes(s, c) ==
    \E i \in Ids \ {s.active} : s.preset[i] # None /\ PermutationOf(c, s.preset[i].inputs)

\* Mutant: combinations are not compared with those of the other mappings.
AssignUnchecked(s, field, value) ==
    [s EXCEPT !.preset[s.active] = Typed([@ EXCEPT ![field] = value])]

\* setattr of one field of the mapping, which runs validate_mapping_type.
Assign(s, field, value) ==
    IF s.failed \/ (field = "inputs" /\ Clashes(s, value)) THEN Fails(s)
    ELSE [s EXCEPT !.preset[s.active] = Typed([@ EXCEPT ![field] = value])]

\* Mutant: the row keeps its combination.
RowStays(s, old, new) == s

\* MappingSelectionLabel: the row that is selected follows its mapping.
RowFollows(s, old, new) ==
    IF s.row # old THEN s
    ELSE [s EXCEPT !.rows = (@ \ {old}) \cup {new}, !.row = new]

\* The changes are a sequence of fields and values, never more than three.
AssignNth(s, changes, n) ==
    IF n \in DOMAIN changes THEN Assign(s, changes[n][1], changes[n][2]) ELSE s
AssignAll(s, changes) ==
    AssignNth(AssignNth(AssignNth(s, changes, 1), changes, 2), changes, 3)

\* If the inputs are other ones now, then none of them is selected.
Tell(s, old, new) ==
    IF old = new THEN s ELSE RowFollows([s EXCEPT !.selected = None], old, new)

\* DataManager.update_mapping; the kind, which is the first of the changes, is set twice.
Update(s, changes) ==
    LET set == AssignAll(s, changes)
        told == Tell(set, Mapping(s).inputs, Mapping(set).inputs)
    IN  IF set.failed THEN set
        ELSE PublishMapping(IF changes[1][1] = "kind" THEN AssignNth(told, changes, 1) ELSE told)

\* DataManager.update_input_config
UpdateInputConfig(s, new) ==
    LET c == Mapping(s).inputs
        at == CHOOSE i \in DOMAIN c : c[i] = s.selected
                        /\ \A j \in 1..(i - 1) : c[j] # s.selected
        t == Update(s, <<<<"inputs", [c EXCEPT ![at] = new]>>>>)
    IN  IF t.failed THEN t
        ELSE PublishEvent([t EXCEPT !.selected = new])

\* InputConfig.modify: keys have no threshold.
Modify(config, threshold) ==
    [config EXCEPT !.threshold = IF config.type = "key" THEN 0 ELSE threshold]

\* Controller._auto_use_as_analog
AutoUseAsAnalog(m, c) ==
    LET axes == {i \in DOMAIN c : IsAxis(c[i].type)}
        first == CHOOSE i \in axes : \A j \in axes : i <= j
    IN  IF m.kind # "analog" \/ AnalogInputs(c) # {} \/ axes = {} THEN c
        ELSE [c EXCEPT ![first] = Modify(@, 0)]

\* Controller.update_combination: a combination that exists is refused with a message.
UpdateCombination(s, c) ==
    LET t == Update(s, <<<<"inputs", AutoUseAsAnalog(Mapping(s), c)>>>>)
    IN  IF t.failed THEN s ELSE t

-----------------------------------------------------------------------------
(* What the user does. *)

Edit == edits < MaxEdits /\ edits' = edits + 1

\* RequireActiveMapping: what edits a mapping is disabled until its input was recorded.
Enabled == active # None /\ shown.inputs # EmptyCombination
Editing == Enabled /\ Edit

\* A row of MappingListBox is selected.
SelectMapping(c) ==
    /\ c \in rows \ {row}
    /\ Becomes(LoadMapping([Now EXCEPT !.row = c], c))
    /\ UNCHANGED edits

\* Controller.create_mapping: only one mapping may be empty.
CreateMapping ==
    /\ Edit
    /\ EmptyCombination \notin Combinations(Now)
    /\ \E i \in {j \in Ids : preset[j] = None}, first \in Combinations(Now) \cup {EmptyCombination} :
        LET added == SendPreset([Now EXCEPT !.preset[i] = Unset], first)
            t == PublishMapping([added EXCEPT !.active = i, !.selected = None])
        IN  Becomes(Update(t, <<<<"target", DefaultTarget>>>>))

\* Controller.delete_mapping, confirmed.
DeleteMapping ==
    /\ active # None /\ Edit
    /\ LET removed == [Now EXCEPT !.preset[active] = None, !.active = None]
           left == Combinations(removed)
       IN  \E first \in IF left = {} THEN {EmptyCombination} ELSE left :
                Becomes(SendPreset(removed, first))

\* Controller._on_combination_recorded
Record(c) ==
    /\ active # None /\ Edit
    /\ Becomes(UpdateCombination(Now, AutoUseAsAnalog(preset[active], c)))

\* A row of CombinationListbox is selected.
SelectInput(config) ==
    /\ Enabled /\ list # None /\ config \in ToSet(list) \ {listRow}
    /\ Becomes(LoadInputConfig([Now EXCEPT !.listRow = config], config))
    /\ UNCHANGED edits

\* Controller.move_input_config_in_combination, for the row with config, one place up
\* or down: the inputs at i and j change places.
MoveInput(config, down) ==
    /\ Editing /\ list # None /\ config \in ToSet(list)
    /\ LET c == preset[active].inputs
           i == CHOOSE k \in DOMAIN c : c[k] = config /\ \A l \in 1..(k - 1) : c[l] # config
           j == IF down THEN i + 1 ELSE i - 1
       IN  /\ config \in ToSet(c) /\ j \in DOMAIN c
           /\ LET moved == [c EXCEPT ![i] = c[j], ![j] = config]
              IN  Becomes(LoadInputConfig(UpdateCombination(Now, moved), config))

\* TriggerThresholdInput: the input it was told of, with another threshold.
EnterThreshold(threshold) ==
    /\ Editing /\ input # None /\ IsAxis(input.type)
    /\ threshold \in Thresholds[input.type] \ {input.threshold}
    /\ IF selected = None THEN Becomes(Fails(Now))
       ELSE LET t == UpdateInputConfig(Now, Modify(input, threshold))
            IN  Becomes(IF t.failed THEN Synchronize(Now) ELSE t)

\* The first of the values that is not taken by another mapping.
Tried(s, values) ==
    LET try == [k \in DOMAIN values |-> UpdateInputConfig(s, Modify(s.selected, values[k]))]
        done == {k \in DOMAIN values : ~try[k].failed}
    IN  IF done = {} THEN Synchronize(s)
        ELSE try[CHOOSE k \in done : \A l \in done : k <= l]

\* AnalogInputSwitch, which is sensitive for axes: Controller.set_event_as_analog
SwitchAnalog ==
    /\ Editing /\ input # None /\ input.type # "key"
    /\ IF selected = None THEN Becomes(Fails(Now))
       ELSE Becomes(Tried(Now, CASE selected.type = "key" -> <<>>
                                 [] IsAxis(selected.type) /\ ~DefinesAnalog(input) -> <<0>>
                                 [] selected.type = "rel" /\ DefinesAnalog(input) -> <<1, -1>>
                                 [] OTHER -> <<10, -10>>))

\* Controller.remove_event; the last input cannot be removed.
RemoveInput ==
    /\ Editing /\ selected # None
    /\ LET c == preset[active].inputs
           at == CHOOSE i \in DOMAIN c : c[i] = selected
                            /\ \A j \in 1..(i - 1) : c[j] # selected
           rest == RemoveAt(c, at)
           t == Update(Now, <<<<"inputs", rest>>>>)
       IN  Becomes(IF rest = <<>> \/ t.failed THEN Synchronize(Now)
                   ELSE LoadInputConfig(t, rest[1]))

\* CodeEditor, TargetSelection and OutputAxisSelector
TypeText(text) ==
    Editing /\ Becomes(Update(Now, <<<<"symbol", text>>>>))
ChooseTarget(target) ==
    Editing /\ Becomes(Update(Now, <<<<"target", target>>>>))

\* The list of OutputAxisSelector: the axes of the target it was told of last.
Offered == {<<a[2], a[3]>> : a \in {b \in Axes : b[1] = shown.target}} \cup {<<None, None>>}
ChooseAxis(axis) ==
    Editing /\ Becomes(Update(Now, <<<<"type", axis[1]>>, <<"code", axis[2]>>>>))

\* What these widgets set is not modelled: MappingSelectionLabel (the name),
\* ReleaseCombinationSwitch and Sliders, whose values UIMapping accepts.
Tune == Editing /\ Becomes(PublishMapping(Now))

Uses(m, type) == \E i \in DOMAIN m.inputs : m.inputs[i].type = type

\* ReleaseTimeoutInput goes down to 0, which UIMapping refuses.
EnterReleaseTimeout(zero) ==
    /\ Editing /\ Uses(shown, "rel")
    /\ Becomes(IF zero THEN Fails(Now) ELSE PublishMapping(Now))

\* RelativeInputCutoffInput sets rel_xy_cutoff, which UIMapping does not have.
EnterCutoff ==
    /\ Editing /\ Uses(shown, "rel") /\ shown.type = "abs"
    /\ Becomes(Fails(Now))

\* Controller._change_mapping_type: the changes that a kind needs.
ChangesFor(m, kind) ==
    LET auto == AutoUseAsAnalog([m EXCEPT !.kind = "analog"], m.inputs)
    IN  CASE kind = m.kind -> <<<<"kind", kind>>>>
          [] kind # m.kind /\ kind = "key_macro" ->
                <<<<"kind", kind>>, <<"type", None>>, <<"code", None>>>>
          [] OTHER ->
                <<<<"kind", kind>>>>
                \o (IF auto = m.inputs THEN <<>> ELSE <<<<"inputs", auto>>>>)
                \o (IF AnalogInputs(m.inputs) # {} /\ ~HasSymbol(m) THEN <<>>
                    ELSE <<<<"symbol", None>>>>)

\* Does the change of the kind have to be confirmed?
Asks(m, kind) ==
    /\ kind # m.kind
    /\ IF kind = "analog" THEN AnalogInputs(m.inputs) = {} \/ HasSymbol(m)
       ELSE AnalogInputs(m.inputs) # {}

\* Mutant: a refusal leaves the toggle that was clicked.
Refused(s) == s

\* The answer was no: the widgets are told what is loaded.
TakenBack(s) == Synchronize(s)

\* KeyAxisStackSwitcher: a toggle that is not active is clicked.
ChooseKind(kind, confirmed) ==
    /\ Editing /\ kind \notin page
    /\ LET m == preset[active]
           clicked == [Now EXCEPT !.page = @ \cup {kind}]
       IN  Becomes(IF Asks(m, kind) /\ ~confirmed THEN TakenBack(clicked)
                   ELSE Update(clicked, ChangesFor(m, kind)))

\* The editor before a preset is loaded.
Blank(p) ==
    [preset |-> p, active |-> None, selected |-> None, rows |-> {}, row |-> None,
     list |-> None, listRow |-> None, shown |-> Default, input |-> None,
     page |-> {"key_macro"}, broken |-> FALSE, failed |-> FALSE]

\* A preset with at most one mapping is loaded.
Init ==
    \E m \in Stored \cup {None}, i \in Ids :
        LET s == SendPreset(Blank([j \in Ids |-> IF j = i THEN m ELSE None]),
                            IF m = None THEN EmptyCombination ELSE m.inputs)
        IN  /\ preset = s.preset /\ active = s.active /\ selected = s.selected
            /\ rows = s.rows /\ row = s.row /\ list = s.list /\ listRow = s.listRow
            /\ shown = s.shown /\ input = s.input /\ page = s.page
            /\ broken = s.broken /\ edits = 0

Next ==
    \/ \E c \in rows : SelectMapping(c)
    \/ CreateMapping \/ DeleteMapping
    \/ \E c \in Recordings : Record(c)
    \/ list # None /\ \E config \in ToSet(list) :
            SelectInput(config) \/ \E down \in BOOLEAN : MoveInput(config, down)
    \/ \E type \in DOMAIN Thresholds : \E t \in Thresholds[type] : EnterThreshold(t)
    \/ SwitchAnalog \/ RemoveInput
    \/ \E text \in Texts : TypeText(text)
    \/ \E target \in Targets : ChooseTarget(target)
    \/ \E axis \in Offered : ChooseAxis(axis)
    \/ Tune \/ EnterCutoff \/ \E zero \in BOOLEAN : EnterReleaseTimeout(zero)
    \/ \E kind \in Kinds, confirmed \in BOOLEAN : ChooseKind(kind, confirmed)

Spec == Init /\ [][Next]_vars

-----------------------------------------------------------------------------
(* Properties *)

\* Every variable has its type, and the kind of every mapping is the obvious one.
TypeOK ==
    /\ \A i \in Ids : preset[i] # None =>
            preset[i] \in UIMapping /\ preset[i] = Typed(preset[i])
    /\ \A i, j \in Ids :
            i # j /\ preset[i] # None /\ preset[j] # None =>
                ~PermutationOf(preset[i].inputs, preset[j].inputs)
    /\ active # None => preset[active] # None
    /\ page \in SUBSET Kinds /\ page # {}
    /\ broken \in BOOLEAN /\ edits \in 0..MaxEdits

\* Whatever the editor lets the user build: a mapping that the validators accept gets a
\* handler for each of its inputs, and MappingParser does not fail because of it.  The one
\* thing that only the handlers look at is whether the target has the absolute axis
\* (abs_to_abs_handler.py:68, rel_to_abs_handler.py:93): the target can be changed after
\* the axis was chosen, and the mapping stays valid.
ValidMeansHandled ==
    \A i \in Ids : preset[i] # None /\ Valid(preset[i]) /\ ~LacksAxis(preset[i]) =>
        Handled(Strict(preset[i]))

\* Each row of the list of mappings leads to a mapping of the preset, each mapping has
\* one, and the row that is selected is the one of the mapping being edited, although
\* the combinations, by which rows and mappings know each other, are edited too.
RowsLeadToMappings ==
    /\ rows = Combinations(Now)
    /\ active # None => row = preset[active].inputs

\* The status bar leaves out OutputSymbolVariantError, because another error explains it:
\* so it does for a mapping with a kind.  (A mapping whose input was just recorded has no
\* kind yet: it is not valid, and nothing is said about it.)
ErrorsAreExplained ==
    \A i \in Ids :
        /\ preset[i] # None /\ preset[i].inputs # EmptyCombination
        /\ preset[i].kind # None /\ ~Valid(preset[i])
        => UiErrors(preset[i]) # {}

\* Unless a handler failed, the widgets show the mapping that is being edited, the only
\* toggle that is active is the one of its kind, and while an input is selected it is one of
\* the mapping's, shown in a list of the inputs the mapping has now (the queued messages of
\* MessageBroker, which widgets receive when the mapping may have changed again).
ShownIsTheMapping ==
    /\ active # None /\ ~broken =>
        /\ shown = preset[active]
        /\ preset[active].kind # None => page = {preset[active].kind}
    /\ Enabled /\ selected # None =>
        /\ selected \in ToSet(preset[active].inputs)
        /\ input = selected /\ listRow = selected
        /\ list = preset[active].inputs

=============================================================================
