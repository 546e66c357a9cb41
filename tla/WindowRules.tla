------------------------------ MODULE WindowRules ------------------------------
(***************************************************************************)
(* The dialog that edits the window rules of one device and preset, and    *)
(* the two files it may write: profiles.json, which windowd reads too, or, *)
(* as long as that does not exist, the window_rules.json of old.           *)
(*                                                                         *)
(* Every operation of the user is one step of the GLib loop of the GUI.    *)
(* The dialog is modal, but windowd may meanwhile apply another preset,    *)
(* which the GUI then loads, and other clients of windowd make it write    *)
(* profiles.json.                                                          *)
(*                                                                         *)
(* Two of the seven fields of a match are kept, one that is compared and   *)
(* one that is a regular expression.  What a match means is in             *)
(* WindowDaemon; here rules are only read and written.                     *)
(***************************************************************************)
EXTENDS Naturals, Sequences, SequencesExt, FiniteSets

CONSTANTS
    Devices,      \* the device groups
    Presets,      \* names of presets
    Windows,      \* the classes of windows
    Ids,          \* ids for new rules, in place of uuids: a bound
    Given,        \* ids of rules and names of profiles that the files have at first
    Broken,       \* a text that is no regular expression
    Desktop,      \* the profile without a window
    None,         \* an empty field, no file, no preset
    Bindings,     \* the device and preset that other clients bind to windows
    InitialFiles, \* the contents profiles.json and window_rules.json may start with
    MaxEdits      \* bound on the changes the user makes

Fields == {"window_class_equals", "title_regex"}
Texts  == Windows \cup {Broken}

\* The priority of the rules of windows that presets are bound to, and the highest one the
\* form can hold.
BoundPriority == 1000
MaxPriority   == 999

\* The profile of the window that a preset was bound to.
AppProfile(w) == <<"APP", w>>

\* What the two files may contain.
Values    == [enabled : BOOLEAN, priority : Nat, match : [Fields -> Texts \cup {None}]]
Rules     == [id : Ids \cup Windows \cup Given, values : Values]
Profiles  == Ids \cup Windows \cup Given \cup {Desktop} \cup {AppProfile(w) : w \in Windows}
AppRules  == [rule : Rules, profile : Profiles]
Documents == [rules : Seq(AppRules), profiles : [Profiles -> [Devices -> Presets \cup {None}]]]
OldRules  == [rule : Rules, scope : Devices \X Presets]

Distinct(rules) == \A i, j \in DOMAIN rules : rules[i].rule.id = rules[j].rule.id => i = j

ASSUME RulesAssumption ==
    /\ None \notin Texts \cup Presets \cup Documents /\ None \notin Seq(OldRules)
    /\ Ids \cap Windows = {}
    /\ \A f \in InitialFiles :
          /\ f.doc = None \/ (f.doc \in Documents /\ Distinct(f.doc.rules))
          /\ f.legacy = None \/ (f.legacy \in Seq(OldRules) /\ Distinct(f.legacy))
    /\ Bindings \subseteq Devices \X Presets
    /\ MaxEdits \in Nat

VARIABLES
    doc,       \* profiles.json: its app rules, and the presets of its profiles, or None
    legacy,    \* window_rules.json: a sequence of rules with their device and preset, or None
    windowd,   \* is windowd running?
    active,    \* the device and preset that are active in the GUI
    open,      \* is the dialog shown?
    scope,     \* WindowRules._device and _preset
    dialog,    \* its rules, _selected_index (0 if none is) and the fields of the form
    asLoaded,  \* the rules the user has not touched since the dialog was opened
    edits      \* how often the user changed something in the dialog

files == <<doc, legacy>>
shown == <<open, scope, dialog, asLoaded, edits>>
vars  == <<files, windowd, active, shown>>

-----------------------------------------------------------------------------
(***************************************************************************)
(* The files.                                                              *)
(***************************************************************************)
NoScope == <<None, None>>
Unbound == [d \in Devices |-> None]

\* ProfilesConfig.load, of a file that does not exist.
Existing(d) == IF d = None THEN [rules |-> <<>>, profiles |-> [n \in Profiles |-> Unbound]] ELSE d

\* None, too, if there is no such profile.
PresetOf(d, name, dev) == d.profiles[name][dev]

\* The rules of profiles.json that put this preset on this device.
Targeting(d, s) == {i \in DOMAIN d.rules : PresetOf(d, d.rules[i].profile, s[1]) = s[2]}

\* The elements of s at I, in their order: how the code goes through a list.
Kept(s, I) ==
    LET Before(i) == {j \in I : j < i}
    IN  [n \in 1 .. Cardinality(I) |-> s[CHOOSE i \in I : Cardinality(Before(i)) = n - 1]]

IdsOf(rules) == {r.id : r \in ToSet(rules)}

\* WindowRulesConfig.load.
Lines(old) == IF old = None THEN <<>> ELSE old

\* DataManager._profiles_rules_available.
Profiled(d) == d # None

\* DataManager.get_window_rules_for_device_preset.
RulesFor(d, old, s) ==
    LET found == IF Profiled(d) THEN Kept(d.rules, Targeting(d, s))
                 ELSE Kept(Lines(old), {i \in DOMAIN Lines(old) : Lines(old)[i].scope = s})
    IN  [i \in DOMAIN found |-> found[i].rule]

\* The rules of window_rules.json for other devices and presets.
Others(old, s) == Kept(Lines(old), {i \in DOMAIN Lines(old) : Lines(old)[i].scope # s})

\* Profiles, of which `names` have this preset on this device.
With(profiles, names, s) ==
    [n \in Profiles |-> IF n \in names THEN [profiles[n] EXCEPT ![s[1]] = s[2]] ELSE profiles[n]]

\* Mutant: the profile is named like the rule, even if the rule has another one.
ProfileIsTheId(d, r) == r.id

\* The profile of a rule: a new one is named like the rule.
ProfileFor(d, r) ==
    IF \E i \in DOMAIN d.rules : d.rules[i].rule.id = r.id
    THEN d.rules[CHOOSE i \in DOMAIN d.rules : d.rules[i].rule.id = r.id].profile
    ELSE r.id

\* Mutant: whatever is not in the dialog is taken for deleted.
AllOthers(d, s, rules) == {i \in DOMAIN d.rules : d.rules[i].rule.id \notin IdsOf(rules)}

\* The rules of this device and preset that the dialog does not have any more.
Dropped(d, s, rules) == {i \in Targeting(d, s) : d.rules[i].rule.id \notin IdsOf(rules)}

\* DataManager.save_window_rules_for_device_preset, with a profiles.json.
Upserted(d, s, rules) ==
    LET dropped == Dropped(d, s, rules)
        Edited(r)  == {e \in ToSet(rules) : e.id = r.id}
        Update(i)  == LET old == d.rules[i] IN
            CASE Edited(old.rule) # {} ->
                    [old EXCEPT !.rule = CHOOSE e \in Edited(old.rule) : TRUE]
              [] i \in dropped -> [old EXCEPT !.rule.values.enabled = FALSE]
              [] OTHER -> old
        IsNew(r) == \A i \in DOMAIN d.rules : d.rules[i].rule.id # r.id
        new      == Kept(rules, {n \in DOMAIN rules : IsNew(rules[n])})
        added    == [n \in DOMAIN new |-> [rule |-> new[n], profile |-> ProfileFor(d, new[n])]]
    IN  [rules    |-> [i \in DOMAIN d.rules |-> Update(i)] \o added,
         profiles |-> With(d.profiles, {ProfileFor(d, r) : r \in ToSet(rules)}, s)]

\* The same with a window_rules.json.
Merged(old, s, rules) ==
    Others(old, s) \o [i \in DOMAIN rules |-> [rule |-> rules[i], scope |-> s]]

\* ProfilesConfig.ensure_migrated_from_window_rules: every rule gets a profile of its own,
\* in which the last one for a device counts.
Migrated(old) ==
    LET of(n, dev) == {i \in DOMAIN old : old[i].rule.id = n /\ old[i].scope[1] = dev}
        last(I)    == CHOOSE i \in I : \A j \in I : j <= i
    IN  [rules    |-> [i \in DOMAIN old |-> [rule |-> old[i].rule, profile |-> old[i].rule.id]],
         profiles |-> [n \in Profiles |->
                          [dev \in Devices |-> IF of(n, dev) = {} THEN None
                                               ELSE old[last(of(n, dev))].scope[2]]]]

\* ProfilesConfig.bind_device_preset_to_match: the rule of a window has the profile of that
\* window, and a priority above those people choose.
AppRule(w) ==
    [rule |-> [id |-> w, values |-> [enabled |-> TRUE, priority |-> BoundPriority,
                                     match |-> [f \in Fields |->
                                        IF f = "window_class_equals" THEN w ELSE None]]],
     profile |-> AppProfile(w)]
Bound(d, w, s) ==
    LET known == {i \in DOMAIN d.rules : d.rules[i].rule.id = w}
    IN  [rules    |-> IF known = {} THEN Append(d.rules, AppRule(w))
                      ELSE [i \in DOMAIN d.rules |->
                               IF i \in known THEN AppRule(w) ELSE d.rules[i]],
         profiles |-> With(d.profiles, {AppProfile(w)}, s)]

-----------------------------------------------------------------------------
(***************************************************************************)
(* The form and the list of the dialog.                                    *)
(***************************************************************************)
\* WindowRules._collect_detail_fields: the form is written to the selected rule.
Collect(d) == IF d.sel \in DOMAIN d.rules THEN [d EXCEPT !.rules[d.sel].values = d.form] ELSE d

\* What the form makes of the values of a rule: its spin button ends at MaxPriority.
Clamped(values) == [values EXCEPT !.priority = IF @ > MaxPriority THEN MaxPriority ELSE @]

\* WindowRules._fill_detail_grid, of the selected rule.
Fill(d) ==
    IF d.sel \in DOMAIN d.rules THEN [d EXCEPT !.form = Clamped(d.rules[d.sel].values)] ELSE d

\* WindowRules._on_row_selected.
Select(d, i) == Fill([Collect(d) EXCEPT !.sel = i])
Deselect(d)  == [Collect(d) EXCEPT !.sel = 0]

\* WindowRules._rebuild_listbox: the row that was selected is removed, which deselects it.
Rebuild(d) == IF d.rules = <<>> THEN Deselect(d) ELSE Select(Deselect(d), 1)

\* The callbacks forget the selection first, so that the form is not written once more.
Forget(d) == [d EXCEPT !.sel = 0]

\* DataManager.create_default_window_rule.
Default(id) == [id |-> id, values |-> [enabled |-> TRUE, priority |-> 0,
                                       match |-> [f \in Fields |-> None]]]

Insert(d, i, rule) == [d EXCEPT !.rules = InsertAt(@, i, rule)]

AddRule(d, id) ==
    Select(Rebuild(Forget(Insert(Collect(d), Len(d.rules) + 1, Default(id)))), Len(d.rules) + 1)

DuplicateRule(d, id) ==
    LET c == Collect(d)
    IN  Select(Rebuild(Forget(Insert(c, c.sel + 1, [c.rules[c.sel] EXCEPT !.id = id]))), c.sel + 1)

\* Mutant: the selection is still that of the rule which is gone.
DeleteAndKeepIndex(d) == LET c == Collect(d) IN Rebuild([c EXCEPT !.rules = RemoveAt(@, c.sel)])

DeleteRule(d) == LET c == Collect(d) IN Rebuild(Forget([c EXCEPT !.rules = RemoveAt(@, c.sel)]))

\* DataManager.validate_window_rule.
Valid(rule) ==
    /\ \E f \in Fields : rule.values.match[f] # None
    /\ rule.values.match["title_regex"] # Broken

\* The forms one change leads to.
Changes(form) ==
    {[form EXCEPT !.enabled = ~@]}
    \cup {[form EXCEPT !.priority = p] : p \in {0, MaxPriority}}
    \cup {[form EXCEPT !.match[f] = t] : f \in Fields, t \in Texts \cup {None}}

-----------------------------------------------------------------------------
Init ==
    /\ \E f \in InitialFiles : doc = f.doc /\ legacy = f.legacy
    /\ windowd = FALSE
    /\ active \in Devices \X Presets
    /\ open = FALSE
    /\ scope = NoScope
    /\ dialog = [rules |-> <<>>, sel |-> 0, form |-> Default(None).values]
    /\ asLoaded = {} /\ edits = 0

Selected == dialog.rules[dialog.sel]
Unused == Ids \ (IdsOf(dialog.rules)
                 \cup (IF doc = None THEN {} ELSE {doc.rules[i].rule.id : i \in DOMAIN doc.rules})
                 \cup {Lines(legacy)[i].rule.id : i \in DOMAIN Lines(legacy)})
NewId == CHOOSE id \in Unused : TRUE

\* Controller.open_window_rules and WindowRules.open.
Open ==
    /\ ~open
    /\ open' = TRUE /\ scope' = active
    /\ LET found == RulesFor(doc, legacy, active)
           rules == IF found = <<>> THEN <<Default(NewId)>> ELSE found
       IN  /\ found = <<>> => Unused # {}
           /\ dialog' = Rebuild(Forget([dialog EXCEPT !.rules = rules]))
           /\ asLoaded' = ToSet(rules)
    /\ UNCHANGED <<files, windowd, active, edits>>

\* The user works on the rules of the dialog: only what is shown changes.
InDialog == open /\ UNCHANGED <<files, windowd, active, open, scope>>

\* A change to some of the rules.
Edit(rules) ==
    /\ InDialog
    /\ edits < MaxEdits /\ edits' = edits + 1
    /\ asLoaded' = {r \in asLoaded : \A e \in rules : e.id # r.id}

SelectRow(i) ==
    /\ InDialog /\ i \in DOMAIN dialog.rules \ {dialog.sel}
    /\ dialog' = Select(dialog, i)
    /\ UNCHANGED <<asLoaded, edits>>

\* WindowRules._on_detail_changed.
ChangeDetail ==
    /\ dialog.sel # 0 /\ Edit({Selected})
    /\ \E form \in Changes(dialog.form) \ {dialog.form} :
          dialog' = Collect([dialog EXCEPT !.form = form])

\* The switch in a row, whether or not the row is selected.
ToggleRow(i) ==
    /\ i \in DOMAIN dialog.rules /\ Edit({dialog.rules[i]})
    /\ dialog' = Fill([dialog EXCEPT !.rules[i].values.enabled = ~@])

Add ==
    /\ Unused # {} /\ Edit({})
    /\ dialog' = AddRule(dialog, NewId)

Duplicate ==
    /\ dialog.sel # 0 /\ Unused # {} /\ Edit({})
    /\ dialog' = DuplicateRule(dialog, NewId)

Delete ==
    /\ dialog.sel # 0 /\ Edit({Selected})
    /\ dialog' = DeleteRule(dialog)

\* Controller.capture_current_window: what windowd knows.
CurrentWindows == IF windowd THEN Windows ELSE {}

\* The fields which the window does not tell stay as they are.
Capture(w) ==
    /\ w \in CurrentWindows /\ dialog.sel # 0 /\ Edit({Selected})
    /\ LET c == Collect(dialog)
       IN  dialog' = Fill([c EXCEPT !.rules[c.sel].values.match["window_class_equals"] = w])

\* What is left in a hidden dialog but will be read again.
Hide(d) ==
    /\ open' = FALSE /\ scope' = NoScope /\ asLoaded' = {}
    /\ dialog' = [d EXCEPT !.rules = <<>>]

Cancel == open /\ Hide(dialog) /\ UNCHANGED <<files, windowd, active, edits>>

\* Controller.save_window_rules_for.  With an error the dialog stays.
SaveRules ==
    LET c == Collect(dialog)
    IN  /\ open
        /\ \/ /\ \E r \in ToSet(c.rules) : ~Valid(r)
              /\ dialog' = c
              /\ UNCHANGED <<files, open, scope, asLoaded>>
           \/ /\ \A r \in ToSet(c.rules) : Valid(r)
              /\ Hide(c)
              /\ IF Profiled(doc)
                 THEN doc' = Upserted(doc, scope, c.rules) /\ UNCHANGED legacy
                 ELSE legacy' = Merged(legacy, scope, c.rules) /\ UNCHANGED doc
        /\ UNCHANGED <<windowd, active, edits>>

User ==
    \/ Open \/ ChangeDetail \/ Add \/ Duplicate \/ Delete \/ Cancel \/ SaveRules
    \/ \E i \in 1 .. Len(dialog.rules) : SelectRow(i) \/ ToggleRow(i)
    \/ \E w \in Windows : Capture(w)

\* The user selects another group or preset, for which the dialog must be closed; or windowd
\* has switched the preset, and the GUI follows it.
SelectPreset(s) ==
    /\ s # active
    /\ open => s[1] = active[1] /\ windowd
    /\ active' = s
    /\ UNCHANGED <<files, windowd, shown>>

\* WindowDaemonService.__init__.
WindowdStarts ==
    /\ ~windowd /\ windowd' = TRUE
    /\ doc' = IF doc = None /\ legacy # None THEN Migrated(legacy) ELSE doc
    /\ UNCHANGED <<legacy, active, shown>>

WindowdEnds == windowd /\ windowd' = FALSE /\ UNCHANGED <<files, active, shown>>

\* Its setters save the document they have loaded.
WindowdSaves ==
    /\ windowd /\ doc = None /\ doc' = Existing(None)
    /\ UNCHANGED <<legacy, windowd, active, shown>>

BindPresetToCurrentApp(w, s) ==
    /\ windowd
    /\ doc' = Bound(Existing(doc), w, s)
    /\ UNCHANGED <<legacy, windowd, active, shown>>

Windowd ==
    \/ WindowdStarts \/ WindowdEnds \/ WindowdSaves
    \/ \E s \in Devices \X Presets : SelectPreset(s)
    \/ \E w \in Windows, s \in Bindings : BindPresetToCurrentApp(w, s)

Next == User \/ Windowd

Spec == Init /\ [][Next]_vars

-----------------------------------------------------------------------------
(***************************************************************************)
(* Properties.                                                             *)
(***************************************************************************)
\* A rule as the form gives it back when it was only looked at.
Seen(rule) == [rule EXCEPT !.values = Clamped(@)]

\* What is typed into the form reaches the rule that is selected and no other: the form shows
\* that rule, and the rules the user did not touch are as they were loaded.  The comments in
\* WindowRules.open and _on_delete tell how removing rows used to spoil them.  One exception
\* is in the code: a priority above MaxPriority, which the rules of bound windows have, becomes
\* MaxPriority as soon as the row has been selected.
EditsStayInTheirRule ==
    open => /\ \A r \in asLoaded : r \in ToSet(dialog.rules) \/ Seen(r) \in ToSet(dialog.rules)
            /\ dialog.rules # <<>> => dialog.form = Clamped(Selected.values)

Stored == SaveRules /\ ~open'

\* Whoever opens the dialog again after saving finds the rules that it showed, the selected one
\* as it was in the form, and those that were deleted are no longer enabled, although windowd
\* may have bound presets, migrated the rules or given them other profiles since the dialog
\* was opened.
SavedIsStored ==
    [][Stored =>
        LET before == ToSet(RulesFor(doc, legacy, scope))
            after  == ToSet(RulesFor(doc', legacy', scope))
        IN  /\ ToSet(Collect(dialog).rules) \subseteq after
            /\ \A r \in before : r.id \notin IdsOf(dialog.rules) =>
                  \A s \in after : s.id = r.id => ~s.values.enabled]_vars

\* Saving leaves alone what others have written: the rules that are neither in the dialog nor
\* for its device and preset, and the presets of other devices, in profiles that are shared.
UnrelatedAreKept ==
    [][Stored =>
        IF doc = None
        THEN Others(legacy', scope) = Others(legacy, scope)
        ELSE /\ \A i \in DOMAIN doc.rules \ Targeting(doc, scope) :
                  doc.rules[i].rule.id \notin IdsOf(dialog.rules) => doc'.rules[i] = doc.rules[i]
             /\ \A n \in Profiles, d \in Devices \ {scope[1]} :
                  doc'.profiles[n][d] = doc.profiles[n][d]]_vars
=============================================================================
