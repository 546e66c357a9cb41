---------------------------- MODULE MappingProofs ----------------------------
(***************************************************************************)
(* First, the validators of Mapping and MappingParser agree: what the      *)
(* former accept, the latter builds handlers for.  Then, the editor: what  *)
(* its lists and widgets show is the mapping that is being edited.         *)
(***************************************************************************)
EXTENDS MappingEditor, SequenceTheorems, WellFoundedInduction, TLAPS

\* Mapping only changes the symbol and the kind of what UIMapping holds.
LEMMA StrictKeeps ==
    ASSUME NEW m \in UIMapping
    PROVE  /\ Strict(m).inputs = m.inputs /\ Strict(m).target = m.target
           /\ Strict(m).type = m.type /\ Strict(m).code = m.code
           /\ Strict(m).symbol = IF HasSymbol(m) THEN m.symbol ELSE None
BY DEF Strict, Typed, HasSymbol, UIMapping

\* A combination of keys is covered, each of them by exactly one handler.
LEMMA CombinationCovers ==
    ASSUME NEW c \in Seq(InputConfig), NEW S \in SUBSET DOMAIN c, S # {},
           \A i \in S : ~DefinesAnalog(c[i])
    PROVE  /\ Raises \notin CombinationOn(c, S)
           /\ \A i \in S : \E h \in CombinationOn(c, S) :
                i \in h.inputs /\ \A k \in CombinationOn(c, S) : i \in k.inputs => k = h
           /\ \A k \in CombinationOn(c, S) : k.inputs \subseteq S
<1> DEFINE Of(type) == {i \in S : c[i].type = type}
           keys == [handler |-> "combination", inputs |-> S \ (Of("abs") \cup Of("rel"))]
           abs == [handler |-> "abs2btn", inputs |-> Of("abs")]
           rel == [handler |-> "rel2btn", inputs |-> Of("rel")]
<1>1. CombinationOn(c, S) = {keys, abs, rel}
  BY DEF CombinationOn
<1>2. Raises \notin {keys, abs, rel}
  BY DEF Raises
<1>3. ASSUME NEW i \in S
      PROVE  \E h \in {keys, abs, rel} :
                i \in h.inputs /\ \A k \in {keys, abs, rel} : i \in k.inputs => k = h
  <2>1. CASE c[i].type = "abs"
    BY <2>1
  <2>2. CASE c[i].type = "rel"
    BY <2>2
  <2>3. CASE c[i].type \notin {"abs", "rel"}
    BY <2>3
  <2> QED BY <2>1, <2>2, <2>3
<1>4. \A k \in {keys, abs, rel} : k.inputs \subseteq S
  OBVIOUS
<1> QED BY <1>1, <1>2, <1>3, <1>4

\* An axis switch takes the axis, and leaves the keys to a combination.
LEMMA AxisSwitchCovers ==
    ASSUME NEW c \in Seq(InputConfig), AnalogInputs(c) # {}, DOMAIN c \ AnalogInputs(c) # {}
    PROVE  /\ Raises \notin AxisSwitchOn(c)
           /\ \A i \in DOMAIN c : \E h \in AxisSwitchOn(c) :
                i \in h.inputs /\ \A k \in AxisSwitchOn(c) : i \in k.inputs => k = h
<1> DEFINE axis == [handler |-> "axisswitch", inputs |-> AnalogInputs(c)]
           keys == DOMAIN c \ AnalogInputs(c)
<1>1. AxisSwitchOn(c) = {axis} \cup CombinationOn(c, keys)
  BY DEF AxisSwitchOn
<1>2. keys \in SUBSET DOMAIN c /\ \A i \in keys : ~DefinesAnalog(c[i])
  BY DEF AnalogInputs
<1> HIDE DEF keys
<1>3. keys # {}
  BY DEF keys
<1>4. /\ Raises \notin CombinationOn(c, keys)
      /\ \A i \in keys : \E h \in CombinationOn(c, keys) :
            i \in h.inputs /\ \A k \in CombinationOn(c, keys) : i \in k.inputs => k = h
      /\ \A k \in CombinationOn(c, keys) : k.inputs \subseteq keys
  BY <1>2, <1>3, CombinationCovers
<1>5. Raises # axis
  BY DEF Raises
<1>6. ASSUME NEW i \in DOMAIN c
      PROVE  \E h \in AxisSwitchOn(c) :
                i \in h.inputs /\ \A k \in AxisSwitchOn(c) : i \in k.inputs => k = h
  <2>1. CASE i \in keys
    <3>1. i \notin axis.inputs
      BY <2>1 DEF keys
    <3> QED BY <1>1, <1>4, <2>1, <3>1
  <2>2. CASE i \notin keys
    <3>1. i \in axis.inputs
      BY <2>2 DEF keys
    <3> QED BY <1>1, <1>4, <2>2, <3>1
  <2> QED BY <2>1, <2>2
<1> QED BY <1>1, <1>4, <1>5, <1>6

\* What the validators found nothing wrong with.
LEMMA ValidFacts ==
    ASSUME NEW m \in UIMapping, Valid(m)
    PROVE  /\ SymbolErrors(m) = {} /\ InputErrors(m.inputs) = {}
           /\ VariantErrors(Strict(m)) = {} /\ IntegrityErrors(Strict(m)) = {}
           /\ MatchErrors(Strict(m)) = {}
<1>1. SymbolErrors(m) = {}
  BY DEF Valid, Errors
<1> QED BY <1>1 DEF Valid, Errors

\* UIMapping.validate_mapping_type: a valid mapping has a kind, whatever the editor set.
LEMMA ValidHasKind ==
    ASSUME NEW m \in UIMapping, Valid(m)
    PROVE  Strict(m).kind # None
<1> DEFINE s == Strict(m)
<1>1. VariantErrors(s) = {} /\ IntegrityErrors(s) = {}
  BY ValidFacts
<1>2. s.type = m.type /\ s.code = m.code /\ s.symbol = IF HasSymbol(m) THEN m.symbol ELSE None
  BY StrictKeeps
<1>3. s.symbol # None <=> HasSymbol(m)
  BY <1>2 DEF HasSymbol
<1>4. /\ m.type = "key" => s.kind = "key_macro"
      /\ m.type = None /\ m.code = None /\ HasSymbol(m) => s.kind = "key_macro"
      /\ m.type # "key" /\ m.code # None /\ ~HasSymbol(m) => s.kind = "analog"
  BY MappingAssumption DEF Strict, Typed, HasSymbol, UIMapping
<1>5. None \notin {"key_macro", "analog"}
  BY MappingAssumption
<1>6. CASE s.symbol = None
  BY <1>1, <1>2, <1>3, <1>4, <1>5, <1>6 DEF VariantErrors
<1>7. CASE s.symbol # None
  <2>1. m.type = "key" \/ (m.type = None /\ m.code = None)
    BY <1>1, <1>2, <1>7 DEF IntegrityErrors
  <2> QED BY <1>3, <1>4, <1>5, <1>7, <2>1
<1> QED BY <1>6, <1>7

\* MappingParser has a handler for what a valid mapping produces, and for its inputs, unless
\* it is an absolute axis that the target does not have.
THEOREM ValidIsHandled ==
    ASSUME NEW m \in UIMapping, Valid(m)
    PROVE  LacksAxis(m) \/ Handled(Strict(m))
<1> DEFINE s == Strict(m)
           c == m.inputs
           analog == AnalogInputs(c)
<1>0. SUFFICES ASSUME ~LacksAxis(m) PROVE Handled(s)
  OBVIOUS
<1>1. /\ s.inputs = c /\ s.type = m.type /\ s.code = m.code
      /\ s.symbol = IF HasSymbol(m) THEN m.symbol ELSE None
      /\ s.target = m.target
  BY StrictKeeps
<1>2. /\ c \in Seq(InputConfig) /\ DOMAIN c = 1..Len(c)
      /\ Len(c) \in Nat /\ Len(c) > 0 /\ DOMAIN c # {}
  <2>1. c \in Seq(InputConfig) /\ c # <<>>
    BY DEF UIMapping
  <2>2. DOMAIN c = 1..Len(c) /\ Len(c) \in Nat /\ Len(c) > 0
    BY <2>1
  <2> QED BY <2>1, <2>2
<1>3. /\ SymbolErrors(m) = {} /\ InputErrors(c) = {} /\ VariantErrors(s) = {}
      /\ IntegrityErrors(s) = {} /\ MatchErrors(s) = {} /\ s.kind # None
  BY ValidFacts, ValidHasKind
<1>4. \A i, j \in analog : i = j
  BY <1>3 DEF InputErrors
<1>5. /\ analog = {} => /\ s.kind = "key_macro"
                        /\ s.symbol # None \/ (s.type = "key" /\ s.code \notin {None, 0})
      /\ analog # {} => IsAxis(s.type) \/ s.symbol = Disable
  BY <1>1, <1>3 DEF MatchErrors
<1>6. s.symbol # None <=> HasSymbol(s)
  BY <1>1 DEF HasSymbol
<1>7. /\ s.symbol = None => s.type # None /\ s.code # None
      /\ s.symbol # None => s.type = "key" \/ (s.type = None /\ s.code = None)
      /\ s.symbol # None /\ s.symbol # Disable =>
            s.symbol \in Macros \/ s.symbol \in DOMAIN Layout
  BY <1>1, <1>3 DEF VariantErrors, IntegrityErrors, SymbolErrors, HasSymbol
<1>8. CASE OutputHandler(s) = "disable"
  <2>1. Constructs(s)
    BY <1>8 DEF Constructs
  <2>2. CASE \A i \in DOMAIN c : DefinesAnalog(c[i])
    <3>1. Pipeline(s) = {[handler |-> "disable", inputs |-> DOMAIN c]}
      BY <1>1, <1>8, <2>1, <2>2 DEF Pipeline
    <3> QED BY <1>1, <3>1 DEF Handled, Raises
  <2>3. CASE analog = {}
    <3>1. \A i \in DOMAIN c : ~DefinesAnalog(c[i])
      BY <2>3 DEF AnalogInputs
    <3>2. Pipeline(s) = CombinationOn(c, DOMAIN c)
      BY <1>1, <1>2, <1>8, <2>1, <2>3, <3>1 DEF Pipeline
    <3> QED BY <1>1, <1>2, <3>1, <3>2, CombinationCovers DEF Handled
  <2>4. CASE analog # {} /\ ~\A i \in DOMAIN c : DefinesAnalog(c[i])
    <3>1. DOMAIN c \ analog # {}
      BY <2>4 DEF AnalogInputs
    <3>2. Pipeline(s) = AxisSwitchOn(c)
      BY <1>1, <1>8, <2>1, <2>4 DEF Pipeline
    <3>3. /\ Raises \notin AxisSwitchOn(c)
          /\ \A i \in DOMAIN c : \E h \in AxisSwitchOn(c) :
                i \in h.inputs /\ \A k \in AxisSwitchOn(c) : i \in k.inputs => k = h
      BY <1>2, <2>4, <3>1, AxisSwitchCovers
    <3> QED BY <1>1, <3>2, <3>3 DEF Handled
  <2> QED BY <2>2, <2>3, <2>4
<1>9. CASE OutputHandler(s) \in {"key", "macro"}
  <2>1. analog = {}
    BY <1>5, <1>6, <1>7, <1>9, MappingAssumption DEF OutputHandler, IsAxis
  <2>2. Constructs(s)
    BY <1>5, <1>6, <1>7, <1>9 DEF Constructs, OutputHandler
  <2>3. \A i \in DOMAIN c : ~DefinesAnalog(c[i])
    BY <2>1 DEF AnalogInputs
  <2>4. Pipeline(s) = CombinationOn(c, DOMAIN c)
    BY <1>1, <1>9, <2>2 DEF Pipeline
  <2> QED BY <1>1, <1>2, <2>3, <2>4, CombinationCovers DEF Handled
<1>10. CASE OutputHandler(s) \notin {"disable", "key", "macro"}
  <2>1. s.symbol = None /\ s.type # "key"
    BY <1>6, <1>7, <1>10 DEF OutputHandler
  <2>2. analog # {} /\ IsAxis(s.type) /\ s.code # None
    BY <1>5, <1>7, <2>1, MappingAssumption
  <2>3. IsAxis(c[FirstAnalog(c)].type)
    <3>1. PICK i \in analog : TRUE
      BY <2>2
    <3>2. FirstAnalog(c) \in analog
      BY <1>2, <1>4, <3>1 DEF FirstAnalog, AnalogInputs
    <3>3. FirstAnalog(c) \in DOMAIN c /\ DefinesAnalog(c[FirstAnalog(c)])
      BY <3>2 DEF AnalogInputs
    <3>4. c[FirstAnalog(c)] \in InputConfig
      BY <1>2, <3>3
    <3> QED BY <3>3, <3>4 DEF DefinesAnalog, InputConfig, InputTypes, IsAxis
  <2>4. OutputHandler(s) \in {"abs2axis", "rel2axis"}
    BY <1>1, <1>10, <2>1, <2>2, <2>3 DEF OutputHandler, HasSymbol
  <2>5. Constructs(s)
    <3>1. s.type = "abs" => HasAxis(s)
      BY <1>0, <1>1, <1>10 DEF LacksAxis, HasAxis, OutputHandler
    <3> QED BY <2>2, <2>4, <3>1 DEF Constructs
  <2>6. CASE Len(c) > 1
    <3>1. Pipeline(s) = AxisSwitchOn(c)
      BY <1>1, <2>4, <2>5, <2>6 DEF Pipeline
    <3>2. DOMAIN c \ analog # {}
      BY <1>2, <1>4, <2>6
    <3>3. /\ Raises \notin AxisSwitchOn(c)
          /\ \A i \in DOMAIN c : \E h \in AxisSwitchOn(c) :
                i \in h.inputs /\ \A k \in AxisSwitchOn(c) : i \in k.inputs => k = h
      BY <1>2, <2>2, <3>2, AxisSwitchCovers
    <3> QED BY <1>1, <3>1, <3>3 DEF Handled
  <2>7. CASE ~(Len(c) > 1)
    <3>1. Pipeline(s) = {[handler |-> OutputHandler(s), inputs |-> DOMAIN c]}
      BY <1>1, <2>4, <2>5, <2>7 DEF Pipeline
    <3> QED BY <1>1, <2>4, <3>1 DEF Handled, Raises
  <2> QED BY <2>6, <2>7
<1> QED BY <1>8, <1>9, <1>10

\* A type-correct editor only holds mappings which, once valid, can be injected, if their
\* targets have the axes.
THEOREM TypeImpliesHandled == TypeOK => ValidMeansHandled
BY ValidIsHandled DEF TypeOK, ValidMeansHandled

-----------------------------------------------------------------------------
(***************************************************************************)
(* The editor.  A handler takes the state of the editor through its steps  *)
(* as a record: these are what such a record is, and what has to be true   *)
(* of it between two handlers.                                             *)
(***************************************************************************)

Combos == Seq(InputConfig) \ {<<>>}

State ==
    [preset : [Ids -> UIMapping \cup {None}], active : Ids \cup {None},
     selected : InputConfig \cup {None},
     rows : SUBSET Combos, row : Combos \cup {None},
     list : Combos \cup {None}, listRow : InputConfig \cup {None},
     shown : UIMapping, input : InputConfig \cup {None},
     page : SUBSET Kinds, broken : BOOLEAN, failed : BOOLEAN]

AreTyped(s) == \A i \in Ids : s.preset[i] # None => s.preset[i] = Typed(s.preset[i])

AreDistinct(s) == \A i, j \in Ids :
    i # j /\ s.preset[i] # None /\ s.preset[j] # None
        => ~PermutationOf(s.preset[i].inputs, s.preset[j].inputs)

\* What every step of a handler keeps.
Base(s) ==
    /\ s \in State /\ s.page # {}
    /\ AreTyped(s) /\ AreDistinct(s)
    /\ s.active # None => s.preset[s.active] # None

RowLeads(s) == s.active # None => s.row = Mapping(s).inputs
ShowsInputs(s) == s.active # None => s.shown.inputs = Mapping(s).inputs
ListsInputs(s) ==
    s.active # None /\ Mapping(s).inputs # EmptyCombination => s.list = Mapping(s).inputs

\* What the lists show.
Listed(s) == s.rows = Combinations(s) /\ RowLeads(s) /\ ShowsInputs(s) /\ ListsInputs(s)

\* The selected input is one of the mapping, and it is shown.
SelectedIsShown(s) ==
    s.active # None /\ s.selected # None =>
        /\ s.selected \in ToSet(Mapping(s).inputs)
        /\ Mapping(s).inputs # EmptyCombination => s.input = s.selected /\ s.listRow = s.selected

Consistent(s) == Base(s) /\ Listed(s) /\ SelectedIsShown(s)

\* The other widgets show the mapping, unless an exception kept the message from them.
ShowsMapping(s) ==
    s.active # None /\ ~s.broken /\ ~s.failed =>
        /\ s.shown = Mapping(s)
        /\ Mapping(s).kind # None => s.page = {Mapping(s).kind}

Sound(s) == Consistent(s) /\ ShowsMapping(s)

\* No step of a handler touches these but those that edit the preset.
SamePreset(s, t) == t.preset = s.preset /\ t.rows = s.rows /\ t.active = s.active

-----------------------------------------------------------------------------
(* Inputs and mappings.                                                    *)

LEMMA MappingTypes ==
    ASSUME NEW m \in UIMapping
    PROVE  /\ m.inputs \in Combos /\ m.inputs \in Seq(InputConfig) /\ m.inputs # <<>>
           /\ Len(m.inputs) \in Nat \ {0} /\ DOMAIN m.inputs = 1..Len(m.inputs)
           /\ m.inputs[1] \in ToSet(m.inputs)
           /\ ToSet(m.inputs) \subseteq InputConfig
           /\ m # None /\ m.inputs # None
<1>1. m.inputs \in Combos /\ m.inputs \in Seq(InputConfig) /\ m.inputs # <<>>
  BY DEF UIMapping, Combos
<1>2. Len(m.inputs) \in Nat \ {0} /\ DOMAIN m.inputs = 1..Len(m.inputs)
  BY <1>1
<1>3. m # None /\ m.inputs # None
  BY <1>1, EditorAssumption
<1>4. m.inputs[1] \in ToSet(m.inputs) /\ ToSet(m.inputs) \subseteq InputConfig
  BY <1>1, <1>2 DEF ToSet
<1> QED BY <1>1, <1>2, <1>3, <1>4

LEMMA TypedKeeps ==
    ASSUME NEW m \in UIMapping
    PROVE  /\ Typed(m) \in UIMapping /\ Typed(m).inputs = m.inputs
           /\ Typed(m).type = m.type /\ Typed(m).code = m.code
           /\ Typed(Typed(m)) = Typed(m)
<1> DEFINE key == \/ m.type = "key"
                  \/ m.type = None /\ m.code = None /\ HasSymbol(m)
           axis == m.type # "key" /\ m.code # None /\ ~HasSymbol(m)
<1>1. CASE key
  BY <1>1 DEF Typed, UIMapping, HasSymbol
<1>2. CASE ~key /\ axis
  BY <1>2 DEF Typed, UIMapping, HasSymbol
<1>3. CASE ~key /\ ~axis
  BY <1>3 DEF Typed, UIMapping, HasSymbol
<1> QED BY <1>1, <1>2, <1>3

\* A combination is a permutation of itself, and of what is one of it.
LEMMA PermutationFacts ==
    ASSUME NEW c \in Combos, NEW d \in Combos
    PROVE  /\ PermutationOf(c, c)
           /\ PermutationOf(c, d) => PermutationOf(d, c)
           /\ PermutationOf(EmptyCombination, c) => c = EmptyCombination
<1>1. Len(EmptyCombination) = 1
  BY DEF EmptyCombination
<1>2. ToSet(c) \cup ToSet(d) = ToSet(d) \cup ToSet(c)
  OBVIOUS
<1>3. PermutationOf(c, d) => PermutationOf(d, c)
  BY <1>2 DEF PermutationOf
<1> QED BY <1>1, <1>3 DEF PermutationOf

LEMMA DefaultType ==
    /\ Unset \in UIMapping /\ Default \in UIMapping
    /\ Unset = Typed(Unset) /\ EmptyCombination \in Combos
    /\ Unset.inputs = EmptyCombination /\ Default.inputs = EmptyCombination
<1>1. NoInput \in InputConfig
  BY DEF NoInput, InputConfig, InputTypes
<1>2. EmptyCombination \in Combos
  BY <1>1 DEF EmptyCombination, Combos
<1>3. Unset \in UIMapping /\ Default \in UIMapping
  BY <1>2, EditorAssumption DEF Unset, Default, UIMapping, Combos
<1>4. Unset = Typed(Unset)
  BY MappingAssumption DEF Unset, Typed, HasSymbol
<1> QED BY <1>2, <1>3, <1>4 DEF Unset, Default

-----------------------------------------------------------------------------
(* Messages.                                                               *)

LEMMA MappingIs ==
    ASSUME NEW s, Base(s), s.active # None
    PROVE  s.active \in Ids /\ Mapping(s) \in UIMapping
<1> QED BY DEF Base, State, Mapping

LEMMA ListedMapping ==
    ASSUME NEW s, Base(s), s.active # None
    PROVE  Mapping(s).inputs \in Combinations(s)
<1>1. s.active \in Ids /\ s.preset[s.active] # None
  BY MappingIs DEF Base
<1> QED BY <1>1 DEF Combinations, Mapping

\* What is kept if no step touches the preset.
LEMMA BaseOfSame ==
    ASSUME NEW s, NEW t, Base(s), t \in State, t.preset = s.preset, t.page # {},
           t.active # None => s.preset[t.active] # None
    PROVE  Base(t) /\ Combinations(t) = Combinations(s)
<1> QED BY DEF Base, AreTyped, AreDistinct, Combinations

LEMMA SendMappingEffect ==
    ASSUME NEW s \in State, s.page # {}, ~s.failed, NEW m \in UIMapping
    PROVE  LET t == SendMapping(s, m)
           IN  /\ t \in State /\ t.page # {} /\ SamePreset(s, t)
               /\ t.selected = s.selected /\ t.input = s.input
               /\ ~t.failed /\ ~t.broken
               /\ t.shown = m
               /\ t.row = IF m.inputs \in s.rows THEN m.inputs ELSE s.row
               /\ t.list = IF s.list = m.inputs THEN s.list
                           ELSE IF IsEmptyMapping(s) THEN None ELSE m.inputs
               /\ s.list = m.inputs => t.listRow = s.listRow
               /\ m.kind # None => t.page = {m.kind}
<1> DEFINE t == SendMapping(s, m)
           relist == ListsNew(s, m)
           list0 == IF ~relist THEN s.list ELSE IF IsEmptyMapping(s) THEN None ELSE m.inputs
           row0 == IF m.inputs \in s.rows THEN m.inputs ELSE s.row
           listRow0 == IF relist THEN None ELSE s.listRow
           page0 == Toggles(m, s.page)
<1>1. t = [s EXCEPT !.shown = m, !.row = row0, !.list = list0, !.listRow = listRow0,
                    !.page = page0, !.broken = FALSE]
  BY DEF SendMapping
<1>2. m.inputs \in Combos /\ m.kind \in {None} \cup Kinds
  BY DEF UIMapping, Combos, Kinds
<1>3. page0 \in SUBSET Kinds /\ page0 # {} /\ (m.kind # None => page0 = {m.kind})
  BY <1>2 DEF Toggles, State
<1>4. row0 \in Combos \cup {None} /\ list0 \in Combos \cup {None}
      /\ listRow0 \in InputConfig \cup {None}
  BY <1>2 DEF State
<1>5. list0 = IF s.list = m.inputs THEN s.list ELSE IF IsEmptyMapping(s) THEN None ELSE m.inputs
  BY DEF ListsNew
<1>6. s.list = m.inputs => listRow0 = s.listRow
  BY DEF ListsNew
<1> HIDE DEF t, relist, list0, row0, listRow0, page0
<1>7. t \in State
  BY <1>1, <1>3, <1>4 DEF State
<1>8. /\ t.shown = m /\ t.row = row0 /\ t.list = list0 /\ t.listRow = listRow0
      /\ t.page = page0 /\ t.broken = FALSE /\ t.failed = s.failed
      /\ t.preset = s.preset /\ t.active = s.active /\ t.rows = s.rows
      /\ t.selected = s.selected /\ t.input = s.input
  BY <1>1 DEF State
<1>9. t.row = IF m.inputs \in s.rows THEN m.inputs ELSE s.row
  BY <1>8 DEF row0
<1>10. ~t.broken
  BY <1>8, Zenon
<1> QED BY <1>3, <1>5, <1>6, <1>7, <1>8, <1>9, <1>10 DEF t, SamePreset

\* A "mapping" message makes all widgets but those of the input show the mapping.
LEMMA PublishMappingSound ==
    ASSUME NEW s, Base(s), ~s.failed, s.active # None, s.rows = Combinations(s),
           s.selected # None =>
               /\ SelectedIsShown(s)
               /\ Mapping(s).inputs # EmptyCombination => s.list = Mapping(s).inputs
    PROVE  LET t == PublishMapping(s)
           IN  Sound(t) /\ ~t.failed /\ SamePreset(s, t) /\ t.selected = s.selected
<1> DEFINE t == PublishMapping(s)
           m == Mapping(s)
<1>1. m \in UIMapping /\ s.active \in Ids /\ s \in State /\ s.page # {}
  BY MappingIs DEF Base
<1>2. t = SendMapping(s, m)
  BY DEF PublishMapping
<1>3. m.inputs \in s.rows /\ m.inputs # None
  BY <1>1, ListedMapping, MappingTypes
<1> HIDE DEF t, m
<1>4. /\ t \in State /\ t.page # {} /\ SamePreset(s, t)
      /\ t.selected = s.selected /\ t.input = s.input
      /\ ~t.failed /\ ~t.broken /\ t.shown = m /\ t.row = m.inputs
      /\ t.list = IF s.list = m.inputs THEN s.list
                  ELSE IF IsEmptyMapping(s) THEN None ELSE m.inputs
      /\ s.list = m.inputs => t.listRow = s.listRow
      /\ m.kind # None => t.page = {m.kind}
  BY <1>1, <1>2, <1>3, SendMappingEffect
<1>5. Mapping(t) = m
  BY <1>4 DEF Mapping, SamePreset, m
<1>6. Base(t) /\ Combinations(t) = Combinations(s)
  <2>1. t.active # None => s.preset[t.active] # None
    BY <1>4 DEF Base, SamePreset
  <2> QED BY <1>4, <2>1, BaseOfSame DEF SamePreset
<1>7. m.inputs # EmptyCombination => t.list = m.inputs
  <2>1. m.inputs # EmptyCombination => ~IsEmptyMapping(s)
    BY DefaultType DEF IsEmptyMapping, m
  <2> QED BY <1>4, <2>1
<1>8. Listed(t)
  BY <1>4, <1>5, <1>6, <1>7 DEF Listed, RowLeads, ShowsInputs, ListsInputs, SamePreset
<1>9. SelectedIsShown(t)
  BY <1>4, <1>5 DEF SelectedIsShown, SamePreset, m
<1>10. ShowsMapping(t)
  BY <1>4, <1>5 DEF ShowsMapping
<1> QED BY <1>4, <1>6, <1>8, <1>9, <1>10 DEF Sound, Consistent, t

\* A "selected_event" message; what was selected before does not matter.
LEMMA PublishEventSound ==
    ASSUME NEW s, Base(s), Listed(s), ShowsMapping(s), ~s.failed, s.active # None,
           s.selected # None, s.selected \in ToSet(Mapping(s).inputs)
    PROVE  LET t == PublishEvent(s) IN Sound(t) /\ ~t.failed /\ SamePreset(s, t)
<1> DEFINE t == PublishEvent(s)
           m == Mapping(s)
           listRow0 == IF s.list # None /\ s.selected \in ToSet(s.list)
                       THEN s.selected ELSE s.listRow
<1>1. m \in UIMapping /\ s.active \in Ids /\ s \in State /\ s.page # {}
  BY MappingIs DEF Base
<1>2. t = [s EXCEPT !.input = s.selected, !.listRow = listRow0]
  BY DEF PublishEvent
<1>3. listRow0 \in InputConfig \cup {None} /\ s.selected \in InputConfig \cup {None}
  BY <1>1 DEF State
<1>4. m.inputs # EmptyCombination => listRow0 = s.selected
  <2>1. m.inputs # None
    BY <1>1, MappingTypes
  <2> QED BY <2>1 DEF Listed, ListsInputs
<1> HIDE DEF t, listRow0
<1>5. /\ t \in State /\ t.input = s.selected /\ t.listRow = listRow0
      /\ t.preset = s.preset /\ t.active = s.active /\ t.rows = s.rows /\ t.row = s.row
      /\ t.selected = s.selected /\ t.shown = s.shown /\ t.list = s.list /\ t.page = s.page
      /\ t.broken = s.broken /\ t.failed = s.failed
  BY <1>1, <1>2, <1>3 DEF State
<1>6. Mapping(t) = m
  BY <1>5 DEF Mapping
<1>7. Base(t) /\ Combinations(t) = Combinations(s)
  <2>1. t.active # None => s.preset[t.active] # None
    BY <1>5 DEF Base
  <2> QED BY <1>1, <1>5, <2>1, BaseOfSame
<1>8. Listed(t)
  BY <1>5, <1>6, <1>7 DEF Listed, RowLeads, ShowsInputs, ListsInputs
<1>9. SelectedIsShown(t)
  BY <1>4, <1>5, <1>6 DEF SelectedIsShown
<1>10. ShowsMapping(t) /\ ~t.failed
  BY <1>5, <1>6 DEF ShowsMapping
<1> QED BY <1>5, <1>7, <1>8, <1>9, <1>10 DEF Sound, Consistent, SamePreset, t

\* An input of the mapping is selected.
LEMMA LoadInputSound ==
    ASSUME NEW s, Base(s), Listed(s), ShowsMapping(s), ~s.failed, s.active # None,
           NEW config \in ToSet(Mapping(s).inputs)
    PROVE  LET t == LoadInputConfig(s, config) IN Sound(t) /\ ~t.failed /\ SamePreset(s, t)
<1> DEFINE u == [s EXCEPT !.selected = config]
<1>1. Mapping(s) \in UIMapping /\ s \in State /\ s.page # {}
  BY MappingIs DEF Base
<1>2. config \in InputConfig
  BY <1>1, MappingTypes
<1>3. LoadInputConfig(s, config) = PublishEvent(u)
  BY DEF LoadInputConfig
<1>4. /\ u \in State /\ u.selected = config /\ u.input = s.input /\ u.listRow = s.listRow
      /\ u.preset = s.preset /\ u.active = s.active /\ u.rows = s.rows /\ u.row = s.row
      /\ u.shown = s.shown /\ u.list = s.list /\ u.page = s.page
      /\ u.broken = s.broken /\ u.failed = s.failed
  BY <1>1, <1>2 DEF State
<1> HIDE DEF u
<1>5. Mapping(u) = Mapping(s)
  BY <1>4 DEF Mapping
<1>6. Base(u) /\ Combinations(u) = Combinations(s)
  <2>1. u.active # None => s.preset[u.active] # None
    BY <1>4 DEF Base
  <2> QED BY <1>1, <1>4, <2>1, BaseOfSame
<1>7. Listed(u) /\ ShowsMapping(u) /\ ~u.failed
  BY <1>4, <1>5, <1>6 DEF Listed, RowLeads, ShowsInputs, ListsInputs, ShowsMapping
<1>8. config # None
  BY <1>2, EditorAssumption
<1> QED BY <1>3, <1>4, <1>5, <1>6, <1>7, <1>8, PublishEventSound DEF SamePreset

-----------------------------------------------------------------------------
(* Mappings and presets are loaded.                                        *)

\* The combination of a row is that of one mapping, which is loaded with its first input.
LEMMA LoadMappingSound ==
    ASSUME NEW s, Base(s), ~s.failed, s.rows = Combinations(s), NEW c \in Combinations(s)
    PROVE  LET t == LoadMapping(s, c)
           IN  Sound(t) /\ ~t.failed /\ t.preset = s.preset /\ t.active # None
<1> DEFINE found == {i \in Ids : s.preset[i] # None /\ PermutationOf(c, s.preset[i].inputs)}
           a == CHOOSE i \in found : TRUE
           u == [s EXCEPT !.selected = None, !.active = a]
           p == PublishMapping(u)
<1>1. PICK k \in Ids : s.preset[k] # None /\ s.preset[k].inputs = c
  BY DEF Combinations
<1>2. s \in State /\ \A i \in Ids : s.preset[i] # None => s.preset[i] \in UIMapping
  BY DEF Base, State
<1>3. c \in Combos /\ k \in found
  BY <1>1, <1>2, MappingTypes, PermutationFacts
<1>4. a \in found
  BY <1>3
<1>5. s.preset[a] # None /\ s.preset[a].inputs = c /\ a \in Ids
  <2>1. a \in Ids /\ s.preset[a] # None /\ PermutationOf(c, s.preset[a].inputs)
    BY <1>4
  <2> HIDE DEF a
  <2>2. a = k
    BY <1>1, <2>1 DEF Base, AreDistinct
  <2> QED BY <1>1, <2>1, <2>2
<1>6. LoadMapping(s, c) = LoadInputConfig(p, c[1])
  BY <1>3 DEF LoadMapping
<1> HIDE DEF a, found
<1>7. /\ u \in State /\ u.selected = None /\ u.active = a /\ u.preset = s.preset
      /\ u.rows = s.rows /\ u.page = s.page /\ ~u.failed
  BY <1>2, <1>5 DEF State
<1> HIDE DEF u
<1>8. Base(u) /\ Combinations(u) = Combinations(s)
  BY <1>5, <1>7, BaseOfSame DEF Base
<1>9. a # None
  BY <1>5, EditorAssumption
<1>10. Sound(p) /\ ~p.failed /\ SamePreset(u, p)
  BY <1>7, <1>8, <1>9, PublishMappingSound
<1> HIDE DEF p
<1>11. p.active = a /\ p.preset = s.preset /\ Mapping(p).inputs = c
  BY <1>5, <1>7, <1>10 DEF SamePreset, Mapping
<1>12. c[1] \in ToSet(Mapping(p).inputs)
  BY <1>2, <1>5, <1>11, MappingTypes
<1>13. Base(p) /\ Listed(p) /\ ShowsMapping(p)
  BY <1>10 DEF Sound, Consistent
<1>14. LET t == LoadInputConfig(p, c[1]) IN Sound(t) /\ ~t.failed /\ SamePreset(p, t)
  BY <1>9, <1>10, <1>11, <1>12, <1>13, LoadInputSound
<1> QED BY <1>6, <1>9, <1>11, <1>14 DEF SamePreset

\* A "preset" message: whatever the lists showed, they show the preset now.
LEMMA SendPresetSound ==
    ASSUME NEW s, Base(s), ~s.failed, NEW first,
           Combinations(s) = {} => s.active = None,
           Combinations(s) # {} => first \in Combinations(s)
    PROVE  LET t == SendPreset(s, first) IN Sound(t) /\ ~t.failed /\ t.preset = s.preset
<1> DEFINE u == [s EXCEPT !.rows = Combinations(s), !.row = None]
<1>1. s \in State /\ Combinations(s) \in SUBSET Combos
  BY MappingTypes DEF Base, State, Combinations
<1>2. /\ SendPreset(s, first) = IF Combinations(s) = {} THEN SendMapping(u, Default)
                                ELSE LoadMapping(u, first)
  BY DEF SendPreset
<1>3. /\ u \in State /\ u.rows = Combinations(s) /\ u.preset = s.preset
      /\ u.active = s.active /\ u.page = s.page /\ ~u.failed
  BY <1>1 DEF State
<1> HIDE DEF u
<1>4. Base(u) /\ Combinations(u) = Combinations(s)
  BY <1>1, <1>3, BaseOfSame DEF Base
<1>5. CASE Combinations(s) = {}
  <2> DEFINE t == SendMapping(u, Default)
  <2>1. /\ t \in State /\ t.page # {} /\ SamePreset(u, t) /\ ~t.failed
    BY <1>3, <1>4, DefaultType, SendMappingEffect DEF Base
  <2> HIDE DEF t
  <2>2. t.active = None /\ t.preset = s.preset /\ t.rows = {}
    BY <1>3, <1>5, <2>1 DEF SamePreset
  <2>3. Base(t) /\ Combinations(t) = {}
    BY <1>3, <1>4, <1>5, <2>1, <2>2, BaseOfSame
  <2>4. Sound(t)
    BY <2>2, <2>3 DEF Sound, Consistent, Listed, RowLeads, ShowsInputs, ListsInputs,
                      SelectedIsShown, ShowsMapping
  <2> QED BY <1>2, <1>5, <2>1, <2>2, <2>4 DEF t
<1>6. CASE Combinations(s) # {}
  BY <1>2, <1>3, <1>4, <1>6, LoadMappingSound
<1> QED BY <1>5, <1>6

-----------------------------------------------------------------------------
(* Fields of the mapping are set.                                          *)

Changes ==
    ({"inputs"} \X Combos) \cup ({"target"} \X Targets)
    \cup ({"symbol"} \X (Texts \cup {None})) \cup ({"type"} \X {None, "key", "abs", "rel"})
    \cup ({"code"} \X (Int \cup {None})) \cup ({"kind"} \X ({None} \cup Kinds))

LEMMA FieldSet ==
    ASSUME NEW m \in UIMapping, NEW change \in Changes
    PROVE  LET n == [m EXCEPT ![change[1]] = change[2]]
           IN  /\ n \in UIMapping
               /\ n.inputs = IF change[1] = "inputs" THEN change[2] ELSE m.inputs
               /\ n.type = IF change[1] = "type" THEN change[2] ELSE m.type
               /\ n.code = IF change[1] = "code" THEN change[2] ELSE m.code
<1>1. CASE change \in {"inputs"} \X Combos
  BY <1>1 DEF UIMapping, Combos
<1>2. CASE change \in {"target"} \X Targets
  BY <1>2 DEF UIMapping
<1>3. CASE change \in {"symbol"} \X (Texts \cup {None})
  BY <1>3 DEF UIMapping
<1>4. CASE change \in {"type"} \X {None, "key", "abs", "rel"}
  BY <1>4 DEF UIMapping
<1>5. CASE change \in {"code"} \X (Int \cup {None})
  BY <1>5 DEF UIMapping
<1>6. CASE change \in {"kind"} \X ({None} \cup Kinds)
  BY <1>6 DEF UIMapping, Kinds
<1> QED BY <1>1, <1>2, <1>3, <1>4, <1>5, <1>6 DEF Changes

\* A mapping with a type of output has a code, and the other way round.
Pair(m) == m.type = None <=> m.code = None

\* What a change makes of the type and the code.
TypeCode(s, t, change) ==
    /\ Mapping(t).type = IF change[1] = "type" /\ ~t.failed THEN change[2] ELSE Mapping(s).type
    /\ Mapping(t).code = IF change[1] = "code" /\ ~t.failed THEN change[2] ELSE Mapping(s).code

\* Only the mapping being edited may differ, and whether a handler failed.
Edited(s, t) ==
    /\ Base(t)
    /\ \A i \in Ids \ {s.active} : t.preset[i] = s.preset[i]
    /\ t.active = s.active /\ t.selected = s.selected /\ t.rows = s.rows /\ t.row = s.row
    /\ t.list = s.list /\ t.listRow = s.listRow /\ t.shown = s.shown /\ t.input = s.input
    /\ t.page = s.page /\ t.broken = s.broken

LEMMA AssignEffect ==
    ASSUME NEW s, Base(s), s.active # None, NEW change \in Changes
    PROVE  LET t == Assign(s, change[1], change[2])
           IN  /\ Edited(s, t)
               /\ s.failed => t.failed /\ t.preset = s.preset
               /\ t.failed => t.preset = s.preset
               /\ ~t.failed => ~s.failed
               /\ change[1] # "inputs" /\ ~s.failed =>
                    ~t.failed /\ Mapping(t).inputs = Mapping(s).inputs
               /\ change[1] = "inputs" /\ ~t.failed => Mapping(t).inputs = change[2]
               /\ TypeCode(s, t, change)
<1> DEFINE t == Assign(s, change[1], change[2])
           refused == s.failed \/ (change[1] = "inputs" /\ Clashes(s, change[2]))
           n == Typed([Mapping(s) EXCEPT ![change[1]] = change[2]])
<1>1. s \in State /\ s.active \in Ids /\ Mapping(s) \in UIMapping /\ s.page # {}
  BY MappingIs DEF Base
<1>2. /\ n \in UIMapping /\ n = Typed(n)
      /\ n.inputs = IF change[1] = "inputs" THEN change[2] ELSE Mapping(s).inputs
      /\ n.type = IF change[1] = "type" THEN change[2] ELSE Mapping(s).type
      /\ n.code = IF change[1] = "code" THEN change[2] ELSE Mapping(s).code
  BY <1>1, FieldSet, TypedKeeps
<1>3. n # None /\ n.inputs \in Combos
  BY <1>2, MappingTypes
<1>4. CASE refused
  <2>1. t = [s EXCEPT !.failed = TRUE]
    BY <1>4 DEF Assign, Fails
  <2> HIDE DEF t
  <2>2. /\ t \in State /\ t.failed = TRUE
        /\ t.preset = s.preset /\ t.active = s.active /\ t.selected = s.selected
        /\ t.rows = s.rows /\ t.row = s.row /\ t.list = s.list /\ t.listRow = s.listRow
        /\ t.shown = s.shown /\ t.input = s.input /\ t.page = s.page /\ t.broken = s.broken
    BY <1>1, <2>1 DEF State
  <2>3. t.failed
    BY <2>2, Zenon
  <2>4. Base(t)
    BY <1>1, <2>2, BaseOfSame DEF Base
  <2>5. change[1] # "inputs" => s.failed
    BY <1>4
  <2>6. TypeCode(s, t, change)
    BY <2>2, <2>3 DEF TypeCode, Mapping
  <2> QED BY <2>2, <2>3, <2>4, <2>5, <2>6 DEF Edited, t
<1>5. CASE ~refused
  <2> DEFINE preset0 == [s.preset EXCEPT ![s.active] = n]
  <2>1. t = [s EXCEPT !.preset = preset0]
    BY <1>1, <1>5 DEF Assign, Mapping, State
  <2>2. /\ preset0 \in [Ids -> UIMapping \cup {None}] /\ preset0[s.active] = n
        /\ \A i \in Ids \ {s.active} : preset0[i] = s.preset[i]
    BY <1>1, <1>2 DEF State
  <2> HIDE DEF t, n, preset0
  <2>3. /\ t \in State /\ t.failed = s.failed
        /\ t.preset = preset0 /\ t.active = s.active /\ t.selected = s.selected
        /\ t.rows = s.rows /\ t.row = s.row /\ t.list = s.list /\ t.listRow = s.listRow
        /\ t.shown = s.shown /\ t.input = s.input /\ t.page = s.page /\ t.broken = s.broken
    BY <1>1, <2>1, <2>2 DEF State
  <2>4. AreTyped(t)
    BY <1>2, <2>2, <2>3 DEF AreTyped, Base
  <2>5. \A i \in Ids \ {s.active} : s.preset[i] # None =>
            ~PermutationOf(n.inputs, s.preset[i].inputs) /\ s.preset[i].inputs \in Combos
    <3> SUFFICES ASSUME NEW i \in Ids \ {s.active}, s.preset[i] # None
                 PROVE  ~PermutationOf(n.inputs, s.preset[i].inputs) /\ s.preset[i].inputs \in Combos
      OBVIOUS
    <3>1. s.preset[i].inputs \in Combos
      BY <1>1, MappingTypes DEF State
    <3>2. CASE change[1] = "inputs"
      BY <1>2, <1>5, <3>1, <3>2 DEF Clashes
    <3>3. CASE change[1] # "inputs"
      BY <1>1, <1>2, <3>1, <3>3 DEF Base, AreDistinct, Mapping
    <3> QED BY <3>2, <3>3
  <2>6. AreDistinct(t)
    <3> SUFFICES ASSUME NEW i \in Ids, NEW j \in Ids, i # j,
                        t.preset[i] # None, t.preset[j] # None
                 PROVE  ~PermutationOf(t.preset[i].inputs, t.preset[j].inputs)
      BY DEF AreDistinct
    <3>1. CASE i = s.active
      BY <2>2, <2>3, <2>5, <3>1
    <3>2. CASE j = s.active
      BY <1>3, <2>2, <2>3, <2>5, <3>2, PermutationFacts
    <3>3. CASE i # s.active /\ j # s.active
      BY <2>2, <2>3, <3>3 DEF Base, AreDistinct
    <3> QED BY <3>1, <3>2, <3>3
  <2>7. Base(t)
    BY <1>1, <1>3, <2>2, <2>3, <2>4, <2>6 DEF Base
  <2>8. Mapping(t) = n
    BY <2>2, <2>3 DEF Mapping
  <2>9. TypeCode(s, t, change)
    BY <1>2, <1>5, <2>3, <2>8 DEF TypeCode
  <2> QED BY <1>2, <1>5, <2>2, <2>3, <2>7, <2>8, <2>9 DEF Edited, t
<1> QED BY <1>4, <1>5

\* The changes a handler makes: three fields at most, and the inputs once.
AreChanges(changes) ==
    /\ changes \in Seq(Changes) /\ Len(changes) \in 1..3
    /\ \A i, j \in DOMAIN changes :
            changes[i][1] = "inputs" /\ changes[j][1] = "inputs" => i = j

IsInputs(changes, n) == n \in DOMAIN changes /\ changes[n][1] = "inputs"

\* They set the type and the code together, or neither of them.
ArePairs(changes) ==
    \/ \A n \in DOMAIN changes : changes[n][1] \notin {"type", "code"}
    \/ \E n \in 1..2 :
        /\ n + 1 \in DOMAIN changes
        /\ changes[n][1] = "type" /\ changes[n + 1][1] = "code"
        /\ changes[n][2] = None <=> changes[n + 1][2] = None
        /\ \A k \in DOMAIN changes \ {n, n + 1} : changes[k][1] = "kind"

LEMMA AssignNthEffect ==
    ASSUME NEW s, Base(s), s.active # None, NEW changes, AreChanges(changes), NEW n \in 1..3
    PROVE  LET t == AssignNth(s, changes, n)
           IN  /\ Edited(s, t)
               /\ s.failed => t.failed
               /\ t.failed => Mapping(t).inputs = Mapping(s).inputs
               /\ ~IsInputs(changes, n) =>
                    Mapping(t).inputs = Mapping(s).inputs /\ (t.failed => s.failed)
               /\ IsInputs(changes, n) /\ ~t.failed => Mapping(t).inputs = changes[n][2]
               /\ n \in DOMAIN changes => TypeCode(s, t, changes[n])
               /\ n \notin DOMAIN changes => t = s
<1> DEFINE t == AssignNth(s, changes, n)
<1>1. CASE n \in DOMAIN changes
  <2>1. changes[n] \in Changes
    BY <1>1 DEF AreChanges
  <2> DEFINE u == Assign(s, changes[n][1], changes[n][2])
  <2>2. t = u
    BY <1>1 DEF AssignNth
  <2>3. /\ Edited(s, u)
        /\ s.failed => u.failed /\ u.preset = s.preset
        /\ u.failed => u.preset = s.preset
        /\ ~u.failed => ~s.failed
        /\ changes[n][1] # "inputs" /\ ~s.failed =>
             ~u.failed /\ Mapping(u).inputs = Mapping(s).inputs
        /\ changes[n][1] = "inputs" /\ ~u.failed => Mapping(u).inputs = changes[n][2]
        /\ TypeCode(s, u, changes[n])
    BY <2>1, AssignEffect
  <2> HIDE DEF u
  <2>4. u.preset = s.preset => Mapping(u).inputs = Mapping(s).inputs
    BY <2>3 DEF Edited, Mapping
  <2> HIDE DEF t
  <2>5. /\ Edited(s, t)
        /\ s.failed => t.failed
        /\ t.failed => Mapping(t).inputs = Mapping(s).inputs
        /\ ~IsInputs(changes, n) =>
             Mapping(t).inputs = Mapping(s).inputs /\ (t.failed => s.failed)
        /\ IsInputs(changes, n) /\ ~t.failed => Mapping(t).inputs = changes[n][2]
        /\ TypeCode(s, t, changes[n])
    BY <1>1, <2>2, <2>3, <2>4 DEF IsInputs
  <2> QED BY <1>1, <2>5 DEF t
<1>2. CASE n \notin DOMAIN changes
  BY <1>2 DEF AssignNth, IsInputs, Edited
<1> QED BY <1>1, <1>2

LEMMA EditedTwice ==
    ASSUME NEW s, NEW t, NEW u, Edited(s, t), Edited(t, u)
    PROVE  Edited(s, u)
<1> QED BY DEF Edited

\* If one of the changes is refused, the inputs are still the old ones.
LEMMA AssignAllEffect ==
    ASSUME NEW s, Base(s), s.active # None, ~s.failed, NEW changes, AreChanges(changes)
    PROVE  LET t == AssignAll(s, changes)
           IN  /\ Edited(s, t)
               /\ t.failed => Mapping(t).inputs = Mapping(s).inputs
               /\ t.failed => \E n \in DOMAIN changes : changes[n][1] = "inputs"
               /\ \A n \in DOMAIN changes : changes[n][1] = "inputs" /\ ~t.failed =>
                    Mapping(t).inputs = changes[n][2]
               /\ (\A n \in DOMAIN changes : changes[n][1] # "inputs") =>
                    Mapping(t).inputs = Mapping(s).inputs
               /\ Pair(Mapping(s)) /\ ArePairs(changes) => Pair(Mapping(t))
<1> DEFINE t1 == AssignNth(s, changes, 1)
           t2 == AssignNth(t1, changes, 2)
           t3 == AssignNth(t2, changes, 3)
<1>0. AssignAll(s, changes) = t3
  BY DEF AssignAll
<1>1. /\ Edited(s, t1)
      /\ s.failed => t1.failed
      /\ t1.failed => Mapping(t1).inputs = Mapping(s).inputs
      /\ ~IsInputs(changes, 1) =>
           Mapping(t1).inputs = Mapping(s).inputs /\ (t1.failed => s.failed)
      /\ IsInputs(changes, 1) /\ ~t1.failed => Mapping(t1).inputs = changes[1][2]
      /\ 1 \in DOMAIN changes => TypeCode(s, t1, changes[1])
      /\ 1 \notin DOMAIN changes => t1 = s
  BY AssignNthEffect
<1> HIDE DEF t1
<1>2. /\ Edited(t1, t2)
      /\ t1.failed => t2.failed
      /\ t2.failed => Mapping(t2).inputs = Mapping(t1).inputs
      /\ ~IsInputs(changes, 2) =>
           Mapping(t2).inputs = Mapping(t1).inputs /\ (t2.failed => t1.failed)
      /\ IsInputs(changes, 2) /\ ~t2.failed => Mapping(t2).inputs = changes[2][2]
      /\ 2 \in DOMAIN changes => TypeCode(t1, t2, changes[2])
      /\ 2 \notin DOMAIN changes => t2 = t1
  <2>1. Base(t1) /\ t1.active # None
    BY <1>1 DEF Edited
  <2> QED BY <2>1, AssignNthEffect
<1> HIDE DEF t2
<1>3. /\ Edited(t2, t3)
      /\ t2.failed => t3.failed
      /\ t3.failed => Mapping(t3).inputs = Mapping(t2).inputs
      /\ ~IsInputs(changes, 3) =>
           Mapping(t3).inputs = Mapping(t2).inputs /\ (t3.failed => t2.failed)
      /\ IsInputs(changes, 3) /\ ~t3.failed => Mapping(t3).inputs = changes[3][2]
      /\ 3 \in DOMAIN changes => TypeCode(t2, t3, changes[3])
      /\ 3 \notin DOMAIN changes => t3 = t2
  <2>1. Base(t2) /\ t2.active # None
    BY <1>1, <1>2 DEF Edited
  <2> QED BY <2>1, AssignNthEffect
<1> HIDE DEF t3
<1>4. Edited(s, t3)
  BY <1>1, <1>2, <1>3, EditedTwice
<1>5. /\ ~(IsInputs(changes, 1) /\ IsInputs(changes, 2))
      /\ ~(IsInputs(changes, 1) /\ IsInputs(changes, 3))
      /\ ~(IsInputs(changes, 2) /\ IsInputs(changes, 3))
  BY DEF AreChanges, IsInputs
<1>6. DOMAIN changes \subseteq 1..3
  BY DEF AreChanges
<1>7. t3.failed => Mapping(t3).inputs = Mapping(s).inputs
  BY <1>1, <1>2, <1>3, <1>5
<1>8. t3.failed => IsInputs(changes, 1) \/ IsInputs(changes, 2) \/ IsInputs(changes, 3)
  BY <1>1, <1>2, <1>3
<1>9. \A n \in 1..3 : IsInputs(changes, n) /\ ~t3.failed => Mapping(t3).inputs = changes[n][2]
  <2>1. IsInputs(changes, 1) /\ ~t3.failed => Mapping(t3).inputs = changes[1][2]
    BY <1>1, <1>2, <1>3, <1>5
  <2>2. IsInputs(changes, 2) /\ ~t3.failed => Mapping(t3).inputs = changes[2][2]
    BY <1>2, <1>3, <1>5
  <2> QED BY <1>3, <2>1, <2>2
<1>10. (\A n \in 1..3 : ~IsInputs(changes, n)) => Mapping(t3).inputs = Mapping(s).inputs
  BY <1>1, <1>2, <1>3
<1>11. ASSUME Pair(Mapping(s)), ArePairs(changes)
       PROVE  Pair(Mapping(t3))
  <2>1. CASE \A n \in DOMAIN changes : changes[n][1] \notin {"type", "code"}
    BY <1>1, <1>2, <1>3, <1>11, <2>1 DEF TypeCode, Pair
  <2>2. ASSUME NEW n \in 1..2, n + 1 \in DOMAIN changes,
               changes[n][1] = "type", changes[n + 1][1] = "code",
               changes[n][2] = None <=> changes[n + 1][2] = None,
               \A k \in DOMAIN changes \ {n, n + 1} : changes[k][1] = "kind"
        PROVE  Pair(Mapping(t3))
    <3>1. DOMAIN changes = 1..Len(changes) /\ Len(changes) \in 1..3
      BY DEF AreChanges
    <3>2. \A k \in DOMAIN changes : changes[k][1] # "inputs"
      BY <2>2
    <3>3. ~t3.failed /\ ~t2.failed /\ ~t1.failed
      BY <1>1, <1>2, <1>3, <3>2 DEF IsInputs
    <3>4. CASE n = 1
      <4>1. 1 \in DOMAIN changes /\ 2 \in DOMAIN changes
        BY <2>2, <3>1, <3>4
      <4>2. /\ Mapping(t2).type = changes[1][2] /\ Mapping(t2).code = changes[2][2]
        BY <1>1, <1>2, <2>2, <3>3, <3>4, <4>1 DEF TypeCode
      <4>3. 3 \in DOMAIN changes => changes[3][1] = "kind"
        BY <2>2, <3>4
      <4>4. Mapping(t3).type = Mapping(t2).type /\ Mapping(t3).code = Mapping(t2).code
        BY <1>3, <4>3 DEF TypeCode
      <4> QED BY <2>2, <3>4, <4>2, <4>4 DEF Pair
    <3>5. CASE n = 2
      <4>1. 2 \in DOMAIN changes /\ 3 \in DOMAIN changes
        BY <2>2, <3>1, <3>5
      <4>2. Mapping(t3).type = changes[2][2] /\ Mapping(t3).code = changes[3][2]
        BY <1>2, <1>3, <2>2, <3>3, <3>5, <4>1 DEF TypeCode
      <4> QED BY <2>2, <3>5, <4>2 DEF Pair
    <3> QED BY <3>4, <3>5
  <2> QED BY <1>11, <2>1, <2>2 DEF ArePairs
<1> QED BY <1>0, <1>4, <1>6, <1>7, <1>8, <1>9, <1>10, <1>11 DEF IsInputs

LEMMA CombinationsEdited ==
    ASSUME NEW s, NEW t, Base(s), Edited(s, t), s.active # None
    PROVE  /\ Combinations(t) = (Combinations(s) \ {Mapping(s).inputs}) \cup {Mapping(t).inputs}
           /\ Mapping(t).inputs = Mapping(s).inputs => Combinations(t) = Combinations(s)
<1>1. /\ s.active \in Ids /\ t.active = s.active /\ Base(t)
      /\ s.preset[s.active] # None /\ t.preset[s.active] # None
      /\ \A i \in Ids \ {s.active} : t.preset[i] = s.preset[i]
  BY MappingIs DEF Base, Edited
<1>2. \A i \in Ids \ {s.active} : s.preset[i] # None => s.preset[i].inputs # Mapping(s).inputs
  BY <1>1, MappingIs, MappingTypes, PermutationFacts DEF Base, AreDistinct, Mapping
<1>3. Combinations(t) = {s.preset[i].inputs : i \in {j \in Ids \ {s.active} : s.preset[j] # None}}
                        \cup {Mapping(t).inputs}
  BY <1>1 DEF Combinations, Mapping
<1>4. Combinations(s) = {s.preset[i].inputs : i \in {j \in Ids \ {s.active} : s.preset[j] # None}}
                        \cup {Mapping(s).inputs}
  BY <1>1 DEF Combinations, Mapping
<1> QED BY <1>2, <1>3, <1>4

-----------------------------------------------------------------------------
(* The mapping is updated.                                                 *)

\* What is known of the lists when the mapping was edited, and no message was sent.
Told(s) ==
    /\ Base(s) /\ ~s.failed /\ s.active # None /\ s.rows = Combinations(s)
    /\ s.selected # None =>
          /\ SelectedIsShown(s)
          /\ Mapping(s).inputs # EmptyCombination => s.list = Mapping(s).inputs

LEMMA TellEffect ==
    ASSUME NEW s, NEW t, Consistent(s), ~t.failed, s.active # None, Edited(s, t)
    PROVE  LET u == Tell(t, Mapping(s).inputs, Mapping(t).inputs)
           IN  Told(u) /\ u.preset = t.preset /\ u.active = s.active
               /\ (Mapping(t).inputs = Mapping(s).inputs => u.selected = s.selected)
<1> DEFINE old == Mapping(s).inputs
           new == Mapping(t).inputs
           u == Tell(t, old, new)
           rows0 == (t.rows \ {old}) \cup {new}
<1>1. /\ Base(s) /\ Base(t) /\ t.active = s.active /\ t.active # None /\ t \in State
      /\ s.rows = Combinations(s) /\ t.rows = s.rows /\ s.row = old /\ t.row = s.row
  BY DEF Consistent, Listed, RowLeads, Edited, Base
<1>2. /\ Combinations(t) = rows0
      /\ new = old => Combinations(t) = t.rows
  BY <1>1, CombinationsEdited
<1>3. Mapping(t) \in UIMapping /\ new \in Combos
  BY <1>1, MappingIs, MappingTypes
<1>4. CASE old = new
  <2>1. u = t
    BY <1>4 DEF Tell
  <2>2. s.selected # None => SelectedIsShown(t)
    BY <1>4 DEF Consistent, SelectedIsShown, Edited
  <2>3. Mapping(t).inputs # EmptyCombination => t.list = Mapping(t).inputs
    BY <1>1, <1>4 DEF Consistent, Listed, ListsInputs, Edited
  <2> QED BY <1>1, <1>2, <1>4, <2>1, <2>2, <2>3 DEF Told, Edited
<1>5. CASE old # new
  <2> DEFINE v == [t EXCEPT !.selected = None]
  <2>1. u = RowFollows(v, old, new)
    BY <1>5 DEF Tell
  <2>2. v \in State /\ v.row = old /\ v.rows = t.rows
    BY <1>1 DEF State
  <2>3. u = [v EXCEPT !.rows = rows0, !.row = new]
    BY <2>1, <2>2 DEF RowFollows
  <2>4. rows0 \in SUBSET Combos
    BY <1>1, <1>3 DEF State
  <2> HIDE DEF u, new, old, rows0
  <2>5. /\ u \in State /\ u.rows = rows0 /\ u.selected = None /\ u.preset = t.preset
        /\ u.active = t.active /\ u.page = t.page /\ u.failed = t.failed
    BY <1>1, <1>3, <2>3, <2>4 DEF State
  <2>6. Base(u) /\ Combinations(u) = Combinations(t)
    BY <1>1, <2>5, BaseOfSame DEF Base
  <2>7. Told(u)
    BY <1>1, <1>2, <2>5, <2>6 DEF Told
  <2> QED BY <1>1, <1>5, <2>5, <2>7 DEF u, new, old
<1> QED BY <1>4, <1>5

\* DataManager.update_mapping: if it fails then with the inputs as they were, and the
\* widgets show what it made of the mapping otherwise.
LEMMA UpdateSound ==
    ASSUME NEW s, Consistent(s), s.active # None, ~s.failed, NEW changes, AreChanges(changes)
    PROVE  LET t == Update(s, changes)
           IN  /\ Sound(t) /\ t.active = s.active
               /\ t.failed => \E n \in DOMAIN changes : changes[n][1] = "inputs"
               /\ \A n \in DOMAIN changes : changes[n][1] = "inputs" /\ ~t.failed =>
                    Mapping(t).inputs = changes[n][2]
               /\ (\A n \in DOMAIN changes : changes[n][1] # "inputs") =>
                    Mapping(t).inputs = Mapping(s).inputs /\ t.selected = s.selected
               /\ \A i \in Ids \ {s.active} : t.preset[i] = s.preset[i]
               /\ Pair(Mapping(s)) /\ ArePairs(changes) => Pair(Mapping(t))
<1> DEFINE set == AssignAll(s, changes)
           told == Tell(set, Mapping(s).inputs, Mapping(set).inputs)
           again == IF changes[1][1] = "kind" THEN AssignNth(told, changes, 1) ELSE told
           t == Update(s, changes)
<1>1. Base(s) /\ 1 \in DOMAIN changes
  BY DEF Consistent, AreChanges
<1>2. /\ Edited(s, set)
      /\ set.failed => Mapping(set).inputs = Mapping(s).inputs
      /\ set.failed => \E n \in DOMAIN changes : changes[n][1] = "inputs"
      /\ \A n \in DOMAIN changes : changes[n][1] = "inputs" /\ ~set.failed =>
           Mapping(set).inputs = changes[n][2]
      /\ (\A n \in DOMAIN changes : changes[n][1] # "inputs") =>
           Mapping(set).inputs = Mapping(s).inputs
      /\ \A i \in Ids \ {s.active} : set.preset[i] = s.preset[i]
      /\ Pair(Mapping(s)) /\ ArePairs(changes) => Pair(Mapping(set))
  BY <1>1, AssignAllEffect DEF Edited
<1>3. t = IF set.failed THEN set ELSE PublishMapping(again)
  BY DEF Update
<1> HIDE DEF set, t
<1>4. CASE set.failed
  <2>1. Combinations(set) = Combinations(s)
    BY <1>1, <1>2, <1>4, CombinationsEdited
  <2>2. Listed(set) /\ SelectedIsShown(set)
    BY <1>2, <1>4, <2>1 DEF Consistent, Listed, RowLeads, ShowsInputs, ListsInputs,
                            SelectedIsShown, Edited
  <2>3. Sound(set)
    BY <1>2, <1>4, <2>2 DEF Sound, Consistent, ShowsMapping, Edited
  <2> QED BY <1>2, <1>3, <1>4, <2>3 DEF Edited, t
<1>5. CASE ~set.failed
  <2>1. /\ Told(told) /\ told.preset = set.preset /\ told.active = s.active
        /\ Mapping(set).inputs = Mapping(s).inputs => told.selected = s.selected
    BY <1>2, <1>5, TellEffect
  <2> HIDE DEF told
  <2>2. Mapping(told) = Mapping(set)
    BY <1>2, <2>1 DEF Mapping, Edited
  <2>3. /\ Told(again) /\ Mapping(again).inputs = Mapping(told).inputs
        /\ \A i \in Ids \ {s.active} : again.preset[i] = told.preset[i]
        /\ Pair(Mapping(told)) => Pair(Mapping(again))
        /\ again.active = told.active /\ again.selected = told.selected
    <3>1. CASE changes[1][1] = "kind"
      <4> DEFINE u == AssignNth(told, changes, 1)
      <4>1. again = u
        BY <3>1
      <4>2. Base(told) /\ told.active # None /\ ~told.failed
        BY <2>1 DEF Told
      <4>3. ~IsInputs(changes, 1)
        BY <3>1 DEF IsInputs
      <4>4. /\ Edited(told, u) /\ Mapping(u).inputs = Mapping(told).inputs /\ ~u.failed
            /\ TypeCode(told, u, changes[1])
        BY <1>1, <4>2, <4>3, AssignNthEffect
      <4> HIDE DEF u, again
      <4>5. Combinations(u) = Combinations(told)
        BY <4>2, <4>4, CombinationsEdited
      <4>6. Told(u)
        BY <2>1, <4>4, <4>5 DEF Told, SelectedIsShown, Edited
      <4>7. Pair(Mapping(told)) => Pair(Mapping(u))
        BY <3>1, <4>4 DEF TypeCode, Pair
      <4> QED BY <2>1, <4>1, <4>4, <4>6, <4>7 DEF Edited
    <3>2. CASE changes[1][1] # "kind"
      BY <2>1, <3>2
    <3> QED BY <3>1, <3>2
  <2> HIDE DEF again
  <2> DEFINE p == PublishMapping(again)
  <2>4. Sound(p) /\ ~p.failed /\ SamePreset(again, p) /\ p.selected = again.selected
    BY <2>3, PublishMappingSound DEF Told
  <2>5. t = p
    BY <1>3, <1>5
  <2> HIDE DEF p
  <2>6. /\ Mapping(p).inputs = Mapping(set).inputs /\ p.active = s.active
        /\ \A i \in Ids \ {s.active} : p.preset[i] = set.preset[i]
        /\ Pair(Mapping(set)) => Pair(Mapping(p))
    BY <2>1, <2>2, <2>3, <2>4 DEF SamePreset, Mapping
  <2>7. (\A n \in DOMAIN changes : changes[n][1] # "inputs") => p.selected = s.selected
    BY <1>2, <2>1, <2>3, <2>4
  <2> QED BY <1>2, <1>5, <2>4, <2>5, <2>6, <2>7 DEF t
<1> QED BY <1>4, <1>5

-----------------------------------------------------------------------------
(* What the handlers are composed of.                                      *)

Paired(s) == \A i \in Ids : s.preset[i] # None => Pair(s.preset[i])

\* What a handler has to make of a state.
Keeps(s, t) == Sound(t) /\ (Paired(s) => Paired(t))

LEMMA KeepsOfSame ==
    ASSUME NEW s, NEW t, Sound(t), t.preset = s.preset
    PROVE  Keeps(s, t)
<1> QED BY DEF Keeps, Paired

LEMMA KeepsTwice ==
    ASSUME NEW s, NEW t, NEW u, Keeps(s, t), Keeps(t, u)
    PROVE  Keeps(s, u)
<1> QED BY DEF Keeps

\* After an exception the mapping need not be shown.
LEMMA FailsKeeps ==
    ASSUME NEW s, Consistent(s)
    PROVE  Keeps(s, Fails(s)) /\ Fails(s).failed
<1> DEFINE t == Fails(s)
<1>1. s \in State /\ t = [s EXCEPT !.failed = TRUE]
  BY DEF Consistent, Base, Fails
<1> HIDE DEF t
<1>2. /\ t \in State /\ t.failed = TRUE
      /\ t.preset = s.preset /\ t.active = s.active /\ t.selected = s.selected
      /\ t.rows = s.rows /\ t.row = s.row /\ t.list = s.list /\ t.listRow = s.listRow
      /\ t.shown = s.shown /\ t.input = s.input /\ t.page = s.page /\ t.broken = s.broken
  BY <1>1 DEF State
<1>3. t.failed
  BY <1>2, Zenon
<1>4. Base(t) /\ Combinations(t) = Combinations(s)
  <2>1. Base(s) /\ s.page # {} /\ (s.active # None => s.preset[s.active] # None)
    BY DEF Consistent, Base
  <2> QED BY <1>2, <2>1, BaseOfSame
<1>5. Mapping(t) = Mapping(s)
  BY <1>2 DEF Mapping
<1>6. Listed(t) /\ SelectedIsShown(t)
  BY <1>2, <1>4, <1>5 DEF Consistent, Listed, RowLeads, ShowsInputs, ListsInputs, SelectedIsShown
<1>7. Sound(t)
  BY <1>3, <1>4, <1>6 DEF Sound, Consistent, ShowsMapping
<1> QED BY <1>2, <1>3, <1>7, KeepsOfSame DEF t

LEMMA ConsistentIsTold ==
    ASSUME NEW s, Consistent(s), ~s.failed, s.active # None
    PROVE  Told(s)
<1> QED BY DEF Consistent, Listed, ListsInputs, Told

\* The widgets are told again what is loaded.
LEMMA PublishKeeps ==
    ASSUME NEW s, Consistent(s), ~s.failed, s.active # None
    PROVE  Keeps(s, PublishMapping(s)) /\ Keeps(s, Synchronize(s))
<1> DEFINE p == PublishMapping(s)
           t == PublishEvent(p)
<1>1. Sound(p) /\ ~p.failed /\ SamePreset(s, p) /\ p.selected = s.selected
  BY ConsistentIsTold, PublishMappingSound DEF Told
<1>2. Synchronize(s) = t
  BY DEF Synchronize
<1>3. p.preset = s.preset /\ p.active = s.active
  BY <1>1 DEF SamePreset
<1> HIDE DEF p
<1>4. Keeps(s, p)
  BY <1>1, <1>3, KeepsOfSame
<1>5. CASE p.selected = None
  <2>1. t = p
    BY <1>1, <1>5 DEF PublishEvent
  <2> QED BY <1>2, <1>4, <2>1 DEF p
<1>6. CASE p.selected # None
  <2>1. p.selected \in ToSet(Mapping(p).inputs)
    BY <1>1, <1>3, <1>6 DEF Sound, Consistent, SelectedIsShown
  <2>2. Sound(t) /\ SamePreset(p, t)
    BY <1>1, <1>3, <1>6, <2>1, PublishEventSound DEF Sound, Consistent
  <2>3. Keeps(s, t)
    BY <1>3, <2>2, KeepsOfSame DEF SamePreset
  <2> QED BY <1>2, <1>4, <2>3 DEF p
<1> QED BY <1>5, <1>6

\* Selecting an input that the mapping does not have raises an exception.
LEMMA LoadInputKeeps ==
    ASSUME NEW s, Sound(s), ~s.failed, s.active # None, NEW config
    PROVE  Keeps(s, LoadInputConfig(s, config))
<1>1. CASE config \in ToSet(Mapping(s).inputs)
  <2>1. LET t == LoadInputConfig(s, config) IN Sound(t) /\ SamePreset(s, t)
    BY <1>1, LoadInputSound DEF Sound, Consistent
  <2> QED BY <2>1, KeepsOfSame DEF SamePreset
<1>2. CASE config \notin ToSet(Mapping(s).inputs)
  <2>1. LoadInputConfig(s, config) = Fails(s)
    BY <1>2 DEF LoadInputConfig
  <2> QED BY <2>1, FailsKeeps DEF Sound
<1> QED BY <1>1, <1>2

LEMMA UpdateKeeps ==
    ASSUME NEW s, Consistent(s), s.active # None, ~s.failed,
           NEW changes, AreChanges(changes), ArePairs(changes)
    PROVE  Keeps(s, Update(s, changes)) /\ Update(s, changes).active = s.active
<1> DEFINE t == Update(s, changes)
<1>1. /\ Sound(t) /\ t.active = s.active
      /\ \A i \in Ids \ {s.active} : t.preset[i] = s.preset[i]
      /\ Pair(Mapping(s)) => Pair(Mapping(t))
  BY UpdateSound
<1> HIDE DEF t
<1>2. s.active \in Ids /\ s.preset[s.active] # None
  BY MappingIs DEF Consistent, Base
<1>3. Paired(s) => Paired(t)
  BY <1>1, <1>2 DEF Paired, Mapping
<1> QED BY <1>1, <1>3 DEF Keeps, t

\* The inputs are changed.
LEMMA NewInputs ==
    ASSUME NEW s, Consistent(s), s.active # None, ~s.failed, NEW c \in Combos
    PROVE  LET t == Update(s, <<<<"inputs", c>>>>)
           IN  /\ Keeps(s, t) /\ t.active = s.active
               /\ ~t.failed => Mapping(t).inputs = c
<1> DEFINE changes == <<<<"inputs", c>>>>
<1>1. /\ changes \in Seq(Changes) /\ Len(changes) = 1 /\ DOMAIN changes = {1}
      /\ changes[1] = <<"inputs", c>>
  BY DEF Changes
<1> HIDE DEF changes
<1>2. AreChanges(changes) /\ ArePairs(changes)
  BY <1>1 DEF AreChanges, ArePairs
<1>3. Keeps(s, Update(s, changes)) /\ Update(s, changes).active = s.active
  BY <1>2, UpdateKeeps
<1>4. ~Update(s, changes).failed => Mapping(Update(s, changes)).inputs = c
  BY <1>1, <1>2, UpdateSound
<1> QED BY <1>3, <1>4 DEF changes

-----------------------------------------------------------------------------
(* Inputs.                                                                 *)

LEMMA LeastExists ==
    ASSUME NEW n \in Nat, NEW S \in SUBSET (1..n), S # {}
    PROVE  \E i \in S : \A j \in S : i <= j
<1>1. S \subseteq Nat
  OBVIOUS
<1>2. PICK i \in S : \A j \in S : ~(<<j, i>> \in OpToRel(<, Nat))
  BY <1>1, WFMin, NatLessThanWellFounded
<1>3. \A j \in S : ~(j < i)
  BY <1>1, <1>2 DEF OpToRel
<1> QED BY <1>1, <1>3

LEMMA FirstAt ==
    ASSUME NEW c \in Combos, NEW x \in ToSet(c)
    PROVE  LET at == CHOOSE i \in DOMAIN c : c[i] = x /\ \A j \in 1..(i - 1) : c[j] # x
           IN  at \in DOMAIN c /\ c[at] = x
<1> DEFINE S == {i \in DOMAIN c : c[i] = x}
<1>1. DOMAIN c = 1..Len(c) /\ Len(c) \in Nat
  BY DEF Combos
<1>2. S \in SUBSET (1..Len(c)) /\ S # {}
  BY <1>1 DEF ToSet
<1>3. PICK i \in S : \A j \in S : i <= j
  BY <1>1, <1>2, LeastExists
<1>4. i \in DOMAIN c /\ c[i] = x /\ \A j \in 1..(i - 1) : c[j] # x
  BY <1>1, <1>3
<1> QED BY <1>4

\* One input of a combination is replaced.
LEMMA ReplaceInput ==
    ASSUME NEW c \in Combos, NEW at \in DOMAIN c, NEW new \in InputConfig
    PROVE  [c EXCEPT ![at] = new] \in Combos /\ new \in ToSet([c EXCEPT ![at] = new])
<1>1. c \in Seq(InputConfig) /\ c # <<>> /\ Len(c) \in Nat /\ DOMAIN c = 1..Len(c)
  BY DEF Combos
<1> DEFINE d == [c EXCEPT ![at] = new]
<1>2. d \in Seq(InputConfig) /\ DOMAIN d = DOMAIN c /\ d[at] = new
  BY <1>1
<1>3. d # <<>>
  <2>1. at \in DOMAIN d
    BY <1>2
  <2> QED BY <2>1
<1>4. new \in ToSet(d)
  BY <1>2 DEF ToSet
<1> QED BY <1>2, <1>3, <1>4 DEF Combos

LEMMA ModifyType ==
    ASSUME NEW config \in InputConfig, NEW threshold \in Int,
           config.type = "empty" => threshold # 0
    PROVE  Modify(config, threshold) \in InputConfig
<1>1. CASE config.type = "key"
  BY <1>1 DEF Modify, InputConfig
<1>2. CASE config.type # "key"
  BY <1>2 DEF Modify, InputConfig
<1> QED BY <1>1, <1>2

LEMMA AutoUseType ==
    ASSUME NEW m, NEW c \in Combos
    PROVE  AutoUseAsAnalog(m, c) \in Combos
<1> DEFINE axes == {i \in DOMAIN c : IsAxis(c[i].type)}
           first == CHOOSE i \in axes : \A j \in axes : i <= j
<1>1. DOMAIN c = 1..Len(c) /\ Len(c) \in Nat /\ c \in Seq(InputConfig)
  BY DEF Combos
<1>2. CASE m.kind # "analog" \/ AnalogInputs(c) # {} \/ axes = {}
  BY <1>2 DEF AutoUseAsAnalog
<1>3. CASE ~(m.kind # "analog" \/ AnalogInputs(c) # {} \/ axes = {})
  <2>1. axes \in SUBSET (1..Len(c)) /\ axes # {}
    BY <1>1, <1>3
  <2>2. \E i \in axes : \A j \in axes : i <= j
    BY <1>1, <2>1, LeastExists
  <2>3. first \in axes
    BY <2>2
  <2>4. first \in DOMAIN c /\ IsAxis(c[first].type) /\ c[first] \in InputConfig
    BY <1>1, <2>3
  <2>5. AutoUseAsAnalog(m, c) = [c EXCEPT ![first] = Modify(c[first], 0)]
    BY <1>3 DEF AutoUseAsAnalog
  <2> HIDE DEF first
  <2>6. Modify(c[first], 0) \in InputConfig
    BY <2>4, ModifyType DEF IsAxis
  <2> QED BY <2>4, <2>5, <2>6, ReplaceInput
<1> QED BY <1>2, <1>3

\* Controller.update_combination: a combination that is taken changes nothing.
LEMMA CombinationKeeps ==
    ASSUME NEW s, Sound(s), s.active # None, ~s.failed, NEW c \in Combos
    PROVE  LET t == UpdateCombination(s, c) IN Keeps(s, t) /\ ~t.failed /\ t.active = s.active
<1> DEFINE d == AutoUseAsAnalog(Mapping(s), c)
<1>1. d \in Combos
  BY AutoUseType
<1> HIDE DEF d
<1> DEFINE u == Update(s, <<<<"inputs", d>>>>)
<1>2. UpdateCombination(s, c) = IF u.failed THEN s ELSE u
  BY DEF UpdateCombination, d
<1>3. Keeps(s, u) /\ u.active = s.active
  BY <1>1, NewInputs DEF Sound
<1> QED BY <1>2, <1>3, KeepsOfSame

\* DataManager.update_input_config: the input stays selected.
LEMMA InputConfigKeeps ==
    ASSUME NEW s, Sound(s), s.active # None, ~s.failed, s.selected # None, NEW new \in InputConfig
    PROVE  LET t == UpdateInputConfig(s, new) IN ~t.failed => Keeps(s, t)
<1> DEFINE c == Mapping(s).inputs
           at == CHOOSE i \in DOMAIN c : c[i] = s.selected
                        /\ \A j \in 1..(i - 1) : c[j] # s.selected
           d == [c EXCEPT ![at] = new]
<1>1. Mapping(s) \in UIMapping /\ Base(s)
  BY MappingIs DEF Sound, Consistent
<1>2. c \in Combos /\ s.selected \in ToSet(c)
  BY <1>1, MappingTypes DEF Sound, Consistent, SelectedIsShown
<1>3. at \in DOMAIN c
  <2> HIDE DEF c
  <2> QED BY <1>2, FirstAt
<1> HIDE DEF at
<1>4. d \in Combos /\ new \in ToSet(d)
  BY <1>2, <1>3, ReplaceInput
<1> DEFINE u == Update(s, <<<<"inputs", d>>>>)
           v == [u EXCEPT !.selected = new]
           t == PublishEvent(v)
<1>5. UpdateInputConfig(s, new) = IF u.failed THEN u ELSE t
  BY DEF UpdateInputConfig, at
<1> HIDE DEF d
<1>6. Keeps(s, u) /\ u.active = s.active /\ (~u.failed => Mapping(u).inputs = d)
  BY <1>4, NewInputs DEF Sound
<1> HIDE DEF u
<1>7. CASE u.failed
  BY <1>5, <1>7
<1>8. CASE ~u.failed
  <2>1. Base(u) /\ Listed(u) /\ ShowsMapping(u) /\ u \in State
    BY <1>6 DEF Keeps, Sound, Consistent, Base
  <2>2. t = LoadInputConfig(u, new)
    BY <1>4, <1>6, <1>8 DEF LoadInputConfig
  <2>3. Keeps(u, t)
    BY <1>6, <1>8, <2>2, LoadInputKeeps DEF Keeps
  <2>4. Keeps(s, t)
    BY <1>6, <2>3, KeepsTwice
  <2> QED BY <1>5, <1>8, <2>4
<1> QED BY <1>7, <1>8

LEMMA TriedKeeps ==
    ASSUME NEW s, Sound(s), s.active # None, ~s.failed, s.selected # None,
           NEW values \in Seq(Int),
           \A k \in DOMAIN values : Modify(s.selected, values[k]) \in InputConfig
    PROVE  Keeps(s, Tried(s, values))
<1> DEFINE try == [k \in DOMAIN values |-> UpdateInputConfig(s, Modify(s.selected, values[k]))]
           done == {k \in DOMAIN values : ~try[k].failed}
           k0 == CHOOSE k \in done : \A l \in done : k <= l
<1>1. Tried(s, values) = IF done = {} THEN Synchronize(s) ELSE try[k0]
  BY DEF Tried
<1>2. \A k \in done : Keeps(s, try[k])
  BY InputConfigKeeps
<1>3. CASE done = {}
  BY <1>1, <1>3, PublishKeeps DEF Sound
<1>4. CASE done # {}
  <2>1. Len(values) \in Nat /\ done \in SUBSET (1..Len(values))
    OBVIOUS
  <2> HIDE DEF done
  <2>2. \E k \in done : \A l \in done : k <= l
    BY <1>4, <2>1, LeastExists
  <2>3. k0 \in done
    BY <2>2
  <2> QED BY <1>1, <1>2, <1>4, <2>3
<1> QED BY <1>3, <1>4

-----------------------------------------------------------------------------
(* The handlers.                                                           *)

\* A handler is done: what the record says is the state of the editor.
LEMMA SameIsSound ==
    ASSUME NEW r, Sound(r), NEW n \in State,
           n.preset = r.preset, n.active = r.active, n.selected = r.selected,
           n.rows = r.rows, n.row = r.row, n.list = r.list, n.listRow = r.listRow,
           n.shown = r.shown, n.input = r.input, n.page = r.page,
           ~n.broken => ~r.broken /\ ~r.failed
    PROVE  Sound(n) /\ (Paired(r) => Paired(n))
<1>1. Base(r) /\ r.page # {} /\ (r.active # None => r.preset[r.active] # None)
  BY DEF Sound, Consistent, Base
<1>2. Base(n) /\ Combinations(n) = Combinations(r)
  BY <1>1, BaseOfSame
<1>3. Mapping(n) = Mapping(r)
  BY DEF Mapping
<1>4. Listed(n) /\ SelectedIsShown(n)
  BY <1>2, <1>3 DEF Sound, Consistent, Listed, RowLeads, ShowsInputs, ListsInputs,
                    SelectedIsShown
<1>5. ShowsMapping(n)
  BY <1>3 DEF Sound, ShowsMapping
<1> QED BY <1>2, <1>4, <1>5 DEF Sound, Consistent, Paired

LEMMA NowFields ==
    /\ Now.preset = preset /\ Now.active = active /\ Now.selected = selected
    /\ Now.rows = rows /\ Now.row = row /\ Now.list = list /\ Now.listRow = listRow
    /\ Now.shown = shown /\ Now.input = input /\ Now.page = page
    /\ Now.broken = broken /\ Now.failed = FALSE /\ ~Now.failed
<1>1. Now.failed = FALSE
  BY DEF Now
<1>2. ~Now.failed
  BY <1>1, Zenon
<1> QED BY <1>2 DEF Now

LEMMA BecomesKeeps ==
    ASSUME NEW r, Keeps(Now, r), Becomes(r)
    PROVE  Sound(Now)' /\ (Paired(Now) => Paired(Now)')
<1> DEFINE broken0 == (r.broken \/ r.failed)
<1>1. r \in State
  BY DEF Keeps, Sound, Consistent, Base
<1>2. broken0 \in BOOLEAN /\ (~broken0 => ~r.broken /\ ~r.failed)
  OBVIOUS
<1> DEFINE n == [preset |-> r.preset, active |-> r.active, selected |-> r.selected,
                 rows |-> r.rows, row |-> r.row, list |-> r.list, listRow |-> r.listRow,
                 shown |-> r.shown, input |-> r.input, page |-> r.page,
                 broken |-> broken0, failed |-> FALSE]
<1>3. Now' = n
  BY DEF Becomes, Now
<1> HIDE DEF broken0
<1>4. n \in State
  BY <1>1, <1>2 DEF State
<1>5. /\ n.preset = r.preset /\ n.active = r.active /\ n.selected = r.selected
      /\ n.rows = r.rows /\ n.row = r.row /\ n.list = r.list /\ n.listRow = r.listRow
      /\ n.shown = r.shown /\ n.input = r.input /\ n.page = r.page /\ n.broken = broken0
  OBVIOUS
<1> HIDE DEF n
<1>6. ~n.broken => ~r.broken /\ ~r.failed
  BY <1>2, <1>5
<1>7. Sound(n) /\ (Paired(r) => Paired(n))
  BY <1>4, <1>5, <1>6, SameIsSound DEF Keeps
<1>8. Sound(Now)' <=> Sound(n)
  BY <1>3 DEF Sound, Consistent, Base, Listed, RowLeads, ShowsInputs, ListsInputs,
              SelectedIsShown, ShowsMapping, AreTyped, AreDistinct, Combinations, Mapping
<1>9. Paired(Now)' <=> Paired(n)
  BY <1>3 DEF Paired
<1> QED BY <1>7, <1>8, <1>9 DEF Keeps

\* What can be edited is shown.
LEMMA EnabledFacts ==
    ASSUME Sound(Now), Enabled
    PROVE  /\ active # None /\ active \in Ids /\ Now.active # None
           /\ Mapping(Now) = preset[active] /\ preset[active] \in UIMapping
           /\ preset[active].inputs \in Combos /\ list = preset[active].inputs
           /\ selected # None => selected \in ToSet(preset[active].inputs) /\ input = selected
<1>1. active # None /\ shown.inputs # EmptyCombination
  BY DEF Enabled
<1>2. Base(Now) /\ Now.active # None
  BY <1>1, NowFields DEF Sound, Consistent
<1>3. active \in Ids /\ Mapping(Now) \in UIMapping
  BY <1>2, MappingIs, NowFields
<1>4. Mapping(Now) = preset[active]
  BY NowFields DEF Mapping
<1>5. preset[active].inputs # EmptyCombination
  BY <1>1, <1>2, <1>4, NowFields DEF Sound, Consistent, Listed, ShowsInputs
<1>6. list = preset[active].inputs
  BY <1>2, <1>4, <1>5, NowFields DEF Sound, Consistent, Listed, ListsInputs
<1>7. selected # None => selected \in ToSet(preset[active].inputs) /\ input = selected
  BY <1>2, <1>4, <1>5, NowFields DEF Sound, Consistent, SelectedIsShown
<1> QED BY <1>1, <1>2, <1>3, <1>4, <1>6, <1>7, MappingTypes

\* Fields are set by the widgets that own them.
LEMMA FieldsKeep ==
    ASSUME NEW s, Consistent(s), s.active # None, ~s.failed
    PROVE  /\ \A text \in Texts \cup {None} : Keeps(s, Update(s, <<<<"symbol", text>>>>))
           /\ \A target \in Targets : Keeps(s, Update(s, <<<<"target", target>>>>))
           /\ \A type \in {None, "key", "abs", "rel"}, code \in Int \cup {None} :
                (type = None <=> code = None)
                    => Keeps(s, Update(s, <<<<"type", type>>, <<"code", code>>>>))
<1>1. ASSUME NEW change \in Changes, change[1] \notin {"type", "code"}
      PROVE  Keeps(s, Update(s, <<change>>))
  <2> DEFINE changes == <<change>>
  <2>1. /\ changes \in Seq(Changes) /\ Len(changes) = 1 /\ DOMAIN changes = {1}
        /\ changes[1] = change
    OBVIOUS
  <2> HIDE DEF changes
  <2>2. AreChanges(changes) /\ ArePairs(changes)
    BY <1>1, <2>1 DEF AreChanges, ArePairs
  <2>3. Keeps(s, Update(s, changes))
    BY <2>2, UpdateKeeps
  <2> QED BY <2>3 DEF changes
<1>2. ASSUME NEW type \in {None, "key", "abs", "rel"}, NEW code \in Int \cup {None},
             type = None <=> code = None
      PROVE  Keeps(s, Update(s, <<<<"type", type>>, <<"code", code>>>>))
  <2> DEFINE changes == <<<<"type", type>>, <<"code", code>>>>
  <2>1. <<"type", type>> \in Changes /\ <<"code", code>> \in Changes
    BY DEF Changes
  <2>2. /\ changes \in Seq(Changes) /\ Len(changes) = 2 /\ DOMAIN changes = {1, 2}
        /\ changes[1] = <<"type", type>> /\ changes[2] = <<"code", code>>
    BY <2>1
  <2> HIDE DEF changes
  <2>3. AreChanges(changes)
    BY <2>2 DEF AreChanges
  <2>4. ArePairs(changes)
    <3>1. /\ 1 \in 1..2 /\ 1 + 1 = 2 /\ 2 \in DOMAIN changes
          /\ DOMAIN changes \ {1, 2} = {}
          /\ changes[1][1] = "type" /\ changes[2][1] = "code"
          /\ changes[1][2] = None <=> changes[2][2] = None
      BY <1>2, <2>2
    <3> QED BY <3>1 DEF ArePairs
  <2>5. Keeps(s, Update(s, changes))
    BY <2>3, <2>4, UpdateKeeps
  <2> QED BY <2>5 DEF changes
<1>3. ASSUME NEW text \in Texts \cup {None}
      PROVE  Keeps(s, Update(s, <<<<"symbol", text>>>>))
  <2>1. <<"symbol", text>> \in Changes
    BY DEF Changes
  <2> QED BY <1>1, <2>1
<1>4. ASSUME NEW target \in Targets
      PROVE  Keeps(s, Update(s, <<<<"target", target>>>>))
  <2>1. <<"target", target>> \in Changes
    BY DEF Changes
  <2> QED BY <1>1, <2>1
<1> QED BY <1>2, <1>3, <1>4

\* The changes that a kind needs are changes.
LEMMA ChangesForType ==
    ASSUME NEW m \in UIMapping, NEW kind \in Kinds
    PROVE  AreChanges(ChangesFor(m, kind)) /\ ArePairs(ChangesFor(m, kind))
<1> DEFINE auto == AutoUseAsAnalog([m EXCEPT !.kind = "analog"], m.inputs)
           k == <<"kind", kind>>
           i == <<"inputs", auto>>
           t == <<"symbol", None>>
           changes == ChangesFor(m, kind)
<1>1. auto \in Combos
  BY MappingTypes, AutoUseType
<1> HIDE DEF auto
<1>2. k \in Changes /\ i \in Changes /\ t \in Changes
  BY <1>1 DEF Changes
<1>3. /\ k[1] = "kind" /\ i[1] = "inputs" /\ t[1] = "symbol"
  OBVIOUS
<1>4. CASE kind # m.kind /\ kind = "key_macro"
  <2> DEFINE a == <<"type", None>>
             b == <<"code", None>>
  <2>1. a \in Changes /\ b \in Changes /\ a[1] = "type" /\ b[1] = "code"
        /\ a[2] = None /\ b[2] = None
    BY DEF Changes
  <2>2. changes = <<k, a, b>>
    BY <1>4 DEF ChangesFor
  <2> HIDE DEF k, a, b, changes
  <2>3. /\ changes \in Seq(Changes) /\ Len(changes) = 3 /\ DOMAIN changes = {1, 2, 3}
        /\ changes[1] = k /\ changes[2] = a /\ changes[3] = b
    BY <1>2, <2>1, <2>2
  <2>4. AreChanges(changes)
    BY <1>3, <2>1, <2>3 DEF AreChanges
  <2>5. ArePairs(changes)
    <3>1. /\ 2 \in 1..2 /\ 2 + 1 = 3 /\ 3 \in DOMAIN changes
          /\ changes[2][1] = "type" /\ changes[3][1] = "code"
          /\ changes[2][2] = None <=> changes[3][2] = None
          /\ \A n \in DOMAIN changes \ {2, 3} : changes[n][1] = "kind"
      BY <1>3, <2>1, <2>3
    <3> QED BY <3>1 DEF ArePairs
  <2> QED BY <2>4, <2>5 DEF changes
<1>5. CASE ~(kind # m.kind /\ kind = "key_macro")
  <2>1. \/ changes = <<k>>
        \/ changes = <<k>> \o <<i>> \o <<t>>
        \/ changes = <<k>> \o <<i>> \o <<>>
        \/ changes = <<k>> \o <<>> \o <<t>>
        \/ changes = <<k>> \o <<>> \o <<>>
    BY <1>5 DEF ChangesFor, auto
  <2> HIDE DEF k, i, t, changes
  <2>2. /\ <<k>> \o <<i>> \o <<t>> = <<k, i, t>>
        /\ <<k>> \o <<i>> \o <<>> = <<k, i>>
        /\ <<k>> \o <<>> \o <<t>> = <<k, t>>
        /\ <<k>> \o <<>> \o <<>> = <<k>>
    <3>1. <<k>> \in Seq(Changes) /\ <<k, i>> \in Seq(Changes)
      BY <1>2
    <3>2. /\ <<k>> \o <<>> = <<k>> /\ <<k, i>> \o <<>> = <<k, i>>
      BY <3>1, ConcatEmptySeq
    <3>3. /\ Append(<<k>>, i) = <<k, i>> /\ Append(<<k>>, t) = <<k, t>>
          /\ Append(<<k, i>>, t) = <<k, i, t>>
      <4>1. \A x, y \in Changes : Append(<<x>>, y) = <<x, y>>
        <5> TAKE x, y \in Changes
        <5>1. <<x>> \in Seq(Changes) /\ <<x, y>> \in Seq(Changes) /\ Len(<<x>>) = 1
          OBVIOUS
        <5> DEFINE a == Append(<<x>>, y)
        <5>2. a \in Seq(Changes) /\ Len(a) = 2 /\ a[1] = x /\ a[2] = y
          BY <5>1, AppendProperties
        <5> HIDE DEF a
        <5>3. a = <<x, y>>
          BY <5>1, <5>2, SeqEqual
        <5> QED BY <5>3 DEF a
      <4>2. \A x, y, z \in Changes : Append(<<x, y>>, z) = <<x, y, z>>
        <5> TAKE x, y, z \in Changes
        <5>1. <<x, y>> \in Seq(Changes) /\ <<x, y, z>> \in Seq(Changes) /\ Len(<<x, y>>) = 2
          OBVIOUS
        <5> DEFINE a == Append(<<x, y>>, z)
        <5>2. a \in Seq(Changes) /\ Len(a) = 3 /\ a[1] = x /\ a[2] = y /\ a[3] = z
          BY <5>1, AppendProperties
        <5> HIDE DEF a
        <5>3. a = <<x, y, z>>
          BY <5>1, <5>2, SeqEqual
        <5> QED BY <5>3 DEF a
      <4> QED BY <1>2, <4>1, <4>2
    <3>4. /\ <<k>> \o <<i>> = Append(<<k>>, i) /\ <<k>> \o <<t>> = Append(<<k>>, t)
          /\ <<k, i>> \o <<t>> = Append(<<k, i>>, t)
      BY <1>2, <3>1, AppendIsConcat
    <3> QED BY <3>2, <3>3, <3>4
  <2>3. /\ changes \in Seq(Changes) /\ Len(changes) \in 1..3
        /\ \A n \in DOMAIN changes : changes[n] \in {k, i, t}
        /\ \A n, l \in DOMAIN changes : changes[n] = i /\ changes[l] = i => n = l
    <3>1. CASE changes = <<k>>
      BY <1>2, <1>3, <3>1
    <3>2. CASE changes = <<k, i>>
      BY <1>2, <1>3, <3>2
    <3>3. CASE changes = <<k, t>>
      BY <1>2, <1>3, <3>3
    <3>4. CASE changes = <<k, i, t>>
      BY <1>2, <1>3, <3>4
    <3> QED BY <2>1, <2>2, <3>1, <3>2, <3>3, <3>4
  <2>4. AreChanges(changes)
    BY <1>3, <2>3 DEF AreChanges
  <2>5. ArePairs(changes)
    BY <1>3, <2>3 DEF ArePairs
  <2> QED BY <2>4, <2>5 DEF changes
<1> QED BY <1>4, <1>5

LEMMA SelectMappingStep ==
    ASSUME Sound(Now), NEW c \in rows, SelectMapping(c)
    PROVE  Sound(Now)' /\ (Paired(Now) => Paired(Now)')
<1> DEFINE u == [Now EXCEPT !.row = c]
           t == LoadMapping(u, c)
<1>1. Now \in State /\ Base(Now) /\ c \in Combinations(Now) /\ c \in Combos
  BY NowFields DEF Sound, Consistent, Base, Listed, State
<1>2. /\ u \in State /\ u.preset = Now.preset /\ u.active = Now.active
      /\ u.rows = Now.rows /\ u.page = Now.page /\ u.failed = Now.failed
  BY <1>1 DEF State
<1> HIDE DEF u
<1>3. Now.page # {} /\ (Now.active # None => Now.preset[Now.active] # None)
  BY <1>1 DEF Base
<1>4. Base(u) /\ Combinations(u) = Combinations(Now)
  BY <1>1, <1>2, <1>3, BaseOfSame
<1>5. ~u.failed /\ u.rows = Combinations(u)
  BY <1>2, <1>4, NowFields DEF Sound, Consistent, Listed
<1>6. Sound(t) /\ t.preset = u.preset
  BY <1>1, <1>4, <1>5, LoadMappingSound
<1> HIDE DEF t
<1>7. Keeps(Now, t)
  BY <1>2, <1>6, KeepsOfSame
<1> QED BY <1>7, BecomesKeeps DEF SelectMapping, t, u

\* A mapping without an input comes and is loaded, in place of the one that SendPreset loads.
LEMMA CreateMappingStep ==
    ASSUME Sound(Now), CreateMapping
    PROVE  Sound(Now)' /\ (Paired(Now) => Paired(Now)')
<1>1. PICK i \in Ids, first \in Combinations(Now) \cup {EmptyCombination} :
        /\ preset[i] = None
        /\ Becomes(Update(PublishMapping(
                [SendPreset([Now EXCEPT !.preset[i] = Unset], first)
                    EXCEPT !.active = i, !.selected = None]),
                <<<<"target", DefaultTarget>>>>))
  BY DEF CreateMapping
<1> DEFINE preset0 == [Now.preset EXCEPT ![i] = Unset]
           u == [Now EXCEPT !.preset = preset0]
           added == SendPreset(u, first)
           v == [added EXCEPT !.active = i, !.selected = None]
           t == PublishMapping(v)
           r == Update(t, <<<<"target", DefaultTarget>>>>)
<1>2. Now \in State /\ Base(Now) /\ EmptyCombination \notin Combinations(Now) /\ i # None
  BY EditorAssumption DEF Sound, Consistent, Base, CreateMapping
<1>3. Becomes(r)
  <2>1. [Now EXCEPT !.preset[i] = Unset] = u
    BY <1>2 DEF State
  <2> QED BY <1>1, <2>1
<1>4. /\ preset0 \in [Ids -> UIMapping \cup {None}] /\ preset0[i] = Unset
      /\ \A j \in Ids \ {i} : preset0[j] = preset[j]
  BY <1>2, DefaultType, NowFields DEF State
<1> HIDE DEF preset0
<1>5. /\ u \in State /\ u.preset = preset0 /\ u.active = active
      /\ u.page = Now.page /\ ~u.failed
  <2>1. u \in State /\ u.preset = preset0 /\ u.active = Now.active
        /\ u.page = Now.page /\ u.failed = Now.failed
    BY <1>2, <1>4 DEF State
  <2> HIDE DEF u
  <2> QED BY <2>1, NowFields
<1> HIDE DEF u
<1>6. Unset # None /\ Unset.inputs = EmptyCombination /\ Unset \in UIMapping
  BY DefaultType, MappingTypes
<1>7. \A j \in Ids : preset[j] # None =>
        preset[j] \in UIMapping /\ preset[j].inputs \in Combos
        /\ preset[j].inputs \in Combinations(Now)
  BY <1>2, NowFields, MappingTypes DEF State, Combinations
<1>8. AreTyped(u)
  BY <1>2, <1>4, <1>5, DefaultType, NowFields DEF AreTyped, Base
<1>9. AreDistinct(u)
  <2>1. ASSUME NEW j \in Ids, j # i, preset[j] # None
        PROVE  /\ ~PermutationOf(EmptyCombination, preset[j].inputs)
               /\ ~PermutationOf(preset[j].inputs, EmptyCombination)
    BY <1>2, <1>7, <2>1, DefaultType, PermutationFacts
  <2> QED BY <1>2, <1>4, <1>5, <1>6, <2>1, NowFields DEF AreDistinct, Base
<1>10. active # None => active # i
  BY <1>1, <1>2, NowFields DEF Base
<1>11. Base(u)
  <2>1. u.active # None => u.preset[u.active] # None
    BY <1>2, <1>4, <1>5, <1>10, NowFields DEF Base, State
  <2>2. u.page # {}
    BY <1>2, <1>5 DEF Base
  <2> QED BY <1>5, <1>8, <1>9, <2>1, <2>2 DEF Base
<1>12. first \in Combinations(u)
  <2>1. EmptyCombination \in Combinations(u)
    BY <1>4, <1>5, <1>6 DEF Combinations
  <2>2. Combinations(Now) \subseteq Combinations(u)
    BY <1>1, <1>4, <1>5, NowFields DEF Combinations
  <2> QED BY <2>1, <2>2
<1>13. Sound(added) /\ ~added.failed /\ added.preset = preset0
  BY <1>5, <1>11, <1>12, SendPresetSound
<1> HIDE DEF added
<1>14. added \in State /\ Base(added) /\ added.rows = Combinations(added) /\ added.page # {}
  BY <1>13 DEF Sound, Consistent, Listed, Base
<1>15. /\ v \in State /\ v.active = i /\ v.selected = None /\ v.preset = preset0
       /\ v.rows = added.rows /\ v.page = added.page /\ ~v.failed
  BY <1>13, <1>14 DEF State
<1> HIDE DEF v
<1>16. Base(v) /\ Combinations(v) = Combinations(added)
  BY <1>4, <1>6, <1>13, <1>14, <1>15, BaseOfSame
<1>17. Sound(t) /\ ~t.failed /\ SamePreset(v, t)
  BY <1>2, <1>14, <1>15, <1>16, PublishMappingSound
<1> HIDE DEF t
<1>18. t.active # None /\ t.preset = preset0 /\ Consistent(t)
  BY <1>2, <1>15, <1>17 DEF SamePreset, Sound
<1>19. Keeps(t, r)
  BY <1>17, <1>18, EditorAssumption, FieldsKeep
<1>20. Paired(Now) => Paired(t)
  <2>1. Pair(Unset)
    BY DEF Pair, Unset
  <2> QED BY <1>4, <1>18, <2>1, NowFields DEF Paired
<1> HIDE DEF r
<1>21. Keeps(Now, r)
  BY <1>19, <1>20 DEF Keeps
<1> QED BY <1>3, <1>21, BecomesKeeps

LEMMA DeleteMappingStep ==
    ASSUME Sound(Now), DeleteMapping
    PROVE  Sound(Now)' /\ (Paired(Now) => Paired(Now)')
<1> DEFINE preset0 == [Now.preset EXCEPT ![active] = None]
           u == [Now EXCEPT !.preset = preset0, !.active = None]
<1>1. Now \in State /\ Base(Now) /\ active # None /\ active \in Ids
  BY MappingIs, NowFields DEF Sound, Consistent, Base, DeleteMapping
<1>2. [Now EXCEPT !.preset[active] = None, !.active = None] = u
  BY <1>1 DEF State
<1>3. PICK first \in IF Combinations(u) = {} THEN {EmptyCombination} ELSE Combinations(u) :
        Becomes(SendPreset(u, first))
  BY <1>2 DEF DeleteMapping
<1>4. /\ preset0 \in [Ids -> UIMapping \cup {None}] /\ preset0[active] = None
      /\ \A j \in Ids \ {active} : preset0[j] = preset[j]
  BY <1>1, NowFields DEF State
<1> HIDE DEF preset0
<1>5. /\ u \in State /\ u.preset = preset0 /\ u.active = None
      /\ u.page = Now.page /\ ~u.failed
  <2>1. u \in State /\ u.preset = preset0 /\ u.active = None
        /\ u.page = Now.page /\ u.failed = Now.failed
    BY <1>1, <1>4 DEF State
  <2> HIDE DEF u
  <2> QED BY <2>1, NowFields
<1> HIDE DEF u
<1>6. Base(u)
  BY <1>1, <1>4, <1>5, NowFields DEF Base, AreTyped, AreDistinct
<1>7. LET t == SendPreset(u, first) IN Sound(t) /\ t.preset = u.preset
  BY <1>3, <1>5, <1>6, SendPresetSound
<1>8. Paired(Now) => Paired(u)
  BY <1>4, <1>5, NowFields DEF Paired
<1>9. Keeps(Now, SendPreset(u, first))
  BY <1>7, <1>8 DEF Keeps, Paired
<1> QED BY <1>3, <1>9, BecomesKeeps

LEMMA RecordStep ==
    ASSUME Sound(Now), NEW c \in Recordings, Record(c)
    PROVE  Sound(Now)' /\ (Paired(Now) => Paired(Now)')
<1> DEFINE d == AutoUseAsAnalog(preset[active], c)
           t == UpdateCombination(Now, d)
<1>1. d \in Combos
  BY AutoUseType, EditorAssumption DEF Combos
<1>2. Keeps(Now, t)
  <2> HIDE DEF d
  <2> QED BY <1>1, CombinationKeeps, NowFields DEF Record
<1> QED BY <1>2, BecomesKeeps DEF Record

LEMMA SelectInputStep ==
    ASSUME Sound(Now), NEW config, SelectInput(config)
    PROVE  Sound(Now)' /\ (Paired(Now) => Paired(Now)')
<1> DEFINE u == [Now EXCEPT !.listRow = config]
           t == LoadInputConfig(u, config)
<1>1. Enabled /\ config \in ToSet(list) /\ Now \in State /\ Now.page # {} /\ Base(Now)
  BY DEF SelectInput, Sound, Consistent, Base
<1>2. /\ Mapping(Now) = preset[active] /\ list = preset[active].inputs
      /\ preset[active] \in UIMapping /\ Now.active # None
  BY <1>1, EnabledFacts
<1>3. config \in InputConfig
  BY <1>1, <1>2, MappingTypes
<1>4. /\ u \in State /\ u.preset = Now.preset /\ u.active = Now.active /\ u.rows = Now.rows
      /\ u.row = Now.row /\ u.list = Now.list /\ u.shown = Now.shown /\ u.page = Now.page
      /\ u.broken = Now.broken /\ u.failed = Now.failed
  BY <1>1, <1>3 DEF State
<1> HIDE DEF u
<1>5. Mapping(u) = Mapping(Now)
  BY <1>4 DEF Mapping
<1>6. Base(u) /\ Combinations(u) = Combinations(Now)
  <2>1. u.active # None => Now.preset[u.active] # None
    BY <1>1, <1>4 DEF Base
  <2> QED BY <1>1, <1>4, <2>1, BaseOfSame
<1>7. Listed(u) /\ ShowsMapping(u) /\ ~u.failed
  BY <1>4, <1>5, <1>6, NowFields DEF Sound, Consistent, Listed, RowLeads, ShowsInputs,
                                    ListsInputs, ShowsMapping
<1>8. config \in ToSet(Mapping(u).inputs)
  BY <1>1, <1>2, <1>5
<1>9. Sound(t) /\ SamePreset(u, t)
  BY <1>2, <1>4, <1>6, <1>7, <1>8, LoadInputSound
<1> HIDE DEF t
<1>10. Keeps(Now, t)
  BY <1>4, <1>9, KeepsOfSame DEF SamePreset
<1> QED BY <1>10, BecomesKeeps DEF SelectInput, t, u

LEMMA MoveInputStep ==
    ASSUME Sound(Now), NEW config, NEW down \in BOOLEAN, MoveInput(config, down)
    PROVE  Sound(Now)' /\ (Paired(Now) => Paired(Now)')
<1> DEFINE c == preset[active].inputs
           i == CHOOSE k \in DOMAIN c : c[k] = config /\ \A l \in 1..(k - 1) : c[l] # config
           j == IF down THEN i + 1 ELSE i - 1
           moved == [c EXCEPT ![i] = c[j], ![j] = config]
           u == UpdateCombination(Now, moved)
           t == LoadInputConfig(u, config)
<1>1. /\ Enabled /\ config \in ToSet(c) /\ j \in DOMAIN c /\ Becomes(t)
  BY DEF MoveInput, Editing
<1>2. c \in Combos /\ Now.active # None /\ preset[active] \in UIMapping /\ ~Now.failed
  BY <1>1, EnabledFacts, NowFields
<1>3. i \in DOMAIN c /\ config \in InputConfig
  <2>1. config \in InputConfig
    BY <1>1, <1>2, MappingTypes
  <2> HIDE DEF c
  <2> QED BY <1>1, <1>2, <2>1, FirstAt
<1> HIDE DEF i, j
<1>4. moved \in Combos
  <2>1. c \in Seq(InputConfig) /\ DOMAIN c = 1..Len(c) /\ Len(c) \in Nat
    BY <1>2 DEF Combos
  <2> HIDE DEF c
  <2>2. c[j] \in InputConfig
    BY <1>1, <2>1
  <2> DEFINE d == [c EXCEPT ![i] = c[j]]
  <2>3. d \in Combos
    BY <1>2, <1>3, <2>2, ReplaceInput
  <2>4. DOMAIN d = DOMAIN c /\ moved = [d EXCEPT ![j] = config]
    OBVIOUS
  <2> HIDE DEF d, moved
  <2>5. j \in DOMAIN d
    BY <1>1, <2>4
  <2>6. [d EXCEPT ![j] = config] \in Combos
    BY <1>3, <2>3, <2>5, ReplaceInput
  <2> QED BY <2>4, <2>6
<1> HIDE DEF moved
<1>5. Keeps(Now, u) /\ ~u.failed /\ u.active # None
  BY <1>2, <1>4, CombinationKeeps
<1> HIDE DEF u
<1>6. Keeps(u, t)
  BY <1>5, LoadInputKeeps DEF Keeps
<1>7. Keeps(Now, t)
  BY <1>5, <1>6, KeepsTwice
<1> HIDE DEF t
<1> QED BY <1>1, <1>7, BecomesKeeps

LEMMA RemoveType ==
    ASSUME NEW c \in Combos, NEW at \in DOMAIN c
    PROVE  RemoveAt(c, at) \in Seq(InputConfig)
<1>1. c \in Seq(InputConfig) /\ DOMAIN c = 1..Len(c) /\ Len(c) \in Nat
  BY DEF Combos
<1> DEFINE a == SubSeq(c, 1, at - 1)
           b == SubSeq(c, at + 1, Len(c))
<1>2. a \in Seq(InputConfig) /\ b \in Seq(InputConfig)
  BY <1>1
<1> HIDE DEF a, b
<1>3. a \o b \in Seq(InputConfig)
  BY <1>2, ConcatProperties
<1> QED BY <1>3 DEF RemoveAt, a, b

LEMMA EnterThresholdStep ==
    ASSUME Sound(Now), NEW threshold \in Int, EnterThreshold(threshold)
    PROVE  Sound(Now)' /\ (Paired(Now) => Paired(Now)')
<1> DEFINE new == Modify(input, threshold)
           t == UpdateInputConfig(Now, new)
<1>1. Enabled /\ IsAxis(input.type)
  BY DEF EnterThreshold, Editing
<1>2. /\ Now.active # None /\ ~Now.failed /\ Now.selected = selected
      /\ preset[active] \in UIMapping
      /\ selected # None => selected \in ToSet(preset[active].inputs) /\ input = selected
  BY <1>1, EnabledFacts, NowFields
<1>3. CASE selected = None
  BY <1>3, FailsKeeps, BecomesKeeps DEF EnterThreshold, Sound
<1>4. CASE selected # None
  <2>1. input \in InputConfig
    BY <1>2, <1>4, MappingTypes
  <2>2. new \in InputConfig
    BY <1>1, <2>1, ModifyType DEF IsAxis
  <2>3. Becomes(IF t.failed THEN Synchronize(Now) ELSE t)
    BY <1>4 DEF EnterThreshold
  <2> HIDE DEF new
  <2>4. ~t.failed => Keeps(Now, t)
    BY <1>2, <1>4, <2>2, InputConfigKeeps
  <2>5. Keeps(Now, Synchronize(Now))
    BY <1>2, PublishKeeps DEF Sound
  <2> HIDE DEF t
  <2> QED BY <2>3, <2>4, <2>5, BecomesKeeps
<1> QED BY <1>3, <1>4

LEMMA SwitchAnalogStep ==
    ASSUME Sound(Now), SwitchAnalog
    PROVE  Sound(Now)' /\ (Paired(Now) => Paired(Now)')
<1> DEFINE values == CASE selected.type = "key" -> <<>>
                       [] IsAxis(selected.type) /\ ~DefinesAnalog(input) -> <<0>>
                       [] selected.type = "rel" /\ DefinesAnalog(input) -> <<1, -1>>
                       [] OTHER -> <<10, -10>>
<1>1. Enabled
  BY DEF SwitchAnalog, Editing
<1>2. /\ Now.active # None /\ ~Now.failed /\ Now.selected = selected
      /\ preset[active] \in UIMapping
      /\ selected # None => selected \in ToSet(preset[active].inputs) /\ input = selected
  BY <1>1, EnabledFacts, NowFields
<1>3. CASE selected = None
  BY <1>3, FailsKeeps, BecomesKeeps DEF SwitchAnalog, Sound
<1>4. CASE selected # None
  <2>1. selected \in InputConfig
    BY <1>2, <1>4, MappingTypes
  <2>2. Becomes(Tried(Now, values))
    BY <1>4 DEF SwitchAnalog
  <2>3. values \in Seq(Int) /\ \A k \in DOMAIN values :
            selected.type = "empty" => values[k] # 0
    <3>1. CASE selected.type = "key"
      BY <3>1
    <3>2. CASE IsAxis(selected.type) /\ ~DefinesAnalog(input)
      <4>1. values = <<0>> /\ selected.type # "empty"
        BY <3>2 DEF IsAxis
      <4> QED BY <4>1
    <3>3. CASE selected.type = "rel" /\ DefinesAnalog(input)
      <4>1. values = <<1, -1>> /\ selected.type # "empty"
        BY <3>3
      <4> QED BY <4>1
    <3>4. CASE ~(\/ selected.type = "key"
                 \/ IsAxis(selected.type) /\ ~DefinesAnalog(input)
                 \/ selected.type = "rel" /\ DefinesAnalog(input))
      <4>1. values = <<10, -10>>
        BY <3>4
      <4> HIDE DEF values
      <4>2. values \in Seq(Int) /\ DOMAIN values = {1, 2} /\ values[1] = 10 /\ values[2] = -10
        BY <4>1
      <4> QED BY <4>2
    <3> QED BY <3>1, <3>2, <3>3, <3>4
  <2> HIDE DEF values
  <2>4. \A k \in DOMAIN values : values[k] \in Int
    BY <2>3
  <2>5. \A k \in DOMAIN values : Modify(Now.selected, values[k]) \in InputConfig
    BY <1>2, <2>1, <2>3, <2>4, ModifyType
  <2>6. Keeps(Now, Tried(Now, values))
    BY <1>2, <1>4, <2>3, <2>5, TriedKeeps
  <2> QED BY <2>2, <2>6, BecomesKeeps
<1> QED BY <1>3, <1>4

LEMMA RemoveInputStep ==
    ASSUME Sound(Now), RemoveInput
    PROVE  Sound(Now)' /\ (Paired(Now) => Paired(Now)')
<1> DEFINE c == preset[active].inputs
           at == CHOOSE i \in DOMAIN c : c[i] = selected
                            /\ \A j \in 1..(i - 1) : c[j] # selected
           rest == RemoveAt(c, at)
           u == Update(Now, <<<<"inputs", rest>>>>)
           t == LoadInputConfig(u, rest[1])
<1>1. Enabled /\ selected # None
  BY DEF RemoveInput, Editing
<1>2. /\ Now.active # None /\ ~Now.failed /\ c \in Combos /\ selected \in ToSet(c)
  BY <1>1, EnabledFacts, NowFields
<1>3. Becomes(IF rest = <<>> \/ u.failed THEN Synchronize(Now) ELSE t)
  BY DEF RemoveInput
<1>4. at \in DOMAIN c
  <2> HIDE DEF c
  <2> QED BY <1>2, FirstAt
<1> HIDE DEF at
<1>5. rest \in Seq(InputConfig)
  <2> HIDE DEF c
  <2> QED BY <1>2, <1>4, RemoveType
<1> HIDE DEF rest
<1>6. Keeps(Now, Synchronize(Now))
  BY <1>2, PublishKeeps DEF Sound
<1>7. ASSUME rest # <<>>, ~u.failed
      PROVE  Keeps(Now, t)
  <2>1. rest \in Combos
    BY <1>5, <1>7 DEF Combos
  <2>2. Keeps(Now, u) /\ u.active # None
    BY <1>2, <2>1, NewInputs DEF Sound
  <2> HIDE DEF u
  <2>3. Keeps(u, t)
    BY <1>7, <2>2, LoadInputKeeps DEF Keeps
  <2> QED BY <2>2, <2>3, KeepsTwice
<1> HIDE DEF u, t
<1> QED BY <1>3, <1>6, <1>7, BecomesKeeps

\* The widgets that set one field, and those whose fields are not part of the model.
LEMMA FieldSteps ==
    ASSUME Sound(Now),
           \/ \E text \in Texts : TypeText(text)
           \/ \E target \in Targets : ChooseTarget(target)
           \/ \E axis \in Offered : ChooseAxis(axis)
           \/ Tune \/ EnterCutoff \/ \E zero \in BOOLEAN : EnterReleaseTimeout(zero)
    PROVE  Sound(Now)' /\ (Paired(Now) => Paired(Now)')
<1>1. Enabled
  BY DEF TypeText, ChooseTarget, ChooseAxis, Tune, EnterCutoff, EnterReleaseTimeout, Editing
<1>2. Now.active # None /\ ~Now.failed /\ Consistent(Now)
  BY <1>1, EnabledFacts, NowFields DEF Sound
<1>3. Keeps(Now, PublishMapping(Now)) /\ Keeps(Now, Fails(Now))
  BY <1>2, PublishKeeps, FailsKeeps
<1>4. CASE \E text \in Texts : TypeText(text)
  BY <1>2, <1>4, FieldsKeep, BecomesKeeps DEF TypeText
<1>5. CASE \E target \in Targets : ChooseTarget(target)
  BY <1>2, <1>5, FieldsKeep, BecomesKeeps DEF ChooseTarget
<1>6. CASE \E axis \in Offered : ChooseAxis(axis)
  <2>1. PICK axis \in Offered : ChooseAxis(axis)
    BY <1>6
  <2>2. /\ axis[1] \in {None, "key", "abs", "rel"} /\ axis[2] \in Int \cup {None}
        /\ axis[1] = None <=> axis[2] = None
    <3>1. CASE axis # <<None, None>>
      <4>0. PICK a \in Axes : axis = <<a[2], a[3]>>
        BY <2>1, <3>1 DEF Offered
      <4>1. axis[1] \in {"key", "abs", "rel"} /\ axis[2] \in Int
        BY <4>0, EditorAssumption
      <4>2. axis[1] # None
        BY <4>1, MappingAssumption
      <4>3. axis[2] # None
        BY <4>1, EditorAssumption
      <4> QED BY <4>1, <4>2, <4>3
    <3>2. CASE axis = <<None, None>>
      BY <3>2
    <3> QED BY <3>1, <3>2
  <2>3. Keeps(Now, Update(Now, <<<<"type", axis[1]>>, <<"code", axis[2]>>>>))
    BY <1>2, <2>2, FieldsKeep
  <2> QED BY <2>1, <2>3, BecomesKeeps DEF ChooseAxis
<1>7. CASE Tune
  BY <1>3, <1>7, BecomesKeeps DEF Tune
<1>8. CASE EnterCutoff
  BY <1>3, <1>8, BecomesKeeps DEF EnterCutoff
<1>9. CASE \E zero \in BOOLEAN : EnterReleaseTimeout(zero)
  BY <1>3, <1>9, BecomesKeeps DEF EnterReleaseTimeout
<1> QED BY <1>4, <1>5, <1>6, <1>7, <1>8, <1>9

LEMMA ChooseKindStep ==
    ASSUME Sound(Now), NEW kind \in Kinds, NEW confirmed \in BOOLEAN, ChooseKind(kind, confirmed)
    PROVE  Sound(Now)' /\ (Paired(Now) => Paired(Now)')
<1> DEFINE m == preset[active]
           page0 == Now.page \cup {kind}
           u == [Now EXCEPT !.page = page0]
           t == Update(u, ChangesFor(m, kind))
<1>1. Enabled
  BY DEF ChooseKind, Editing
<1>2. Becomes(IF Asks(m, kind) /\ ~confirmed THEN Synchronize(u) ELSE t)
  BY DEF ChooseKind, TakenBack
<1>3. /\ Now.active # None /\ ~Now.failed /\ m \in UIMapping /\ Now \in State /\ Base(Now)
  BY <1>1, EnabledFacts, NowFields DEF Sound, Consistent, Base
<1>4. page0 \in SUBSET Kinds /\ page0 # {}
  BY <1>3 DEF State
<1> HIDE DEF page0, m
<1>5. /\ u \in State /\ u.page # {} /\ u.preset = Now.preset /\ u.active = Now.active
      /\ u.selected = Now.selected /\ u.rows = Now.rows /\ u.row = Now.row
      /\ u.list = Now.list /\ u.listRow = Now.listRow /\ u.shown = Now.shown
      /\ u.input = Now.input /\ u.failed = Now.failed
  BY <1>3, <1>4 DEF State
<1> HIDE DEF u
<1>6. Mapping(u) = Mapping(Now)
  BY <1>5 DEF Mapping
<1>7. Base(u) /\ Combinations(u) = Combinations(Now)
  <2>1. u.active # None => Now.preset[u.active] # None
    BY <1>3, <1>5 DEF Base
  <2> QED BY <1>3, <1>5, <2>1, BaseOfSame
<1>8. Consistent(u)
  BY <1>5, <1>6, <1>7 DEF Sound, Consistent, Listed, RowLeads, ShowsInputs, ListsInputs,
                          SelectedIsShown
<1>9. Keeps(u, Synchronize(u))
  BY <1>3, <1>5, <1>8, PublishKeeps
<1>10. Keeps(u, t)
  BY <1>3, <1>5, <1>8, ChangesForType, UpdateKeeps
<1> HIDE DEF t
<1>11. Keeps(Now, Synchronize(u)) /\ Keeps(Now, t)
  BY <1>5, <1>9, <1>10 DEF Keeps, Paired
<1> QED BY <1>2, <1>11, BecomesKeeps

-----------------------------------------------------------------------------
(***************************************************************************)
(* The specification.  Sound is inductive: the properties of a single      *)
(* mapping, or of a single widget, are not, because a handler finds its    *)
(* mapping and its input by what the widgets hold.                         *)
(***************************************************************************)

\* The inductive invariant.
Inv == Sound(Now) /\ edits \in 0..MaxEdits

\* The types and the codes of the mappings are set together.
InPairs == Paired(Now)

LEMMA InitInv ==
    ASSUME Init
    PROVE  Inv /\ ((\A m \in Stored : Pair(m)) => InPairs)
<1>1. PICK m \in Stored \cup {None}, i \in Ids :
        LET s == SendPreset(Blank([j \in Ids |-> IF j = i THEN m ELSE None]),
                            IF m = None THEN EmptyCombination ELSE m.inputs)
        IN  /\ preset = s.preset /\ active = s.active /\ selected = s.selected
            /\ rows = s.rows /\ row = s.row /\ list = s.list /\ listRow = s.listRow
            /\ shown = s.shown /\ input = s.input /\ page = s.page
            /\ broken = s.broken /\ edits = 0
  BY DEF Init
<1> DEFINE p == [j \in Ids |-> IF j = i THEN m ELSE None]
           first == IF m = None THEN EmptyCombination ELSE m.inputs
           b == Blank(p)
           s == SendPreset(b, first)
<1>2. m \in UIMapping \cup {None} /\ (m # None => m = Typed(m))
  BY EditorAssumption
<1>3. /\ p \in [Ids -> UIMapping \cup {None}] /\ p[i] = m
      /\ \A j \in Ids \ {i} : p[j] = None
  BY <1>2
<1> HIDE DEF p
<1>4. /\ b \in State /\ b.preset = p /\ b.active = None /\ b.page = {"key_macro"}
      /\ b.failed = FALSE
  BY <1>3, DefaultType DEF Blank, State, Kinds
<1>5. ~b.failed
  BY <1>4, Zenon
<1> HIDE DEF b
<1>6. Base(b)
  BY <1>2, <1>3, <1>4 DEF Base, AreTyped, AreDistinct
<1>7. Combinations(b) = IF m = None THEN {} ELSE {m.inputs}
  BY <1>3, <1>4 DEF Combinations
<1>8. Sound(s) /\ ~s.failed /\ s.preset = p
  BY <1>4, <1>5, <1>6, <1>7, SendPresetSound
<1>9. /\ preset = s.preset /\ active = s.active /\ selected = s.selected
      /\ rows = s.rows /\ row = s.row /\ list = s.list /\ listRow = s.listRow
      /\ shown = s.shown /\ input = s.input /\ page = s.page
      /\ broken = s.broken /\ edits = 0
  BY <1>1 DEF s, b, p
<1> HIDE DEF s, first
<1>10. Now \in State
  <2>1. s \in State
    BY <1>8 DEF Sound, Consistent, Base
  <2> QED BY <1>9, <2>1 DEF State, Now
<1>11. Sound(Now) /\ (Paired(s) => Paired(Now))
  BY <1>8, <1>9, <1>10, NowFields, SameIsSound
<1>12. (\A n \in Stored : Pair(n)) => Paired(s)
  BY <1>1, <1>3, <1>8 DEF Paired
<1>13. edits \in 0..MaxEdits
  BY <1>9, EditorAssumption
<1> QED BY <1>11, <1>12, <1>13 DEF Inv, InPairs

LEMMA NextInv ==
    ASSUME Inv, [Next]_vars
    PROVE  Inv' /\ (InPairs => InPairs')
<1> USE DEF Inv, InPairs
<1>1. ASSUME NEW c \in rows, SelectMapping(c)
      PROVE  Inv' /\ (InPairs => InPairs')
  BY <1>1, SelectMappingStep DEF SelectMapping
<1>2. ASSUME edits' = edits + 1, edits < MaxEdits
      PROVE  edits' \in 0..MaxEdits
  BY <1>2, EditorAssumption
<1>3. CASE CreateMapping
  BY <1>2, <1>3, CreateMappingStep DEF CreateMapping, Edit
<1>4. CASE DeleteMapping
  BY <1>2, <1>4, DeleteMappingStep DEF DeleteMapping, Edit
<1>5. ASSUME NEW c \in Recordings, Record(c)
      PROVE  Inv' /\ (InPairs => InPairs')
  BY <1>2, <1>5, RecordStep DEF Record, Edit
<1>6. ASSUME NEW config, SelectInput(config)
      PROVE  Inv' /\ (InPairs => InPairs')
  BY <1>6, SelectInputStep DEF SelectInput
<1>7. ASSUME NEW config, NEW down \in BOOLEAN, MoveInput(config, down)
      PROVE  Inv' /\ (InPairs => InPairs')
  BY <1>2, <1>7, MoveInputStep DEF MoveInput, Editing, Edit
<1>8. ASSUME NEW type \in DOMAIN Thresholds, NEW t \in Thresholds[type], EnterThreshold(t)
      PROVE  Inv' /\ (InPairs => InPairs')
  <2>1. t \in Int
    BY EditorAssumption
  <2> QED BY <1>2, <1>8, <2>1, EnterThresholdStep DEF EnterThreshold, Editing, Edit
<1>9. CASE SwitchAnalog
  BY <1>2, <1>9, SwitchAnalogStep DEF SwitchAnalog, Editing, Edit
<1>10. CASE RemoveInput
  BY <1>2, <1>10, RemoveInputStep DEF RemoveInput, Editing, Edit
<1> DEFINE FieldStep == \/ \E text \in Texts : TypeText(text)
                        \/ \E target \in Targets : ChooseTarget(target)
                        \/ \E axis \in Offered : ChooseAxis(axis)
                        \/ Tune \/ EnterCutoff \/ \E zero \in BOOLEAN : EnterReleaseTimeout(zero)
<1>11. CASE FieldStep
  <2>1. edits < MaxEdits /\ edits' = edits + 1
    BY <1>11 DEF TypeText, ChooseTarget, ChooseAxis, Tune, EnterCutoff,
                 EnterReleaseTimeout, Editing, Edit
  <2> QED BY <1>2, <1>11, <2>1, FieldSteps
<1>12. ASSUME NEW kind \in Kinds, NEW confirmed \in BOOLEAN, ChooseKind(kind, confirmed)
       PROVE  Inv' /\ (InPairs => InPairs')
  BY <1>2, <1>12, ChooseKindStep DEF ChooseKind, Editing, Edit
<1>13. CASE UNCHANGED vars
  <2>1. Now' = Now /\ edits' = edits
    BY <1>13 DEF vars, Now
  <2>2. Sound(Now)' <=> Sound(Now)
    BY <2>1 DEF Sound, Consistent, Base, Listed, RowLeads, ShowsInputs, ListsInputs,
                SelectedIsShown, ShowsMapping, AreTyped, AreDistinct, Combinations, Mapping
  <2>3. Paired(Now)' <=> Paired(Now)
    BY <2>1 DEF Paired
  <2> QED BY <2>1, <2>2, <2>3
<1>14. CASE \E c \in rows : SelectMapping(c)
  BY <1>1, <1>14
<1>15. CASE \E c \in Recordings : Record(c)
  BY <1>5, <1>15
<1>16. CASE \E config \in ToSet(list) :
                SelectInput(config) \/ \E down \in BOOLEAN : MoveInput(config, down)
  BY <1>6, <1>7, <1>16
<1>17. CASE \E type \in DOMAIN Thresholds : \E t \in Thresholds[type] : EnterThreshold(t)
  BY <1>8, <1>17
<1>18. CASE \E kind \in Kinds, confirmed \in BOOLEAN : ChooseKind(kind, confirmed)
  BY <1>12, <1>18
<1> HIDE DEF Inv, InPairs
<1> QED BY <1>3, <1>4, <1>9, <1>10, <1>11, <1>13, <1>14, <1>15, <1>16, <1>17, <1>18 DEF Next

\* The invariant holds whatever the user does, and so does InPairs for such files.
THEOREM EditorInvariance ==
    Spec => []Inv /\ ((\A m \in Stored : Pair(m)) => []InPairs)
<1>1. Init => Inv /\ ((\A m \in Stored : Pair(m)) => InPairs)
  BY InitInv
<1>2. Inv /\ [Next]_vars => Inv' /\ (InPairs => InPairs')
  BY NextInv
<1> QED BY <1>1, <1>2, PTL DEF Spec

LEMMA InvImplies ==
    ASSUME Inv
    PROVE  TypeOK /\ RowsLeadToMappings /\ ShownIsTheMapping
<1>1. Base(Now) /\ Now \in State
  BY DEF Inv, Sound, Consistent, Base
<1>2. active # None => active \in Ids /\ Mapping(Now) = preset[active]
  BY <1>1, NowFields DEF State, Mapping
<1>3. TypeOK
  <2>1. /\ \A j \in Ids : preset[j] # None => preset[j] \in UIMapping
        /\ page \in SUBSET Kinds
    BY <1>1, NowFields DEF State
  <2>2. broken \in BOOLEAN
    BY <1>1, NowFields DEF State
  <2>3. /\ \A j \in Ids : preset[j] # None => preset[j] = Typed(preset[j])
        /\ page # {} /\ (active # None => preset[active] # None)
    BY <1>1, NowFields DEF Base, AreTyped
  <2>4. \A i, j \in Ids : i # j /\ preset[i] # None /\ preset[j] # None =>
            ~PermutationOf(preset[i].inputs, preset[j].inputs)
    BY <1>1, NowFields DEF Base, AreDistinct
  <2> QED BY <2>1, <2>2, <2>3, <2>4 DEF TypeOK, Inv
<1>4. RowsLeadToMappings
  BY <1>2, NowFields DEF RowsLeadToMappings, Inv, Sound, Consistent, Listed, RowLeads
<1>5. ShownIsTheMapping
  <2>1. /\ active # None /\ ~broken =>
            /\ shown = preset[active]
            /\ preset[active].kind # None => page = {preset[active].kind}
    BY <1>2, NowFields DEF Inv, Sound, ShowsMapping
  <2>2. Enabled /\ selected # None =>
            /\ selected \in ToSet(preset[active].inputs)
            /\ input = selected /\ listRow = selected
            /\ list = preset[active].inputs
    <3>1. ASSUME Enabled, selected # None
          PROVE  preset[active].inputs # EmptyCombination /\ active # None
      BY <1>2, <3>1, NowFields DEF Enabled, Inv, Sound, Consistent, Listed, ShowsInputs
    <3>2. ASSUME Enabled, selected # None
          PROVE  /\ selected \in ToSet(preset[active].inputs)
                 /\ input = selected /\ listRow = selected
      BY <1>2, <3>1, <3>2, NowFields DEF Inv, Sound, Consistent, SelectedIsShown
    <3> QED BY <3>1, <3>2, EnabledFacts DEF Inv
  <2> QED BY <2>1, <2>2 DEF ShownIsTheMapping
<1> QED BY <1>3, <1>4, <1>5

\* Every mapping of the preset is one that UIMapping takes, of the obvious kind, and no two
\* have combinations that cannot be told apart (TypeOK).
THEOREM EditorTypeCorrect == Spec => []TypeOK
BY EditorInvariance, InvImplies, PTL

\* Whatever was edited, what the validators accept the injection gets along with, unless a
\* target lacks the absolute axis (ValidMeansHandled).
THEOREM EditedIsHandled == Spec => []ValidMeansHandled
BY EditorTypeCorrect, TypeImpliesHandled, PTL

\* The list of mappings always has a row for each mapping, and the selected one is that of
\* the mapping being edited (RowsLeadToMappings).
THEOREM RowsAreMappings == Spec => []RowsLeadToMappings
BY EditorInvariance, InvImplies, PTL

\* The widgets show the mapping being edited, and the selected input is one of its
\* (ShownIsTheMapping).
THEOREM WidgetsShowTheMapping == Spec => []ShownIsTheMapping
BY EditorInvariance, InvImplies, PTL

\* Controller._get_ui_error_strings: what misses an output has another error than that of
\* the variant, if its type and its code are set together.
LEMMA MissingOutputIsExplained ==
    ASSUME NEW m \in UIMapping, Pair(m), m.kind # None, ~Valid(m)
    PROVE  UiErrors(m) # {}
<1> DEFINE s == Strict(m)
           o == "OutputSymbolVariant"
<1>1. SUFFICES ASSUME Errors(m) = {o} PROVE FALSE
  BY DEF UiErrors, Valid
<1>2. o \notin SymbolErrors(m) /\ o \notin InputErrors(m.inputs)
      /\ o \notin IntegrityErrors(s) /\ o \notin MatchErrors(s)
  <2>1. o \notin SymbolErrors(m)
    BY DEF SymbolErrors
  <2>2. o \notin InputErrors(m.inputs)
    BY DEF InputErrors
  <2>3. o \notin IntegrityErrors(s)
    BY DEF IntegrityErrors
  <2>4. o \notin MatchErrors(s)
    BY DEF MatchErrors
  <2> QED BY <2>1, <2>2, <2>3, <2>4
<1>3. SymbolErrors(m) = {}
  BY <1>1, <1>2 DEF Errors
<1>4. /\ InputErrors(m.inputs) = {} /\ MatchErrors(s) = {} /\ o \in VariantErrors(s)
  BY <1>1, <1>2, <1>3 DEF Errors
<1>5. s.symbol = None /\ (s.type = None \/ s.code = None)
  BY <1>4 DEF VariantErrors
<1>6. s.inputs = m.inputs /\ s.type = None /\ s.code = None
  BY <1>5, StrictKeeps DEF Pair
<1>7. s.kind # None
  <2>1. m.type = None /\ m.code = None /\ ~HasSymbol(m)
    <3>1. ~HasSymbol(m)
      BY <1>5, StrictKeeps DEF HasSymbol
    <3> QED BY <1>6, <3>1, StrictKeeps
  <2>2. None # "key"
    BY MappingAssumption
  <2>3. s.kind = m.kind
    BY <2>1, <2>2 DEF Strict, Typed, HasSymbol, UIMapping
  <2> QED BY <2>3
<1>8. None \notin {"key", "abs", "rel"} /\ None # Disable
  BY MappingAssumption
<1> HIDE DEF s
<1> QED BY <1>4, <1>5, <1>6, <1>7, <1>8 DEF MatchErrors, IsAxis

\* Controller._get_ui_error_strings leaves out nothing that the user has to know
\* (ErrorsAreExplained), if every mapping in the files has both an output type and an output
\* code, or neither: the editor always sets the two together.
THEOREM ErrorsAreTold ==
    ASSUME \A m \in Stored : Pair(m)
    PROVE  Spec => []ErrorsAreExplained
<1>1. Inv /\ InPairs => ErrorsAreExplained
  <2> SUFFICES ASSUME Inv, InPairs, NEW i \in Ids, preset[i] # None, preset[i].kind # None,
                      ~Valid(preset[i])
               PROVE  UiErrors(preset[i]) # {}
    BY DEF ErrorsAreExplained
  <2>1. preset[i] \in UIMapping
    BY InvImplies DEF TypeOK
  <2>2. Pair(preset[i])
    BY NowFields DEF InPairs, Paired
  <2> QED BY <2>1, <2>2, MissingOutputIsExplained
<1> QED BY <1>1, EditorInvariance, PTL
=============================================================================
