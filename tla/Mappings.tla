------------------------------- MODULE Mappings -------------------------------
(***************************************************************************)
(* What a mapping is, when the program calls it valid, and which handlers  *)
(* the injection builds for it.                                            *)
(*                                                                         *)
(* UIMapping takes anything the editor offers.  Mapping, which the         *)
(* injection and the status bar use, adds the validators of pydantic: the  *)
(* one for the symbol runs first and alone, then those of the fields, then *)
(* those of the whole mapping.  MappingParser assumes that they did.       *)
(***************************************************************************)
EXTENDS Integers, Sequences

CONSTANTS
    InputCodes, \* the codes of the inputs
    Texts,      \* what can be written into the code editor
    Empty,      \* the empty text
    Macros,     \* the texts that look like a macro
    Broken,     \* the macros that cannot be parsed
    Layout,     \* keyboard_layout: the code of each key name
    Disable,    \* the key name that disables the input
    DisableCode,
    Targets,    \* the uinputs
    Emits,      \* the pairs of a target and the code of a key it can emit
    Axes,       \* the triples of a target and the type and code of an axis it has
    None        \* no symbol, type, code, kind, target or input

ASSUME MappingAssumption ==
    /\ Empty \in Texts
    /\ None \notin Texts \cup {"key", "abs", "rel", "key_macro", "analog"}
    /\ Broken \subseteq Macros /\ Macros \subseteq Texts /\ Empty \notin Macros
    /\ DOMAIN Layout \subseteq Texts \ (Macros \cup {Empty})
    /\ Disable \in DOMAIN Layout /\ Layout[Disable] = DisableCode

InputTypes == {"key", "abs", "rel", "empty"}

\* The threshold None is 0, which pydantic turns it into anyway.
InputConfig == {i \in [type : InputTypes, code : InputCodes \cup {None}, threshold : Int] :
                    /\ i.type = "key" => i.threshold = 0
                    /\ i.type = "empty" => i.threshold # 0}

NoInput == [type |-> "empty", code |-> None, threshold |-> 99]
EmptyCombination == <<NoInput>>

UIMapping ==
    [inputs : Seq(InputConfig) \ {<<>>}, target : Targets \cup {None},
     symbol : Texts \cup {None}, type : {None, "key", "abs", "rel"},
     code : Int \cup {None}, kind : {None, "key_macro", "analog"}]

DefinesAnalog(input) == input.threshold = 0 /\ input.type # "key"
AnalogInputs(c) == {i \in DOMAIN c : DefinesAnalog(c[i])}
FirstAnalog(c) == CHOOSE i \in AnalogInputs(c) : \A j \in AnalogInputs(c) : i <= j

HasSymbol(m) == m.symbol \notin {None, Empty}
IsAxis(type) == type \in {"abs", "rel"}

-----------------------------------------------------------------------------
(* Validation *)

\* UIMapping.validate_mapping_type: the last of three conditions that applies.
Typed(m) ==
    [m EXCEPT !.kind =
        CASE \/ m.type = "key"
             \/ m.type = None /\ m.code = None /\ HasSymbol(m) -> "key_macro"
          [] m.type # "key" /\ m.code # None /\ ~HasSymbol(m) -> "analog"
          [] OTHER -> @]

\* Mapping.validate_symbol: an empty text is no symbol.
Strict(m) == Typed([m EXCEPT !.symbol = IF HasSymbol(m) THEN @ ELSE None])

SymbolErrors(m) ==
    CASE ~HasSymbol(m) \/ m.symbol = Disable -> {}
      [] m.symbol \in Macros -> IF m.symbol \in Broken THEN {"MacroError"} ELSE {}
      [] m.symbol \notin Macros /\ m.symbol \notin DOMAIN Layout -> {"OutputSymbolUnknown"}
      [] OTHER -> IF m.target # None /\ <<m.target, Layout[m.symbol]>> \notin Emits
                  THEN {"SymbolNotAvailableInTarget"} ELSE {}

InputErrors(c) ==
    CASE \E i, j \in AnalogInputs(c) : i # j -> {"OnlyOneAnalogInput"}
      [] \A i, j \in AnalogInputs(c) : i = j ->
            IF \E i \in DOMAIN c : /\ c[i].type = "abs"
                                   /\ c[i].threshold \notin -99..99
            THEN {"TriggerPointInRange"} ELSE {}

VariantErrors(m) ==
    IF m.symbol = None /\ (m.type = None \/ m.code = None)
    THEN {"OutputSymbolVariant"} ELSE {}

IntegrityErrors(m) ==
    CASE m.symbol = None \/ (m.type = None /\ m.code = None) -> {}
      [] m.symbol # None /\ m.symbol \in Macros ->
            IF m.type # None \/ m.code # None THEN {"MacroButTypeOrCodeSet"} ELSE {}
      [] OTHER -> IF \/ m.code # None /\ m.code # Layout[m.symbol]
                     \/ m.type # "key"
                  THEN {"SymbolAndCodeMismatch"} ELSE {}

\* Mutant: an analog input may be mapped to anything.
AnalogUnchecked(m) ==
    IF AnalogInputs(m.inputs) = {} /\ m.kind # "key_macro"
    THEN {"WrongMappingTypeForKey"} ELSE {}

\* Mutant: a mapping of keys need not produce anything.
KeyUnchecked(m) ==
    IF InputErrors(m.inputs) # {} THEN {"AssertionError"}
    ELSE IF m.kind # None /\ AnalogInputs(m.inputs) # {} /\ ~IsAxis(m.type) /\ m.symbol # Disable
    THEN {"MissingOutputAxis"} ELSE {}

\* Mapping.output_matches_input, which asserts that the combination is valid.
MatchErrors(m) ==
    LET analog == AnalogInputs(m.inputs) # {}
        key == m.symbol # None \/ (m.type = "key" /\ m.code \notin {None, 0})
    IN  CASE InputErrors(m.inputs) # {} -> {"AssertionError"}
          [] InputErrors(m.inputs) = {} /\ m.kind = None -> {}
          [] OTHER ->
                IF ~analog /\ m.kind # "key_macro" THEN {"WrongMappingTypeForKey"}
                ELSE IF ~analog /\ ~key THEN {"MissingMacroOrKey"}
                ELSE IF analog /\ ~IsAxis(m.type) /\ m.symbol # Disable
                THEN {"MissingOutputAxis"} ELSE {}

\* UIMapping.get_error: what pydantic finds.
Errors(m) ==
    LET s == Strict(m)
    IN  IF SymbolErrors(m) # {} THEN SymbolErrors(m)
        ELSE (IF m.target = None THEN {"NoneNotAllowed"} ELSE {})
             \cup InputErrors(m.inputs) \cup VariantErrors(s)
             \cup IntegrityErrors(s) \cup MatchErrors(s)

Valid(m) == Errors(m) = {}

\* Controller._get_ui_error_strings: what the status bar tells.
UiErrors(m) == Errors(m) \ {"OutputSymbolVariant"}

-----------------------------------------------------------------------------
(***************************************************************************)
(* Handlers.  A pipeline is the set of handlers that events reach first,   *)
(* each with the positions of the inputs it takes care of.  "Raises" is a  *)
(* failed assertion, a KeyError or a MappingParsingError.                  *)
(***************************************************************************)
Raises == [handler |-> "raises", inputs |-> {}]

\* MappingParser._get_output_handler
OutputHandler(m) ==
    CASE m.code = DisableCode \/ m.symbol = Disable -> "disable"
      [] m.code # DisableCode /\ m.symbol # Disable /\ HasSymbol(m) ->
            IF m.symbol \in Macros THEN "macro" ELSE "key"
      [] m.code # DisableCode /\ ~HasSymbol(m) /\ m.type = "key" -> "key"
      [] OTHER ->
            LET analog == AnalogInputs(m.inputs)
                from == m.inputs[FirstAnalog(m.inputs)].type
            IN  IF analog = {} \/ ~IsAxis(m.type) \/ ~IsAxis(from) THEN "raises"
                ELSE IF from = "abs" THEN "abs2axis" ELSE "rel2axis"

\* The target has the axis that the mapping produces.
HasAxis(m) == <<m.target, m.type, m.code>> \in Axes

\* KeyHandler and the axis handlers need to know what to emit.  For an absolute axis they
\* look up its range in the capabilities of the target, which may not have the axis.
Constructs(m) ==
    CASE OutputHandler(m) \in {"macro", "disable"} -> TRUE
      [] OutputHandler(m) = "key" -> m.symbol \in DOMAIN Layout \/ m.code # None
      [] OutputHandler(m) \in {"abs2axis", "rel2axis"} ->
            m.code # None /\ (m.type = "abs" => HasAxis(m))
      [] OTHER -> FALSE

\* CombinationHandler on the inputs at S, wrapped for what has to become a button.
CombinationOn(c, S) ==
    LET Of(type) == {i \in S : c[i].type = type}
    IN  IF S = {} \/ \E i \in S : DefinesAnalog(c[i]) THEN {Raises}
        ELSE {[handler |-> "combination", inputs |-> S \ (Of("abs") \cup Of("rel"))],
              [handler |-> "abs2btn", inputs |-> Of("abs")],
              [handler |-> "rel2btn", inputs |-> Of("rel")]}

\* AxisSwitchHandler on all inputs: the axis is its own, the keys make a combination.
AxisSwitchOn(c) ==
    LET analog == AnalogInputs(c)
    IN  IF analog = {} \/ DOMAIN c \ analog = {} THEN {Raises}
        ELSE {[handler |-> "axisswitch", inputs |-> analog]}
             \cup CombinationOn(c, DOMAIN c \ analog)

\* MappingParser._create_event_pipeline for the handler of the output.
Pipeline(m) ==
    LET c == m.inputs
        h == OutputHandler(m)
    IN  CASE ~Constructs(m) -> {Raises}
          [] h \in {"key", "macro"} -> CombinationOn(c, DOMAIN c)
          [] h = "disable" ->
                IF \A i \in DOMAIN c : DefinesAnalog(c[i])
                THEN {[handler |-> h, inputs |-> DOMAIN c]}
                ELSE IF AnalogInputs(c) = {} THEN CombinationOn(c, DOMAIN c)
                ELSE AxisSwitchOn(c)
          [] h \in {"abs2axis", "rel2axis"} ->
                IF Len(c) > 1 THEN AxisSwitchOn(c)
                ELSE {[handler |-> h, inputs |-> DOMAIN c]}

\* An absolute axis is to be moved that the target does not have, which no validator asks.
LacksAxis(m) == m.type = "abs" /\ m.code # DisableCode /\ ~HasAxis(m)

\* The injection gets along with a mapping: nothing raises, and every input has exactly
\* one handler.
Handled(m) ==
    /\ Raises \notin Pipeline(m)
    /\ \A i \in DOMAIN m.inputs :
            \E h \in Pipeline(m) :
                i \in h.inputs /\ \A k \in Pipeline(m) : i \in k.inputs => k = h
=============================================================================
