SPECIFICATION Spec
CONSTANTS
    mouse = mouse
    twin = twin
    mice = mice
    p1 = p1
    p2 = p2
    c1 = c1
    c2 = c2
    a = a
    Groups = {mouse, twin}
    Models = {mice}
    Model <- SameModel
    Presets = {p1, p2}
    Combos = {c1, c2}
    Empty = Empty
    Outputs = {a}
    Unset = Unset
    None = None
    Meanwhile = FALSE
    MaxWaiting = 2
SYMMETRY Names
INVARIANTS
    EditsAreSaved
    AMappingIsShown
PROPERTY
    RulesNamePresets
