CONSTANTS
    mouse = mouse
    keyboard = keyboard
    p1 = p1
    p2 = p2
    game = game
    rule1 = rule1
    rule2 = rule2
    id1 = id1
    id2 = id2
    Devices = {mouse, keyboard}
    Presets = {p1, p2}
    Windows = {game}
    Ids = {id1, id2}
    Given = {rule1, rule2}
    Broken = Broken
    Desktop = Desktop
    None = None
    Bindings <- OtherBindings
    InitialFiles <- FirstFiles
    MaxEdits = 2
SPECIFICATION Spec
INVARIANT EditsStayInTheirRule
PROPERTIES
    SavedIsStored
    UnrelatedAreKept
