SPECIFICATION SessionSpec
CONSTANTS
    keyboard = keyboard
    mouse = mouse
    p = p
    q = q
    None = None
    Groups = {keyboard, mouse}
    PresetsOf <- MCPresetsOf
    Patience = 2
    Switchable = {keyboard}
INVARIANTS
    WindowdKnowsTheMode
PROPERTIES
    StartIsReported
    SwitchIsFollowed
