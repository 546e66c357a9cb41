SPECIFICATION Spec
CONSTANTS
    m1 = m1
    m2 = m2
    Ids = {m1, m2}
    None = None
    InputCodes = {"k", "x", "w"}
    Texts = {"", "a", "key(a)", "key(", "disable", "bogus"}
    Empty = ""
    Macros = {"key(a)", "key("}
    Broken = {"key("}
    Layout <- MCLayout
    Disable = "disable"
    DisableCode <- MCDisableCode
    Targets = {"keyboard", "mouse", "gamepad"}
    Emits <- MCEmits
    Recordings <- MCRecordings
    Thresholds <- MCThresholds
    Stored <- MCStored
    Axes <- MCAxes
    DefaultTarget = "keyboard"
    MaxEdits = 6
SYMMETRY Names
CHECK_DEADLOCK FALSE
INVARIANTS
    TypeOK
    ValidMeansHandled
    ErrorsAreExplained
    RowsLeadToMappings
    ShownIsTheMapping
