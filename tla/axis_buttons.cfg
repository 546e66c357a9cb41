SPECIFICATION ButtonSpec
CONSTANTS
    Timeout = 3
    Period = 2
    ForceRelease = FALSE
    RelValues <- MCRelValues
    RelThreshold = 2
    AbsMin <- MCAbsMin
    AbsMax = 2
    AbsThreshold = 50
    Shoulder = FALSE
    Release = TRUE
    Resets = TRUE
    MaxTimers = 4
INVARIANTS
    KeyNeedsBothAxes
PROPERTIES
    ButtonIsHeld
