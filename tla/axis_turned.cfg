SPECIFICATION Spec
CONSTANTS
    Pipelines <- MCPipelines
    AbsMin <- MCAbsMin
    AbsMax = 2
    Deadzone = 2
    Gain = 1
    RelValues <- MCRelValues
    Codes = {"wheel", "hires"}
    Weight <- MCWeight
    Unit = 3
    Timeout = 3
    Period = 2
    MaxBatch = 2
    MaxLoops = 3
    Resets = TRUE
INVARIANTS
    SilentWhenOff
    LessThanAStepIsOwed
PROPERTIES
    OutputIsCentered
