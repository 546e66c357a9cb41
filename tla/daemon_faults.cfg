SPECIFICATION FairSpec
CONSTANTS
    g1 = g1
    P1 = P1
    P2 = P2
    p1 = p1
    p2 = p2
    NoPreset = NoPreset
    NoGroup = NoGroup
    NoProcess = NoProcess
    Groups = {g1}
    Presets = {P1, P2}
    Saved = {P1}
    NoConfig = NoConfig
    Configs <- AutoloadFirst
    Processes = {p1, p2}
    SlowClose = TRUE
    ReadMayFail = TRUE
    MayCrash = TRUE
INVARIANTS
    LiveInjectorIsKnown
    FailureIsCorrected
    NoRedundantAutoload
PROPERTIES
    OutputsAreTakenBack
    CallsReturn
