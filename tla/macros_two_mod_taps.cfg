SPECIFICATION FairSpec
CONSTANTS
    m1 = m1
    m2 = m2
    a = a
    OtherKeys = {a}
    Macros = {m1, m2}
    Setups <- TwoModTaps
    MayReset = FALSE
    MaxEvents = 4
PROPERTIES
    EventsReachTheHandlers
CHECK_DEADLOCK FALSE
