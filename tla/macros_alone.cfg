SPECIFICATION FairSpec
CONSTANTS
    m1 = m1
    m2 = m2
    a = a
    OtherKeys = {a}
    Macros = {m1}
    Setups <- Alone
    MayReset = TRUE
    MaxEvents = 4
INVARIANTS
    OrderIsKept
PROPERTIES
    HeadStartIsEnough
    EventsReachTheHandlers
    MacrosEnd
CHECK_DEADLOCK FALSE
