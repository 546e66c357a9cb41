SPECIFICATION FairSpec
CONSTANTS
    mouse = mouse
    keyboard = keyboard
    left = left
    right = right
    wheel = wheel
    None = None
    NoGroup = NoGroup
    Groups = {mouse}
    Keys = {left}
    Axes = {wheel}
    GroupOf <- OfTheMouse
    Unpluggable = {mouse}
    Wander = FALSE
    Hasty = FALSE
    SlowBoot = FALSE
    MaxTroubles = 2
    MaxBoots = 2
    MaxRecordings = 2
    MaxQueue = 2
INVARIANTS
    ServiceAgrees
PROPERTIES
    RecordingEnds
    RecordsTheChord
