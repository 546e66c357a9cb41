SPECIFICATION Spec
CONSTANTS
    Keys <- OverlapKeys
    DeviceOf <- OverlapDevice
    CodeOf <- OverlapCode
    Preset <- OverlapPreset
    Unpluggable = {"kbd", "mouse"}
    Lagging = {"mouse"}
INVARIANTS
    NoStuckForwardedKey
    NoStuckOutput
PROPERTIES
    OneOutputPerPress
    PressNeverVanishes
    LongestCombinationWins
