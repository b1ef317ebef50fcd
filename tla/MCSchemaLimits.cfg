SPECIFICATION Spec
CONSTANTS
    Models <- DeviceModels
    RootSchema <- Device
    KeyValues <- SpacedKeys
    MaxWild = 1
INVARIANTS EveryChangeIsRegistered JSONReadsBack
CHECK_DEADLOCK FALSE
