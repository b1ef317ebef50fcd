SPECIFICATION Spec
CONSTANTS
    Models <- DeviceModels
    RootSchema <- Device
    KeyValues <- PlainKeys
    MaxWild = 1
INVARIANTS
    WrittenIsFound
    ChangeIsRegistered
    DeleteSparesOnlyKeys
    JSONReadsBack
CHECK_DEADLOCK FALSE
