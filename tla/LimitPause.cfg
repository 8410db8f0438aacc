CONSTANTS
    WriteGap = 1
    ProbeGap = 3
    Pause = 6
    Rounding = 1
    MaxTrips = 2
SPECIFICATION Spec
INVARIANTS
    TypeOK
PROPERTIES
    PauseIsAbsolute
    ProbesAreRare
    TapsApart
CHECK_DEADLOCK FALSE
