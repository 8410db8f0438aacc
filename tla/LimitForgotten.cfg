CONSTANTS
    WriteGap = 1
    ProbeGap = 3
    Pause = 6
    Rounding = 1
    MaxTrips = 2
SPECIFICATION Spec
PROPERTIES
    RestartKeepsThePause
CHECK_DEADLOCK FALSE
