CONSTANTS
    v1 = v1
    v2 = v2
    Cars = {v1, v2}
    Tolerance = 2
    Window = 2
    Never = Never
    ReauthGate = FALSE
    Supplement = FALSE
    Escapes = {"other"}
    Installed = TRUE
    Reloads = FALSE
    Refreshes = TRUE
    Owner = FALSE
SPECIFICATION FairSpec
INVARIANTS
    LoopRunsWhileStarted
    NotShownPastWindow
PROPERTIES
    OneFailureHidesNothing
    OutdatedIsHidden
CHECK_DEADLOCK FALSE
