CONSTANTS
    v1 = v1
    v2 = v2
    Cars = {v1}
    Tolerance = 2
    Window = 2
    Never = Never
    ReauthGate = TRUE
    Supplement = TRUE
    Escapes = {"portal", "auth", "other"}
    Installed = TRUE
    Reloads = TRUE
    Refreshes = TRUE
    Owner = TRUE
SPECIFICATION Spec
INVARIANTS
    TypeOK
    ReauthExactlyWhenDead
PROPERTY
    OneFailureHidesNothing
CHECK_DEADLOCK FALSE
