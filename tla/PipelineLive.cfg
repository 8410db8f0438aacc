CONSTANTS
    lock = lock
    unlock = unlock
    charge = charge
    setCare = setCare
    doors = doors
    charging = charging
    doorsLocked = doorsLocked
    isCharging = isCharging
    careTarget = careTarget
    NoCommand = NoCommand
    Commands = {charge, setCare}
    Classes = {charging}
    Keys = {isCharging, careTarget}
    Values = {TRUE, FALSE}
    ClassOf <- MCClassOf
    Expected <- MCExpected
    Fallback <- MCOfficial
    MaxTries = 1
    TurnAwaits = FALSE
    MaxOwnerActs = 0
    UserEvents = {}
SPECIFICATION FairSpec
INVARIANTS
    TypeOK
    HoldShown
    NoPhantom
PROPERTIES
    EveryCommandEnds
    DashboardSettles
