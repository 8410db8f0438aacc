CONSTANTS
    lock = lock
    unlock = unlock
    charge = charge
    setCare = setCare
    doors = doors
    charging = charging
    doorsLocked = doorsLocked
    isCharging = isCharging
    careTarget = careTarget
    NoCommand = NoCommand
    Commands = {lock, unlock}
    Classes = {doors}
    Keys = {doorsLocked}
    Values = {TRUE, FALSE}
    ClassOf <- MCClassOf
    Expected <- MCExpected
    Fallback <- MCNoFallback
    MaxTries = 1
    TurnAwaits = TRUE
    MaxOwnerActs = 1
    UserEvents = {"cancel"}
SPECIFICATION Spec
INVARIANTS
    NoHoldOfAFailedCommand
PROPERTIES
    HiddenByALateStoreOnly
