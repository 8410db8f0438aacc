CONSTANTS
    lock = lock
    unlock = unlock
    charge = charge
    setCare = setCare
    doors = doors
    charging = charging
    doorsLocked = doorsLocked
    isCharging = isCharging
    careTarget = careTarget
    NoCommand = NoCommand
    Commands = {lock, unlock}
    Classes = {doors}
    Keys = {}
    Values = {TRUE, FALSE}
    ClassOf <- MCClassOf
    Expected <- MCNothingExpected
    Fallback <- MCMbb
    MaxTries = 2
    TurnAwaits = FALSE
    MaxOwnerActs = 0
    UserEvents = {"readOnly", "reload", "refresh", "cancel"}
SPECIFICATION Spec
INVARIANTS
    LockDiscipline
    UnsentNeverActs
    SecondChannelAddsNoMove
PROPERTIES
    ReadOnlyStopsTheQueue
