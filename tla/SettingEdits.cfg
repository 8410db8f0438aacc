CONSTANTS
    e1 = e1
    e2 = e2
    r1 = r1
    unlock = unlock
    window = window
    target = target
    timer = timer
    climate = climate
    settings = settings
    timerPage = timerPage
    lo = lo
    hi = hi
    Edits = {e1, e2}
    Reads = {r1}
    Fields = {unlock, window, target, timer}
    Values = {lo, hi}
    Plans <- MCPlans
    Pages = {climate, settings, timerPage}
    PageOf <- MCPageOf
    Slider = settings
    Timers = {timerPage}
    MaxPresses = 2
    None = None
SPECIFICATION Spec
INVARIANTS
    TypeOK
    NoTapFromBefore
PROPERTIES
    SendsOneChange
    DoneMeansSaved
