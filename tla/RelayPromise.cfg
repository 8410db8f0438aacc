CONSTANTS
    c1 = c1
    c2 = c2
    p1 = p1
    p2 = p2
    Calls = {c1, c2}
    Polls = {p1, p2}
    MaxBrokers = 2
    None = None
SPECIFICATION Spec
INVARIANTS
    TypeOK
    SlotIsTheLockHolders
PROPERTIES
    KeepsItsPromise
SYMMETRY Symmetric
CHECK_DEADLOCK FALSE
