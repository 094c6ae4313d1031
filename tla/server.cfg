SPECIFICATION Spec
CONSTANTS
    Calls <- AllCalls
    Slots = {s1, s2}
    Conns = {k1, k2}
    Nobody = nobody
    Timer = timer
    Lost = lost
    MaxRev = 2
    MaxRestarts = 1
    Faults = {"throw"}
SYMMETRY Symmetry
CHECK_DEADLOCK FALSE
INVARIANTS TypeOK ConnectionPerRequest ListCurrent
