SPECIFICATION FairSpec
CONSTANTS
    Calls <- FewCalls
    Slots = {s1, s2}
    Conns = {k1, k2}
    Nobody = nobody
    Timer = timer
    Lost = lost
    MaxRev = 1
    MaxRestarts = 0
    Faults = {"throw"}
CHECK_DEADLOCK FALSE
PROPERTIES AnsweredUnlessDrained
