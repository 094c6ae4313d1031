SPECIFICATION FairSpec
CONSTANTS
    t1 = t1  t2 = t2  h1 = h1  h2 = h2  n1 = n1
    Teams = {t1, t2}
    Hosts = {h1,h2}
    Nodes = {n1}
    HostOf <- SharedHost
    NodeOf <- OneMachine
    MaxProcs = 2
    Gone = gone
    RunLimit = 1
    Timeout = 1
    MaxTries = 2
    MaxJobs = 2
    MaxFaults = 1
CHECK_DEADLOCK FALSE
INVARIANTS TypeOK OneJobUnlessTogether NodeShared RunOwned ScoredIffDone
PROPERTIES JobsEnd
