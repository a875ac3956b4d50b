SPECIFICATION FairSpec
CONSTANTS
    j1 = j1
    j2 = j2
    w1 = w1
    w2 = w2
    None = None
    Job = {j1, j2}
    Worker = {w1}
    Reaper = {r1}
    MaxAttempts = 1
    Steps <- OneStep
    Dep <- Chain
    Heavy = {j1, j2}
    LiveBlocked = {j1}
    Faults <- AllFaults
    MaxFaults = 1
PROPERTIES LifecycleSpec EveryJobEnds
CHECK_DEADLOCK FALSE
