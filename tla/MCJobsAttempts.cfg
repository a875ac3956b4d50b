SPECIFICATION Spec
CONSTANTS
    j1 = j1
    j2 = j2
    w1 = w1
    w2 = w2
    None = None
    Job = {j1}
    Worker = {w1, w2}
    Reaper = {r1}
    MaxAttempts = 2
    Steps <- SoloSteps
    Dep <- SoloDep
    Heavy = {j1}
    LiveBlocked = {j1}
    Faults <- AllFaults
    MaxFaults = 2
SYMMETRY Workers
INVARIANTS TypeOK EachStepOnce HandlerCallsBounded RunnableIsCarried
CHECK_DEADLOCK FALSE
