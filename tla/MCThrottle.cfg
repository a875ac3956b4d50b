SPECIFICATION FairSpec
CONSTANTS
    a1 = a1
    a2 = a2
    a3 = a3
    a4 = a4
    web = web
    Call = {a1, a2, a3, a4}
    Process = {web}
    Home <- OneHome
    Status = {a4}
    Faults = {"lose"}
    MaxFaults = 1
INVARIANTS NothingUnannounced
PROPERTY NewestIsSent
CHECK_DEADLOCK FALSE
