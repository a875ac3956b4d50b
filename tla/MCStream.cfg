\* Every change, every disturbance, a queue of one frame.
CONSTANTS
    Changes <- AllChanges
    MaxChanges = 2
    QueueMax = 1
    Faults <- AllFaults
    MaxFaults = 1
SPECIFICATION FairSpec
INVARIANTS
    TypeOK
    FreshOrRefetched
PROPERTIES
    EndsFresh
    EndsWithGrant
CHECK_DEADLOCK FALSE
