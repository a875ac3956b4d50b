SPECIFICATION Spec
CONSTANTS
    e1 = e1
    e2 = e2
    n1 = n1
    r1 = r1
    r2 = r2
    h1 = h1
    h2 = h2
    None = None
    Request = {r1, r2}
    Event = {e1, e2, n1}
    Nested = {n1}
    Key = {k1}
    Job = {j1, j2}
    Handler = {h1, h2}
    Registered <- Handlers
    InsertAttempts = 2
    Does <- Allowed
    MaxTxn = 1
    MaxSavepoints = 2
    MaxFaults = 1
SYMMETRY Symmetric
INVARIANTS HandedOnIsCommitted HandledInOrder NothingForgotten DrainLeavesNothing EachLossIsAnotherJob
CHECK_DEADLOCK FALSE
