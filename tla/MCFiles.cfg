SPECIFICATION FairSpec
CONSTANTS
    f1 = f1
    f2 = f2
    k1 = k1
    gc = gc
    None = None
    NoKey = NoKey
    File = {f1, f2}
    Session = {s1}
    Key <- SameKey
    MaxTxn = 2
    Faults <- AllFaults
    MaxFaults = 1
    Nil = Nil
    User = {"ann", "bob", "cat", "dan"}
    Campaign = {"c", "d"}
    Attribute = {}
    Value = {}
    DefaultStatus = Nil
    GcBatch = 2
    MaxBatch = 2
    MaxChars = 3
    MaxBytes = 2
INVARIANTS BytesForRows NoLitter KeysKept
PROPERTY LitterCollected
CHECK_DEADLOCK FALSE
