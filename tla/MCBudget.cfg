\* Three models, five requests, room for two small models; two loads fail.
SPECIFICATION FairSpec
CONSTANTS
    nli = nli
    ocr = ocr
    big = big
    n1 = n1
    n2 = n2
    o1 = o1
    o2 = o2
    b1 = b1
    None = None
    Request = {n1, n2, o1, o2, b1}
    Slot = {nli, ocr, big}
    Wants <- Wanted
    Cost <- Costs
    BudgetMb = 2
    MaxFailures = 2
INVARIANTS WithinBudget NothingLeaks EvictionNeverWaits
PROPERTY EveryRequestEnds
CHECK_DEADLOCK FALSE
