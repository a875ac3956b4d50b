SPECIFICATION Spec
CONSTANTS
    s1 = s1
    s2 = s2
    Session <- Sessions
    Does <- All
    MaxTxn = 4
SYMMETRY Same
INVARIANT PromoKeepsAccess
CHECK_DEADLOCK FALSE
