\* Every change and revert, two sessions at once.
CONSTANTS
    Nil = Nil
    u1 = u1
    q1 = q1
    q2 = q2
    q3 = q3
    q4 = q4
    q5 = q5
    q6 = q6
    q7 = q7
    e1 = e1
    e2 = e2
    e3 = e3
    e4 = e4
    t1 = t1
    t2 = t2
    t3 = t3
    t4 = t4
    m1 = m1
    m2 = m2
    m3 = m3
    k1 = k1
    k2 = k2
    k3 = k3
    n1 = n1
    p1 = p1
    User = {u1}
    Session = {s1, s2}
    Entities = {q1, q2, q3, q4, q5, q6, q7}
    Edges = {e1, e2, e3, e4}
    Steps = {t1, t2, t3, t4}
    Mentions = {m1, m2, m3}
    Key = {k1, k2, k3}
    Proposal = {p1}
    Start <- World
    Requests <- AllRequests
    MaxChanges = 2
SPECIFICATION Spec
INVARIANTS
    TypeOK
    HistoryReplays
    AppliedOnce
PROPERTIES
    MergeNeverWidens
    RevertRestores
    HistorySpec
SYMMETRY Sessions
CHECK_DEADLOCK FALSE
