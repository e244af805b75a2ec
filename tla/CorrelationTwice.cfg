SPECIFICATION Spec
CONSTANTS
    m1 = m1
    m2 = m2
    m3 = m3
    w1 = w1
    w2 = w2
    Messages = {m1, m2, m3}
    BatchSize = 2
    Workers = {w1}
    Corrupt = {m3}
    Triggers = {m1, m2}
    CommitMayFail = FALSE
    MaxFaults = 0
INVARIANT OneRowPerAlert
CHECK_DEADLOCK FALSE
