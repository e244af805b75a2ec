SPECIFICATION FairSpec
CONSTANTS
    m1 = m1
    m2 = m2
    m3 = m3
    w1 = w1
    w2 = w2
    Messages = {m1, m2, m3}
    BatchSize = 2
    Workers = {w1, w2}
    Corrupt = {m3}
    DlqMayFail = FALSE
    MaxFaults = 2
INVARIANTS
    OnlyFailedUploadsAreMissing
PROPERTIES
    KeepsContract
CHECK_DEADLOCK FALSE
