SPECIFICATION FairSpec
CONSTANTS
    m1 = m1
    m2 = m2
    m3 = m3
    w1 = w1
    w2 = w2
    a = a
    b = b
    Messages = {m1, m2, m3}
    BatchSize = 2
    Workers = {w1, w2}
    Tenants = {a, b}
    TenantOf <- TwoTenants
    Corrupt = {m3}
    Refused = {m2}
    DlqMayFail = FALSE
    MaxFaults = 2
INVARIANTS
    OnlyRefusedAreMissing
PROPERTIES
    KeepsContract
    EveryMessageSettles
CHECK_DEADLOCK FALSE
