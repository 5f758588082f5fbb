SPECIFICATION MCSpec
CONSTANTS
    p1 = p1
    p2 = p2
    Procs = {p1, p2}
    u1 = u1
    u2 = u2
    Users = {u1, u2}
    c1 = c1
    c2 = c2
    c3 = c3
    Clients = {c1, c2, c3}
    i1 = i1
    i2 = i2
    Instances = {i1, i2}
    s1 = s1
    s2 = s2
    Subs = {s1, s2}
    Wildcard = {s2}
    e1 = e1
    Edges = {e1}
    r1 = r1
    r2 = r2
    Requests = {r1, r2}
    None = None
    Owner <- MCOwner
    InstanceOf <- MCInstanceOf
    SubOwner <- MCSubOwner
    Limit = 2
    MaxBuckets = 2
    Retention = 1
    CleanupInterval = 1
    CleanupBatch = 1
    CertTTL = 2
    Period = 2
    GenBits = 2
    MaxClock = 2
    MaxGen = 3
    MaxEnroll = 4
    MaxIssue = 2
    MaxConfig = 2
    MaxCrashes = 1
    MaxRenewals = 1
SYMMETRY Symmetry
CHECK_DEADLOCK FALSE
INVARIANT OneRoot
INVARIANT SlotsExact
INVARIANT LimitHolds
INVARIANT RetrySafe
INVARIANT EntitlementsAgree
