CONSTANTS
    u1 = u1
    u2 = u2
    s1 = s1
    s2 = s2
    a1 = a1
    a2 = a2
    a3 = a3
    a4 = a4
    i1 = i1
    i2 = i2
    i3 = i3
    k1 = k1
    k2 = k2
    k3 = k3
    p1 = p1
    p2 = p2
    e1 = e1
    e2 = e2
    c1 = c1
    c2 = c2
    Users = {u1, u2}
    RoutedSubs = {s1, s2}
    SubUser <- MCSubUser
    Prefixes = {p1, p2}
    Agents = {a1, a2, a3, a4}
    AgentUser <- MCAgentUser
    AgentIdentity <- MCAgentIdentity
    AgentKey <- MCAgentKey
    Identities = {i1, i2, i3}
    Keys = {k1, k2, k3}
    KeyRequests = {r1, r2}
    Versions = {1, 2, 3}
    Paid = 2
    Quarantine = 2
    FetchTicks = 1
    MaxStaleness = 2
    MaxEvents = 4
    Nobody = Nobody
    Edges = {e1, e2}
    Customers = {c1, c2}
    Unknown = {x}
    MaxDay = 3
    MaxInt64 = 2
    MaxAge = 1
    Retention = 1
    CleanupBatch = 2
    BatchSize = 1
    Stamps = {1, 2, 3}
    Absent = Absent
SPECIFICATION SpecReopened
INVARIANT StalePlaneCloses
CHECK_DEADLOCK FALSE
