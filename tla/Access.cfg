SPECIFICATION MCSpec
CONSTANTS
    u1 = u1
    u2 = u2
    b1 = b1
    b2 = b2
    k1 = k1
    k2 = k2
    Users = {u1, u2}
    Browsers = {b1, b2}
    Holder <- MCHolder
    Creds = {k1, k2}
    Counting = {k1}
    r1 = r1
    r2 = r2
    d1 = d1
    d2 = d2
    q1 = q1
    q2 = q2
    Claims = {d1, d2, d3}
    Tenants = {u1, u2}
    Hostnames <- MCHostnames
    ManagedSuffixes <- MCSuffixes
    DomRequests = {q1, q2}
    ClaimTtl = 2
    RenewalGrace = 1
    PeriodTicks = 2
    InvoiceTicks = 1
    RenewLead = 1
    MaxLiveClaims = 2
    MaxUnpaidClaims = 1
    MaxNow = 4
    Nil = Nil
    Servers = {n1, n2, n3, n4}
    Private = {n4}
    MaxTargets = 2
    MaxAddresses = 2
    Lifetime = 12
    Requests = {r1, r2}
SYMMETRY Symmetry
CONSTANTS
    None = None
    MaxSessions = 2
    MaxPasskeys = 1
    MaxPending = 2
    SessionAge = 2
    ChallengeAge = 1
    AdminAge = 1
    MaxClock = 2
    MaxRequests = 4
    MaxCrashes = 1
CHECK_DEADLOCK FALSE
INVARIANT LimitsHold
PROPERTY GrantsNeedActiveAccount
PROPERTY CounterAdvances
 
INVARIANT ClaimsDisjoint
INVARIANT OwnershipProven
 
INVARIANT VerdictFaithful
INVARIANT EveryServerAsked
