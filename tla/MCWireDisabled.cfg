\* A contract execution debits a disabled account.
SPECIFICATION WireSpec
CONSTANTS
    a1 = a1
    c1 = c1
    c2 = c2
    n1 = n1
    n2 = n2
    k1 = k1
    k2 = k2
    tk = tk
    val = val
    o1 = o1
    w1 = w1
    s1 = s1
    p1 = p1
    p2 = p2
    r1 = r1
    r2 = r2
    st1 = st1
    st2 = st2
    d1 = d1
    ct = ct
    None = None
    Assets = {a1}
    Commitments = {c1, c2}
    Nonces = {k1, k2}
    Nullifiers = {n1, n2}
    Contracts = {ct}
    Actions = {k1, k2}
    EnrollmentTokens = {tk}
    Enrolled <- MCEnrolled
    EnrollmentOn = TRUE
    AuthoritiesOn = TRUE
    ValidatorKeys = {val}
    MaxAmount = 2
    Operators = {o1}
    Warehouses = {w1}
    SkuClasses = {s1}
    Policies = {p1, p2}
    Lots = {1, 2}
    Requests = {r1, r2}
    Settlements = {st1, st2}
    Assessments = {d1}
    MaxQuantity = 2
    Profiles <- MCProfiles
    Traffic <- MCTraffic
    Opening <- MCOpening
    MaxTxs <- MCMaxTxs
    MaxMempool = 2
    MaxBlockTxs = 2
    MaxEmptyBlocks = 1
    MaxRestarts = 1
INVARIANTS
    DisabledBlocksAll
CHECK_DEADLOCK FALSE
