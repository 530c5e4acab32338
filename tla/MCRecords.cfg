CONSTANTS
    RangeFirst <- MCRangeFirst
    RangeLast <- MCRangeLast
    Discovery <- MCDiscoveryBeside
    PortAddress <- MCPortAddress
    TargetAddress <- MCTargetAddress
    None = None
    g1 = g1  v1 = v1  v2 = v2
    Domains = {d1, d2}
    Names = {x, y}
    Realm = x
    DnsRecords = {r1}
    DnsValues = {1, 2}
    MaxDnsEvents = 3
    Global = {g1, g2, g3}
    Listed = {g1, g2}
    Vals = {v1, v2}
    MaxRequests = 3
    Underway = 2
    Nodes = {n1, n2}
    MaxSize = 2
    Contents = {1, 2}
    LbUnderway = 2
    MaxLbEvents = 2
    Uris = {q1, q2}
    MaxBootEvents = 2
SPECIFICATION MCSpec
INVARIANTS TypesOK PoolWellFormed NotOfferedTwice SaltIsKept
PROPERTIES ImplementsPool NodesAreKept RowsSurvive Converges
CHECK_DEADLOCK FALSE
