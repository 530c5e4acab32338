CONSTANTS
    n1 = n1
    n2 = n2
    h1 = h1
    NoIp = NoIp
    NoPort = NoPort
    VmNode = {n1, n2}
    HwNode = {h1}
    Target <- MCNoTargets
    RangeFirst = 1
    RangeLast = 3
    Uuid = {1, 2, 3, 4, 5}
    MaxMoves = 1
    MaxFaults = 1
SPECIFICATION Spec
INVARIANTS TypeOK UniqueIp ActiveIsServed OnePortPerNode VmNetworkIsTrue
PROPERTY NoInterruption
