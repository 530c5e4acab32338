CONSTANTS
    n1 = n1
    n2 = n2
    h1 = h1
    NoIp = NoIp
    NoPort = NoPort
    VmNode = {n1}
    HwNode = {h1}
    Target <- MCNoTargets
    RangeFirst = 1
    RangeLast = 2
    Uuid = {1, 2, 3, 4}
    MaxMoves = 1
    MaxFaults = 0
SPECIFICATION Spec
INVARIANT VmKnowsItsPort
