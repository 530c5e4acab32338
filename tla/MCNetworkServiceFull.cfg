CONSTANTS
    n1 = n1
    n2 = n2
    h1 = h1
    NoIp = NoIp
    NoPort = NoPort
    VmNode = {n1, n2}
    HwNode = {}
    Target <- MCNoTargets
    RangeFirst = 1
    RangeLast = 1
    Uuid = {1, 2, 3}
    MaxMoves = 0
    MaxFaults = 0
SPECIFICATION FairSpec
PROPERTY HostsComeBack
