CONSTANTS
    Nodes = {n1, n2}
    Mates = {n1, n2}
    p1 = p1  p2 = p2
    Pools = {p1, p2}
    Caps <- MCCaps
    MaxCores = 2
    NoRow = NoRow
    MaxEvents = 4
SPECIFICATION FairSpec
INVARIANTS TypeOK NotOvercommitted RunsWhereItsDiskIs MatesApart
PROPERTIES RunningStays NodesRun Reclaimed
