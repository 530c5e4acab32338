CONSTANTS
    Config = {1, 2, 3}
    n1 = n1  n2 = n2  n3 = n3
    p = p
    Node = {n1, n2, n3}
    Path = {p}
    Body = {"a", "b", "t"}
    Template = {"t"}
    PathOf <- MCPathOf
    TargetOf <- MCTargetOf
    NodesOf <- MCNodesOf
    FirstNodes = {n1, n3}
    NoRow = NoRow  NoReport = NoReport  NoBody = NoBody
    MaxEvents = 3
SPECIFICATION FairSpec
INVARIANTS TypeOK RendersHaveMasters ActiveRenderWasApplied
PROPERTY DeliverySettles
