CONSTANTS
    Config = {1}
    n1 = n1  n2 = n2  n3 = n3
    p = p
    Node = {n1}
    Path = {p}
    Body = {"a", "b"}
    Template = {}
    PathOf <- MCPathOf
    TargetOf <- OneTarget
    NodesOf <- OneNode
    FirstNodes = {n1}
    NoRow = NoRow  NoReport = NoReport  NoBody = NoBody
    MaxEvents = 2
SPECIFICATION Spec
INVARIANT TrackedIsRendered
