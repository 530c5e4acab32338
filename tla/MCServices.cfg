CONSTANTS
    None = None
    NoIp = NoIp
    NoPort = NoPort
    n1 = n1
    p1 = p1
    i1 = i1
    Users = {u1, u2}
    Requests = {r1, r2}
    Codes = {c1, c2}
    Passwords = {s1, s2}
    MaxNow = 2
    MaxRequests = 3
    ServiceUsers = {u2}
    Admin = u1
    Orgs = {o1}
    Projects = {j1}
    Scopes = {"default"}
    Tokens = {1, 2}
    Access = 1
    Refresh = 2
    MaxChanges = 1
    ElementNames = {"X", "Y"}
    Manifests = {"x1", "x2", "y1"}
    Manifest <- MCManifest
    MaxElementEvents = 3
    Images = {i1, i2}
    MaxSize = 2
    MaxMachineEvents = 4
    Vols = {v1}
    Nodes = {n1, n2}
    Pools = {p1, p2}
    MaxVolumeEvents = 4
    Names = {a, b}
    Forms = {1, 2}
    MaxValues = 3
    MaxSecretEvents = 3
    MaxKeyEvents = 3
    VmNode = {n1}
    HwNode = {h1}
    Target <- MCTarget
    RangeFirst = 1
    RangeLast = 2
    Uuid = {1, 2, 3, 4, 5}
    MaxMoves = 1
    MaxFaults = 1
SPECIFICATION MCSpec
INVARIANTS TypeOK VerifiedIsNewcomer UsedCodesAreDead ResourcesAreTheManifests InstalledThenBooted ActiveIsStored
PROPERTIES OldCodesAreCleared ElementsBecomeActive DataIsKept MachineSettles DiskIsKept AttachedAsAsked SecretIsKept SecretsSettle Settles
