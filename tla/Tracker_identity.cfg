SPECIFICATION Spec
CONSTANTS
    Requests = {r1, r2}
    Setups <- MCSetups
    DispatcherConfig <- MCDispatcherConfig
    Completions <- MCSuccess
    HostIds = {h1}
    Paths = {p1, p2}
    MaxBlocked = 0
    Depth = 0
    NoId = NoId
    CorruptId = CorruptId
SYMMETRY MCSymmetry
INVARIANTS
    PageViewReal
PROPERTIES
    ConsentHonoured
    NoStaleIdentity
    NewVisitOnce
