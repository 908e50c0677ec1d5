SPECIFICATION Spec
CONSTANTS
    Requests = {r1, r2}
    Setups <- MCSlotSetups
    DispatcherConfig <- MCDispatcherConfig
    Completions <- MCCompletions
    HostIds = {}
    Paths = {p1}
    MaxBlocked = 1
    Depth = 1
    NoId = NoId
    CorruptId = CorruptId
SYMMETRY MCSymmetry
INVARIANTS
    TypeOK
    StatsAccount
    BindingsFresh
