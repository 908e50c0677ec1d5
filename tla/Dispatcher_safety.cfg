SPECIFICATION Spec
CONSTANTS
    Requests = {r1, r2, r3}
    Configs <- MCConfigs
    DefaultConfig <- MCDefaultConfig
    Completions <- MCForeignCompletions
    Connected <- Signals
    Depth = 2
SYMMETRY MCSymmetry
INVARIANTS
    TypeOK
    BreakerMatchesHistory
    BreakerSignalsHonest
    AtMostOneResult
    RepliesReleased
