SPECIFICATION Spec
CONSTANTS
    Requests = {r1, r2, r3}
    Configs <- MCConfigs
    DefaultConfig <- MCDefaultConfig
    Completions <- MCCompletions
    Connected <- Signals
    Depth = 3
INVARIANTS
    ResultAlwaysReported
PROPERTIES
    ImplementsContract
