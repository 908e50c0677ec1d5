SPECIFICATION Spec
CONSTANTS
    Requests = {r1, r2}
    Configs <- MCConfigs
    DefaultConfig <- MCDefaultConfig
    Completions <- MCForeignCompletions
    Connected <- Signals
    Depth = 0
INVARIANTS
    ResultAlwaysReported
