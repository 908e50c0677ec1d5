SPECIFICATION Spec
CONSTANTS
    Requests = {r1, r2}
    Configs <- MCLivenessConfigs
    DefaultConfig <- MCDefaultConfig
    Completions <- MCCompletions
    Connected <- Signals
    Depth = 0
PROPERTIES
    OpenUntilReset
