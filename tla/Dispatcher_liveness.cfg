SPECIFICATION FairSpec
CONSTANTS
    Requests = {r1, r2}
    Configs <- MCLivenessConfigs
    DefaultConfig <- MCDefaultConfig
    Completions <- MCLivenessCompletions
    Connected <- Signals
    Depth = 0
PROPERTIES
    TimerResolves
    ImplementsFairContract
