SPECIFICATION Spec
CONSTANTS
    Texts <- MCTexts
    Trimmed <- MCTrimmed
    References <- MCReferences
    ClientIds = {"id"}
    TrackerConfigs <- MCConfigs
    Options <- MCOptions
    PageViews <- MCPageViews
    Events <- MCEvents
    PingPaths = {"", " home ", "https://x/"}
    PageViewIds = {"", "a"}
INVARIANTS
    DimensionsAsDocumented
    NoParameterTwice
    AcceptedIffAcceptable
