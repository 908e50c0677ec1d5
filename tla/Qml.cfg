SPECIFICATION Spec
CONSTANTS
    Calls = {c1, c2}
    Settings <- MCSettings
    Messages <- MCMessages
    Results <- MCResults
    MaxFailures = 1
    OldId = OldId
    NoId = NoId
    Depth = 2
SYMMETRY MCSymmetry
INVARIANTS
    TypeOK
    SettingsAgree
    ShownFresh
PROPERTIES
    RetiredStaysRetired
