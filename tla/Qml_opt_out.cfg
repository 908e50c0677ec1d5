SPECIFICATION Spec
CONSTANTS
    Calls = {c1}
    Settings <- MCSettings
    Messages <- MCMessages
    Results <- MCResults
    MaxFailures = 1
    OldId = OldId
    NoId = NoId
    Depth = 0
SYMMETRY MCSymmetry
PROPERTIES
    OptOutForgets
