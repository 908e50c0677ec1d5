SPECIFICATION Spec
CONSTANTS
    Trackers = {t1, t2}
    Calls = {c1, c2}
    RawValues <- MCRawValues
    HostIds = {h1}
    OldId = OldId
    NoId = NoId
SYMMETRY MCSymmetry
INVARIANTS
    StoresInv
    OneVisitor
PROPERTIES
    ConsentHonoured
    ClearedStaysCleared
