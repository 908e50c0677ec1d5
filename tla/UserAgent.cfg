SPECIFICATION Spec
CONSTANTS
    AlphaNumeric = {"a", "1", "0", "6"}
    Digits = {"0", "1", "d"}
    Spaces = {" "}
    Machines <- MCMachines
    Products <- MCProducts
    Infos <- MCInfos
INVARIANTS
    TokensFaithful
    UserAgentWellFormed
    WindowsVersionKnown
    DistroAsNamed
