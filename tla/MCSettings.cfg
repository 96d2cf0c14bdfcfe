SPECIFICATION PolicySpec
CONSTANTS
    allow = allow
    gallery = gallery
    v1 = v1
    v2 = v2
    h1 = h1
    h2 = h2
    None = None
    Keys <- MCKeys
    Values <- MCValues
    Policies <- MCPolicies
    Environments = {{"stateDown", "writeDown"}, {"stateDown", "undoDown"}, {"writeDown", "crash"}, {"stateDown", "race"}}
INVARIANTS
    Accountable
    OwnTextKept
    VerdictsHold
PROPERTIES
    ImplementsOwnership
    AppliedIsApplied
    Settles
    NothingLeft
