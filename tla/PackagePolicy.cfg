SPECIFICATION Spec
CONSTANTS
    None = None
    Toks = {1, 2}
    Moods = {"refused", "mdm", "overridden"}
    MaxPolicies = 3
    MaxTouches = 1
    MaxKills = 1
INVARIANTS
    CycleIsHonest
PROPERTIES
    SiblingKeepsCredential
    Settles
