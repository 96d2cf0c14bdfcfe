SPECIFICATION Spec
CONSTANTS
    Python = {}
    NoHash = NoHash
    NoDevice = NoDevice
    Project = {npmProject}
    Global = {}
    Hash = {h1, h2}
    Device = {d1, d2}
    Version = {1, 2}
    Horizon = 1
    Environments = {
        {"optOut", "busy", "lockedDir", "loseAck", "failSave", "crash"},
        {"unreadable", "loseAck", "crash"},
        {"optOut", "readonly", "noHome", "dump", "loseAck", "loseQueued", "failSave", "crash"}}
    MaxExec = 3
    MaxDay = 1
INVARIANTS
    RefsResolve
    NoRefAcrossLegacy
    NoFalseRemoval
CHECK_DEADLOCK FALSE
