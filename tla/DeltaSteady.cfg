SPECIFICATION Spec
CONSTANTS
    Python = {}
    NoHash = NoHash
    NoDevice = NoDevice
    Project = {npmProject}
    Global = {npmGlobal}
    Hash = {h1, h2}
    Device = {d1}
    Version = {1}
    Horizon = 1
    Environments = {{"unreadable"}, {"optOut"}}
    MaxExec = 3
    MaxDay = 2
INVARIANTS
    TypeOK
    InStep
PROPERTIES
    DeltaIsCompression
CHECK_DEADLOCK FALSE
