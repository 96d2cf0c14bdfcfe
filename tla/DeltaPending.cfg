SPECIFICATION Spec
CONSTANTS
    Python = {}
    NoHash = NoHash
    NoDevice = NoDevice
    Project = {npmProject}
    Global = {}
    Hash = {h1}
    Device = {d1}
    Version = {1}
    Horizon = 1
    Environments = {{}}
    MaxExec = 3
    MaxDay = 1
PROPERTY PendingSurvives
CHECK_DEADLOCK FALSE
