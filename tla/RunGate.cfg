CONSTANTS
    None = None
    Unknown = Unknown
    Wakeups = {w1, w2}
    Devices = {d1, d2}
    Interval = 1
    Floor = 2
    Ahead = 1
    Environments = {{"offline"}, {"offline", "clock"}, {"offline", "rename"},
        {"offline", "probe", "readonly", "crash"}, {"offline", "overlap"}}
SPECIFICATION Spec
PROPERTY GateIsJust Recurs
