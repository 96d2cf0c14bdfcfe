SPECIFICATION Spec
CONSTANTS
    Phases = 3
    Environments = {{"ticks"}}
PROPERTIES
    NoOlderAfterNewer
CHECK_DEADLOCK FALSE
