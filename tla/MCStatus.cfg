SPECIFICATION AgentSpec
CONSTANTS
    Phases = 3
    Environments = {
        {"ticks"},
        {"signals", "unix"},
        {"ticks", "signals", "loss", "windows", "wedge"}}
INVARIANTS
    ReportsHold
    NothingLeftBehind
    FilesAreSafe
PROPERTIES
    ProgressNeverRegresses
    RunEnds
    CommandsHold
CHECK_DEADLOCK FALSE
