CONSTANTS
    p1 = p1
    p2 = p2
    p3 = p3
    a = a
    b = b
    u = u
    x = x
    npm = npm
    yarn = yarn
    Gone = Gone
    Project = {p1, p2, p3}
    Content = {a, b, u, x}
    Manager = {npm, yarn}
    PM <- MCPM
    Unlocked = {u}
    Broken = {x}
    Weight <- MCWeight
    Version = {1, 2}
    Cap = 2
    Room = 3
    Scenarios <- MCBlind
SPECIFICATION ScansSpec
INVARIANT FullSyncIsFresh
CHECK_DEADLOCK FALSE
