SPECIFICATION HostSpec
CONSTANTS
    Agents = {p1, p2}
    Entries = {ide, npm}
    Hashes = {h1, h2}
    None = None
    Locking = TRUE
INVARIANTS
    UploadedMeansObject
    IdentityAgreed
    LogShows
    PluginsAreHonest
PROPERTIES
    ImplementsStore
    RewritesAreHonest
    ImplementsOutcome
    IdentitySettles
    CallsReturn
CHECK_DEADLOCK FALSE
