SPECIFICATION MCFairSpec
CONSTANTS
    Viewer = {phone}
    Path = {home, about}
    Beat = 2
    Linger = 5
    Backlog = 1
    MaxMoves = 3
    MaxNoise = 1
    MaxRestarts = 1
    Nowhere = Nowhere
    Daemon = {s1, s2, s3, o1}
    Outsider = {o1}
    NoDaemon = NoDaemon
    Polls = 2
    MaxPresses = 2
    MaxUpsets = 1
INVARIANTS
    PresenceIsTrue
    ShellSafe
PROPERTIES
    StaleNamesGo
CHECK_DEADLOCK FALSE
