SPECIFICATION FairSpec
CONSTANTS
    Client = {c1}
    Poll = {p1, p2}
    Verify = verify
    Relay = {r1}
    Handle = {h1}
    NoHandle = NoHandle
    NoAnswer = NoAnswer
    NoTask = NoTask
    Restored <- RestoredOrNot
    Workers = 2
    MayFail = FALSE
    MaxChanges = 3
    MaxRestarts = 0
PROPERTIES WaitingEnds
CHECK_DEADLOCK FALSE
