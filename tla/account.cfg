SPECIFICATION Spec
CONSTANTS
    Client = {c1}
    Poll = {p1, p2}
    Verify = verify
    Relay = {r1, r2}
    Handle = {h1, h2}
    NoHandle = NoHandle
    NoAnswer = NoAnswer
    NoTask = NoTask
    Restored <- RestoredOrNot
    Workers = 2
    MayFail = TRUE
    MaxChanges = 3
    MaxRestarts = 1
SYMMETRY Symmetry
INVARIANTS
  OnlyOne
  SaidIsDone
PROPERTIES
  OnlyANoUnlinks
CHECK_DEADLOCK FALSE
