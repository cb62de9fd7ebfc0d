SPECIFICATION Spec
CONSTANTS
    Client = {c1}
    Poll = {p1, p2}
    Verify = verify
    Relay = {r1, r2}
    Handle = {h1}
    NoHandle = NoHandle
    NoAnswer = NoAnswer
    NoTask = NoTask
    Restored <- RestoredOrNot
    Workers = 2
    MayFail = FALSE
    MaxChanges = 3
    MaxRestarts = 1
INVARIANTS
  UnlinkSticks
  TunnelGoneIsSaid
  WaitingIsAsked
  UnlinkedIsNotDialled
PROPERTIES
  LinkIsKept
CHECK_DEADLOCK FALSE
