SPECIFICATION MCSpec
CONSTANTS
    Process = {1, 2}
    Port = {80, 8420}
    Latest = 1
    MaxStarts = 3
    MaxFaults = 3
    Services = 3
    Budget = 6
    Window = {"desk", "other"}
    Desk = "desk"
    Switch = {"requests", "opens"}
    Asking = "requests"
    Visitor = {"phone"}
    FetchLimit = 2
    EarlierLimit = 1
    MaxSeconds = 2
    MaxRows = 2
    Author = {"x", "y"}
    Typed <- Names3
    Cut = 2
    NameMax = 7
    Tries = 2
    MaxCalls = 2
INVARIANTS
  OneDaemonServes
  RunningIsLeftAlone
  EveryServiceHasItsTurn
  SwitchesAlwaysStayPut
  NothingIsSwallowedThatSecond
  NothingOlderIsSwallowed
  FoldersAreAlwaysOnes
  NamesFit
  OwnFolderIsNoApp
PROPERTIES
  IdentityIsNeverReplaced
  MarkAlwaysGrows
  AnsweredElsewhereStands
CHECK_DEADLOCK FALSE
