SPECIFICATION Spec
CONSTANTS
    Folder <- Folders
    BaseName <- Names
    Label <- Labels
    Client = {c1}
    Watcher = watcher
    Handle = {ours}
    Elsewhere <- Theirs
    MayFail = FALSE
    MaxHands = 2
    MaxCommands = 2
    NoName = NoName
    NoFolder = NoFolder
INVARIANTS
  NamesApart
  ShownAddressesAnswer
CHECK_DEADLOCK FALSE
