SPECIFICATION Spec
CONSTANTS
  f1 = f1
  f2 = f2
  s = s
  w = w
  c1 = c1
  c2 = c2
  NoFolder = NoFolder
  NoFile = NoFile
  Cut = Cut
  Garbled = Garbled
  NoApp = NoApp
  Folder = {f1}
  Starter = s
  Watcher = {w}
  Client = {c1, c2}
  Ops = {"open", "forget", "create"}
  MayFail = TRUE
  MaxChanges = 3
SYMMETRY Symmetry
INVARIANTS
  OnlyTheOwnerOpens
CHECK_DEADLOCK FALSE
