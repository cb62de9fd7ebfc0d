SPECIFICATION MCSpec
CONSTANTS
  DoorEdits = 3
  DoorVisits = 3
INVARIANTS
  NothingOutsideIsEverServed
  ListedOpensAnyhow
  UnpublishedIsAlwaysUnknown
PROPERTIES
  GoodbyeIsAlwaysOnesOwn
CHECK_DEADLOCK FALSE
