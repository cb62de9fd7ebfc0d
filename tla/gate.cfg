SPECIFICATION MCSpec
CONSTANTS
  DoorEdits = 3
  DoorVisits = 3
INVARIANTS
  TrustIsOnlyTakenAway
  AdvertisedIsServed
  NothingOutsideIsServed
  FrontDoorSafe
PROPERTIES
  GoodbyeIsOnesOwn
CHECK_DEADLOCK FALSE
