SPECIFICATION Spec
CONSTANTS
  b1 = b1
  b2 = b2
  r1 = r1
  r2 = r2
  d1 = d1
  d2 = d2
  d3 = d3
  i1 = i1
  i2 = i2
  None = None
  Browser = {b1, b2}
  Request = {r1, r2}
  Device = {d1, d2}
  Invite = {i1}
  Pinning = {i1}
  Instant = {}
  Expiring = {}
SYMMETRY Symmetry
CONSTRAINT Unnamed
PROPERTIES
  PinnedLinkIsInertElsewhere
CHECK_DEADLOCK FALSE
