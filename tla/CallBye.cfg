SPECIFICATION Spec
CONSTANTS
  a = a
  b = b
  c = c
  None = None
  Broken = Broken
  Users = {a, b, c}
  Contacts <- Crossing
  MaxDials <- CrossingDials
  MaxFaults = 0
PROPERTIES ByeSparesOthers
CHECK_DEADLOCK FALSE
