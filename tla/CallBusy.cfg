SPECIFICATION Spec
CONSTANTS
  a = a
  b = b
  c = c
  None = None
  Broken = Broken
  Users = {a, b, c}
  Contacts <- Chain
  MaxDials <- ChainDials
  MaxFaults = 1
PROPERTIES CallUndisturbed
CHECK_DEADLOCK FALSE
