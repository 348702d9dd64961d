SPECIFICATION Spec
CONSTANTS
  a = a
  b = b
  c = c
  None = None
  Broken = Broken
  Users = {a, b}
  Contacts <- PairContacts
  MaxDials <- PairDials
  MaxFaults = 0
INVARIANTS CallStartsFresh
CHECK_DEADLOCK FALSE
