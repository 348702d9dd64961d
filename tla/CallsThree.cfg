SPECIFICATION Spec
CONSTANTS
  a = a
  b = b
  c = c
  None = None
  Broken = Broken
  Users = {a, b, c}
  Contacts <- TwoCallers
  MaxDials <- TwoCallersDials
  MaxFaults = 1
INVARIANTS AnswersOnlyAgreed
CHECK_DEADLOCK FALSE
