SPECIFICATION LifecycleSpec
CONSTANTS
  a = a
  b = b
  c1 = c1
  c2 = c2
  c3 = c3
  Users = {a, b}
  Conns <- Three
  Quota <- NoFrames
  None = None
  QCap = 1
  MaxFaults = 0
INVARIANTS PresenceCatchesUp
CHECK_DEADLOCK FALSE
