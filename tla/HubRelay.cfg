SPECIFICATION RelayFairSpec
CONSTANTS
  a = a
  b = b
  c1 = c1
  c2 = c2
  c3 = c3
  Users = {a, b}
  Conns <- Two
  Quota <- SomeFrames
  None = None
  QCap = 2
  MaxFaults = 1
PROPERTIES RelayInOrder DeadLinkLeaves NoWriterLeak
CHECK_DEADLOCK FALSE
