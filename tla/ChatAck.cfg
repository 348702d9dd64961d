SPECIFICATION Spec
CONSTANTS
  a = a
  b = b
  Peers = {a, b}
  Quota <- OneMessage
  PageSize = 1
  MaxFaults <- OneFault
INVARIANTS ConfirmedIsReceived
CHECK_DEADLOCK FALSE
