SPECIFICATION FairSpec
CONSTANTS
  a = a
  b = b
  Peers = {a, b}
  Quota <- TwoMessages
  PageSize = 1
  MaxFaults <- TwoFaultsEarly
INVARIANTS TypeOK DeliveredIsReceived ReadWasShown BadgeCountsUnread
PROPERTIES KeepsMailbox EventuallyDelivered
CHECK_DEADLOCK FALSE
