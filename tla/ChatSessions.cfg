SPECIFICATION FairSpec
CONSTANTS
  a = a
  b = b
  Peers = {a, b}
  Smaller = a
  NoSession = NoSession
  Negotiations = {1, 2, 3, 4}
  MaxFaults = 2
INVARIANTS TypeOK NeverGivesUp NoGlare UnansweredWasLost
PROPERTIES SparesTheLiving KeepsToChatLink SignalingRecovers ChannelComesBack
CHECK_DEADLOCK FALSE
