SPECIFICATION FairSpec
CONSTANTS
  a = a
  b = b
  c = c
  None = None
  Broken = Broken
  Users = {a, b}
  Contacts <- PairContacts
  MaxDials <- PairDials
  MaxFaults = 1
INVARIANTS TypeOK AnswersOnlyAgreed CallIsShown RingIsShown VoiceGoesToPeer
PROPERTIES ConnectedCallEnds OnlyClicksAgree
CHECK_DEADLOCK FALSE
