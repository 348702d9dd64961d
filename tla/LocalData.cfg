SPECIFICATION Spec
CONSTANTS
  k1 = k1
  k2 = k2
  c1 = c1
  c2 = c2
  NoFile = NoFile
  Torn = Torn
  Plain = Plain
  NoContact = NoContact
  Documents <- Invites
  DefaultStun = "google"
  Keys = {k1, k2}
  Contacts = {c1, c2}
  Legacy = 1
  MaxRows = 3
  PageSize = 1
  MaxQueued = 1
  MaxFaults <- OneOrTwo
SYMMETRY Symmetry
INVARIANTS TypeOK ConfigFileLoads LiveConfigIsSaved VersionHasColumns SealedSinceVersion1 KeyOpensRows IdsBackfilled DamageNeedsWindow WindowIsSuffix ExhaustedShowsAll NoBadgeOnScreen
CHECK_DEADLOCK FALSE
