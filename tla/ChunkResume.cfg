SPECIFICATION ResumeSpec
CONSTANTS
  Process = {p1, p2}
  s1 = s1
  s2 = s2
  small = small
  Source <- Versions
  Chunks <- VersionsOf
  Cloze = {single}
  MaxCards = 1
  MaxDamage = 1
  NoProcess = none
  NoKey = nokey
  NoDeck = nodeck
  Unreadable = unreadable
SYMMETRY Symmetry
INVARIANTS
  DeckIsWhole
  NotPaidTwice
PROPERTIES
  SavedIsKept
