SPECIFICATION CallsSpec
CONSTANTS
  Call = {c1, c2}
  Source = {s0, s1, s2, s3}
  Theirs = {s0}
  NoSource = none
  MaxHops = 5
INVARIANTS
  OthersStay
  SomebodyCleans
  CleanupIsTrue
PROPERTIES
  CallsEnd
CHECK_DEADLOCK FALSE
