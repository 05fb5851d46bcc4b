SPECIFICATION BatchSpec
CONSTANTS
  ChunksOf <- TwoWhole
  MaxAttempts = 1
  Failures = {"deadline"}
  MayCancel = FALSE
  NoNotebook = none
INVARIANT
  TimeoutSparesOthers
