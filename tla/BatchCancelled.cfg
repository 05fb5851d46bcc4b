SPECIFICATION BatchSpec
CONSTANTS
  ChunksOf <- OneChunk
  MaxAttempts = 2
  Failures = {}
  MayCancel = TRUE
  NoNotebook = none
INVARIANT
  CancelledIsDeleted
