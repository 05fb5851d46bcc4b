SPECIFICATION BatchSpec
CONSTANTS
  ChunksOf <- SplitThenWhole
  MaxAttempts = 2
  Failures = {"fails", "transient", "deadline"}
  MayCancel = TRUE
  NoNotebook = none
INVARIANTS
  NotebooksDeleted
  OutcomesAreTrue
PROPERTIES
  CancelIsPrompt
  RunEnds
