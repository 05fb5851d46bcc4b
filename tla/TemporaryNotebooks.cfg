SPECIFICATION GenerationSpec
CONSTANTS
  Notebook = {n1, n2, n3}
  MaxChunks <- TwoThenOne
  MaxRetries = 1
  MaxInterrupts = 1
  NoNotebook = none
INVARIANTS
  NoTwins
  NoneAbandoned
  ReportsAreTrue
PROPERTIES
  NotebooksGo
