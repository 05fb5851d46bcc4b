SPECIFICATION Spec
CONSTANTS
  Size = 4
  Overlap = 1
  SkipTitle = {"Index"}
  Threshold = 5
  Trivial = {"the", "is", "The"}
  Filler = {"the", "is"}
  Asking = {"what"}
  Keyword = {"main", "works", "cause", "blood"}
  Verb = {"is"}
  Subjective = {"works"}
  MaxPairs = 2
  Begins <- SomeBegins
  Batches <- SomeBatches
  Answers <- SomeAnswers
  Notebook = {n1, n2}
INVARIANTS
  NothingLeftBehind
  PreparedWhole
  DeckIsSound
  MergeIsUnion
  ExitIsHonest
CHECK_DEADLOCK FALSE
