SPECIFICATION Spec
CONSTANTS
  JobId = {j1, j2, j3, j4}
  Owner = {alice, bob}
  NoOwner = nobody
  Artifact = {}
  MaxJobFiles = 1
  MaxActive = 2
  MaxRetained = 3
  Retention = 2
SYMMETRY Symmetry
INVARIANTS
  QueueExact
  LimitsHold
  SourcesAccounted
PROPERTIES
  HistoryIsKept
  KeepsPromise
