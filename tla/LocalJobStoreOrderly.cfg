SPECIFICATION StoreSpec
CONSTANTS
  Owner = {alice}
  NoOwner = nobody
  MaxJobFiles = 1
  MaxActive = 2
  MaxRetained = 2
  Retention = 1
  Orderly = TRUE
  NoJob = none
  NoTimer = off
  JobId = {j1, j2}
  Artifact = {}
  Client = {c1}
  Reader = {}
INVARIANTS
  WorkerSurvives
PROPERTIES
  JobsMoveOn
  WorkerStops
