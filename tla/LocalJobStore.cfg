SPECIFICATION StoreSpec
CONSTANTS
  Owner = {alice}
  NoOwner = nobody
  MaxJobFiles = 1
  MaxActive = 2
  MaxRetained = 2
  Retention = 1
  Orderly = FALSE
  NoJob = none
  NoTimer = off
  JobId = {j1, j2}
  Artifact = {deck}
  Client = {c1}
  Reader = {r1}
SYMMETRY Symmetry
INVARIANTS
  PlacesComeBack
  FilesFollowJobs
  NoLostWakeup
