SPECIFICATION AccessSpec
CONSTANTS
  Password = {p1}
  Session = {s1}
  Request = {r1, r2}
  Nobody = nobody
  HashPermits = 1
  SessionTtl = 3
  TokenTtl = 2
  UploadPermits = 1
  MaxActive = 1
  MaxJobFiles = 2
  MaxDocumentBytes = 2
  MaxJobUploadBytes = 3
INVARIANTS
  ServedWhileLive
  PermitsComeBack
  WithinLimits
  ProvisionedOnce
PROPERTIES
  EveryLoginGoesOn
