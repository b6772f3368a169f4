SPECIFICATION ClientFairSpec
CONSTANTS
  None = None
  Queries = {q1}
  Readers = {r1}
  Listers = {l1}
  Clients = {k1, k2}
  MaxConcurrency = 1
  JobIds = {j1}
  Slots = 1
  Faults = {"cancel", "deadline", "timeout", "error", "key"}
INVARIANTS
  ClientTypeOK
  PermitsConserved
  HealthTracksKey
  AbandonedJobsEnd
PROPERTIES
  QueriesReturn
