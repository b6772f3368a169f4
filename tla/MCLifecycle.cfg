SPECIFICATION Spec
CONSTANTS
  None = None
  Edits = {e1, e2}
  Foreign = {f1}
  Roots = {e1, e2, f1}
  Workers = {w1}
  Ops = {o1, o2}
  Faults = {"refused", "lost", "persist", "evidence"}
  Calls = {c1}
  Appliers = {}
  Policies = {p1, p2}
  LockPolicies = {p1}
  Allowed <- AllEdits
  ChangeSetIds = {}
  StageTool = TRUE
  AllowDirectCommit = TRUE
  LocalAuthority = TRUE
  AllowPlaneOwnedWrites = FALSE
  Recorder = TRUE
  MayDetach = FALSE
  MayCrash = TRUE
INVARIANTS
  TypeOK
  CommitsOwnEdits
  CommittedWasValidated
  CommittedIsRunning
  UnknownIsNeverSettled
  IntentBeforeCommit
  LockedOperationIsStable
  OneOperationPerEndpoint
PROPERTIES
  DriftStopsNewCalls
