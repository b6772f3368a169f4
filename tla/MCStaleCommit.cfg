SPECIFICATION Spec
CONSTANTS
  None = None
  Edits = {e1}
  Foreign = {}
  Roots = {e1}
  Workers = {w1}
  Ops = {o1}
  Faults = {}
  Calls = {c1, c2}
  Appliers = {}
  Policies = {p1}
  LockPolicies = {p1}
  Allowed <- AllEdits
  ChangeSetIds = {}
  StageTool = TRUE
  AllowDirectCommit = TRUE
  LocalAuthority = TRUE
  AllowPlaneOwnedWrites = FALSE
  Recorder = TRUE
  MayDetach = FALSE
  MayCrash = FALSE
INVARIANTS
  CommittedWasValidated
