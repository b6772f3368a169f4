SPECIFICATION Spec
CONSTANTS
  None = None
  Edits = {e1, e2}
  Foreign = {f1}
  Roots = {e1, e2, f1}
  Workers = {w1}
  Ops = {o1, o2}
  Faults = {"refused", "lost", "persist"}
  Calls = {c1, c2}
  Appliers = {}
  Policies = {p1}
  LockPolicies = {p1}
  Allowed <- AllEdits
  ChangeSetIds = {}
  StageTool = TRUE
  AllowDirectCommit = FALSE
  LocalAuthority = TRUE
  AllowPlaneOwnedWrites = FALSE
  Recorder = TRUE
  MayDetach = FALSE
  MayCrash = TRUE
SYMMETRY Symmetry
INVARIANTS
  NoMixedCandidate
