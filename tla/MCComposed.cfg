SPECIFICATION CSSpec
CONSTANTS
  None = None
  Edits = {e1, e2, e3}
  Foreign = {}
  Roots = {e1, e2, e3}
  Workers = {w1}
  Ops = {o1, o2}
  Faults = {"refused", "lost"}
  Calls = {c1}
  Appliers = {a1}
  Policies = {p1}
  LockPolicies = {p1}
  Allowed <- AllEdits
  ChangeSetIds = {s1}
  StageTool = TRUE
  AllowDirectCommit = FALSE
  LocalAuthority = TRUE
  AllowPlaneOwnedWrites = FALSE
  Recorder = FALSE
  MayDetach = FALSE
  MayCrash = TRUE
  e1 = e1
  e2 = e2
  Plans <- OnePlan
  Principals = {alice, bob}
  Humans = {alice, bob}
  Viewers = {}
  LabMode = FALSE
INVARIANTS
  RunningIsApproved
  StagedIsWholePlan
