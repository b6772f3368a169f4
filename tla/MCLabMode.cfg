SPECIFICATION CSSpec
CONSTANTS
  None = None
  Edits = {e1, e2}
  Foreign = {}
  Roots = {e1, e2}
  Workers = {w1}
  Ops = {o1}
  Faults = {}
  Calls = {}
  Appliers = {a1}
  Policies = {p1}
  LockPolicies = {p1}
  Allowed <- AllEdits
  ChangeSetIds = {s1}
  StageTool = TRUE
  AllowDirectCommit = FALSE
  LocalAuthority = TRUE
  AllowPlaneOwnedWrites = FALSE
  Recorder = TRUE
  MayDetach = FALSE
  MayCrash = FALSE
  e1 = e1
  e2 = e2
  Plans <- OnePlan
  Principals = {alice, bob}
  Humans = {alice, bob}
  Viewers = {}
  LabMode = TRUE
INVARIANTS
  ApprovedIsApplicable
