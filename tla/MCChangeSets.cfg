SPECIFICATION CSSpec
CONSTANTS
  None = None
  Edits = {e1, e2}
  Foreign = {}
  Roots = {e1, e2}
  Workers = {w1}
  Ops = {o1, o2}
  Faults = {"refused", "lost", "persist"}
  Calls = {}
  Appliers = {a1, a2}
  Policies = {p1, p2}
  LockPolicies = {p1}
  Allowed <- AllEdits
  ChangeSetIds = {s1}
  StageTool = TRUE
  AllowDirectCommit = FALSE
  LocalAuthority = TRUE
  AllowPlaneOwnedWrites = FALSE
  Recorder = TRUE
  MayDetach = FALSE
  MayCrash = TRUE
  e1 = e1
  e2 = e2
  Plans <- OnePlan
  Principals = {alice, bob}
  Humans = {alice, bob}
  Viewers = {v1}
  LabMode = TRUE
INVARIANTS
  CSTypeOK
  SingleUse
  PushedWasApproved
PROPERTIES
  LedgerSpec
