SPECIFICATION CSFairSpec
CONSTANTS
  None = None
  Edits = {e1}
  Foreign = {}
  Roots = {e1}
  Workers = {w1}
  Ops = {o1, o2}
  Faults = {"refused", "lost", "evidence"}
  Calls = {c1}
  Appliers = {a1}
  Policies = {p1}
  LockPolicies = {p1}
  Allowed <- AllEdits
  ChangeSetIds = {s1}
  StageTool = TRUE
  AllowDirectCommit = TRUE
  LocalAuthority = TRUE
  AllowPlaneOwnedWrites = FALSE
  Recorder = TRUE
  MayDetach = TRUE
  MayCrash = FALSE
  e1 = e1
  e2 = e2
  Plans <- ShortPlan
  Principals = {alice, bob}
  Humans = {bob}
  Viewers = {}
  LabMode = FALSE
INVARIANTS
  GuardDiscipline
PROPERTIES
  CommittingEnds
  CallsReturn
  ApplyingEnds
  SettledIsFinal
