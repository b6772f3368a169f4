SPECIFICATION Spec
CONSTANTS
    Actions <- MCActions
    Names <- MCNames
    Slashed <- MCSlashed
    Quoted <- MCQuoted
    Axes <- MCAxes
    PolicyRoots <- MCPolicyRoots
    AllowDelete = TRUE
    GrantRoots <- MCGrantRoots
    GrantActs <- MCGrantActs
    Lives <- MCLives
    MaxPlan = 3
INVARIANTS
    ScopeIsSemantic
    MovesFindTheirRules
    RefusalIsReal
CHECK_DEADLOCK FALSE
