CONSTANTS
    Child <- MCChild
    TextIn <- MCTextIn
    Secret <- MCSecret
    Asks <- MCAsks
    MaxEvents = 8
    MaxDepth = 6
    MaxList = 2
SPECIFICATION Spec
INVARIANTS
    ScanIsExact
    PageIsHonest
    SecretsHidden
    FieldsComeFromTheirElement
    MembersHaveTheirGroup
CHECK_DEADLOCK FALSE
