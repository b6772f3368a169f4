SPECIFICATION Spec
CONSTANTS
    None = None
    Options <- MCOptions
    Inventories <- MCInventories
    TokenNames = {"t1"}
    Grants <- MCGrants
    Requests <- MCRequests
    MaxInvEdits = 1
    MaxEdits = 2
    MaxSecret = 2
INVARIANTS
    ServedIsEntitled
    JudgedByLiveStore
    CommandsFollowPolicy
    ListenerIsGuarded
PROPERTIES
    SnapshotIsOneLoad
    SignalIsObeyed
CHECK_DEADLOCK FALSE
