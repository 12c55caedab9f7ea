\* Four requests for one id, of clients that are patient or not.
SPECIFICATION OrderedFairSpec
CONSTANTS
    Handlers = {1, 2, 3, 4}
    Ids = {i1}
    EmptyId = EmptyId
    MaxIndex = 3
    Requests <- MCRequests
    MachineConfigs <- MCMachineConfigs
    NoSession = NoSession
    NoConfig = NoConfig
    None = None
INVARIANTS
    ConfigSound
    LockHasHolder
    OutcomeTold
PROPERTIES
    RequestsEnd
CHECK_DEADLOCK FALSE
