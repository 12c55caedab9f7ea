\* A session is started again before the EndSession of the first has ended.
SPECIFICATION OrderedFairSpec
CONSTANTS
    Handlers = {1, 2, 3}
    Ids = {i1}
    EmptyId = EmptyId
    MaxIndex = 3
    Requests <- FewRequests
    MachineConfigs <- FewConfigs
    NoSession = NoSession
    NoConfig = NoConfig
    None = None
INVARIANTS
    CompleteOrLocked
CHECK_DEADLOCK FALSE
