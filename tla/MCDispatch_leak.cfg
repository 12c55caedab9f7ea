\* An AdvanceState, its check-in and its deadline.
SPECIFICATION OrderlySpec
CONSTANTS
    RpcSets <- MCRpcSets
    MaxCoroutines = 6
    MaxInputs = 1
    None = None
VIEW View
INVARIANT NoLeak
CHECK_DEADLOCK FALSE
