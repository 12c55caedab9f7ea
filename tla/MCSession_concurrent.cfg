\* Two AdvanceStates, a machine server that does not fail.
SPECIFICATION ClientSpec
CONSTANTS
    Handlers = {h1, h2}
    Rpcs = {"AdvanceState"}
    MaxEpochIndex = 2
    StartEpoch = 0
    StartCount = 5
    MachineFaults = FALSE
    None = None
    Null = Null
INVARIANT NoConcurrentProcessing
CHECK_DEADLOCK FALSE
