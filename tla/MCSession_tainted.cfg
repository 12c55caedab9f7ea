\* A query fails between two inputs.
SPECIFICATION ClientSpec
CONSTANTS
    Handlers = {h1, h2}
    Rpcs = {"AdvanceState", "InspectState"}
    MaxEpochIndex = 2
    StartEpoch = 0
    StartCount = 5
    MachineFaults = TRUE
    None = None
    Null = Null
INVARIANT TaintedIsQuiet
CHECK_DEADLOCK FALSE
