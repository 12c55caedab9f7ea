\* One AdvanceState outlived by two status requests, a machine server that does
\* not fail.
SPECIFICATION ClientSpec
CONSTANTS
    Handlers = {h1, h2, h3}
    Rpcs = {"AdvanceState", "GetEpochStatus"}
    MaxEpochIndex = 2
    StartEpoch = 0
    StartCount = 5
    MachineFaults = FALSE
    None = None
    Null = Null
INVARIANT SessionLockExclusive
CHECK_DEADLOCK FALSE
