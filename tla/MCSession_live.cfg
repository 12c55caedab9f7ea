\* Progress: AdvanceStates pile up, one other request at a time.
SPECIFICATION OrderedFairSpec
CONSTANTS
    Handlers = {1, 2, 3, 4}
    Rpcs = {"AdvanceState", "InspectState", "FinishEpoch"}
    MaxEpochIndex = 2
    StartEpoch = 1
    StartCount = 5
    MachineFaults = TRUE
    None = None
    Null = Null
PROPERTIES
    HandlersEnd
    InputsProcessed
CHECK_DEADLOCK FALSE
