\* Any four requests over a machine server that may fail.
SPECIFICATION ClientSpec
CONSTANTS
    Handlers = {h1, h2, h3, h4}
    Rpcs = {"AdvanceState", "InspectState", "FinishEpoch", "DeleteEpoch", "EndSession",
            "GetEpochStatus"}
    MaxEpochIndex = 2
    StartEpoch = 1
    StartCount = 5
    MachineFaults = TRUE
    None = None
    Null = Null
SYMMETRY Symmetry
INVARIANTS
    TypeOK
    ProcessingExclusive
    ActiveEpochIsActive
    InputLog
    IndicesUnique
    MachineAgrees
    EpochsSound
    IndexAgreement
    QueryNotLost
    SerialExclusive
    NoCrash
PROPERTIES
    ImplementsLedger
CHECK_DEADLOCK FALSE
