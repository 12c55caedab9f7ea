\* Two requests, on a machine that is honest or not.
SPECIFICATION FairSpec
CONSTANTS
    WordMax = 15
    FirstCycles = {1, 12}
    MaxCycles = 3
    Increment = 2
    MaxDeadline = 1
    Ticks = {1}
    MaxElapsed = 2
    MaxJobs = 2
    PayloadSizes = {1, 9}
    RxLength = 4
    TxLength = 4
    StringHeader = 1
    VoucherHeader = 2
    Lengths = {1, 3, 16}
    HashSlots = 1
INVARIANTS
    CyclesKept
    DeadlineKept
    RecordsAgree
    OutputsFaithful
    RightRequest
    NoSilentReturn
    HonestNotTainted
PROPERTIES
    JobsEnd
CHECK_DEADLOCK FALSE
