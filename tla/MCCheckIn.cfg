\* Three waits, and servers that may check in twice.
SPECIFICATION CalmFairSpec
CONSTANTS
    MaxWaits = 3
    Sends = 2
INVARIANTS
    WaitHasWaker
    SuccessEarned
    AddressFresh
    RendezvousSafe
PROPERTIES
    WaitsEnd
CHECK_DEADLOCK FALSE
