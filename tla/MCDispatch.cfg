\* Three or four listeners and up to four more coroutines.  The process may exit.
SPECIFICATION OrderlySpec
CONSTANTS
    RpcSets <- MCRpcSets
    MaxCoroutines = 7
    MaxInputs = 2
    None = None
VIEW View
INVARIANTS
    TagsSound
    ParkedHasOneWaker
    AlwaysServed
CHECK_DEADLOCK FALSE
