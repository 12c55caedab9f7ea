\* Trees of up to eight leaves.
SPECIFICATION Spec
CONSTANTS
    Log2Root = 4
    Log2Leaf = 1
    Log2Word = 0
    Values = {1, 2}
INVARIANTS
    CompleteIsTree
    ProofsOfTree
    ProofsSurviveTransport
    BackIsTree
    NextLeafProofForesees
    FinishedProofsCurrent
CHECK_DEADLOCK FALSE
