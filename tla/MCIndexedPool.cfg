SPECIFICATION Spec
CONSTANTS
    N = 4
    Jobs <- NegativeJobs
    Fallback = 3
INVARIANTS
    SlotHasOneWriter
    JoinIsComplete
    MergedAsSequential
PROPERTIES
    Terminates
