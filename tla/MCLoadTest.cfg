SPECIFICATION Spec
CONSTANTS
    Workers = {w1, w2}
    RequestCount = 4
    Streams = 2
    Duration = TRUE
    WriteEvery = 2
    MaxPending = 4
    MaxFaults <- FaultsWith
INVARIANTS
    OkIsTrue
    OkIsAcceptable
    NoFalseAlarm
    SamplerMeetsOpenDatabase
SYMMETRY Interchangeable
