SPECIFICATION Spec
CONSTANTS
    Corpus <- TwoCases
    MaxOdd = 2
    Targets = {t1, t2}
    Concurrent = 2
    Files = {f1, f2}
    Edited = f1
    Repeats = 2
    Workers = 2
    MaxMistakes = 7
    Sizes = {1, 2}
    Jobs = {1, 2}
    Repetitions = 2
    MaxValue = 4
    MaxSpoiled = 1
    Ceiling <- SomeCeiling
    Lines <- SomeLines
    MaxLines = 3
    MaxRows = 2
    Machines = {m1, m2}
    MaxDamage = 1
INVARIANTS
    GateIsHonest
    CampaignIsHonest
    CommandHasAnOwner
    MeasureIsHonest
    ComparisonIsFair
    AuditIsComplete
    ReleaseIsWhole
SYMMETRY Symmetric
