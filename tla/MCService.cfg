SPECIFICATION Spec
CONSTANTS
    c1 = c1
    c2 = c2
    Clients = {c1, c2}
    Parts <- StaticInTwo
    Past = 1
    PageLimit = 1
    Menu <- Mixed
    Faults = {"storage"}
    Deaf <- LongOrFragmented
INVARIANTS
    BalanceMatchesEvents
    OwnOperationsFinish
PROPERTIES
    ImplementsContract
    StopFinishes
    StreamsCatchUp
