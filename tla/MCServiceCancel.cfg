SPECIFICATION Spec
CONSTANTS
    c1 = c1
    c2 = c2
    Clients = {c1}
    Past = 0
    Parts <- StaticInTwo
    PageLimit = 1
    Menu <- Writing
    Deaf = {}
    Faults = {"storage"}
PROPERTY
    CancelledIsCancelled
