SPECIFICATION Spec
CONSTANTS
    p1 = p1
    p2 = p2
    Procs = {p1, p2}
    Keys = {k1, k2}
    Summaries = {s1, s2}
    Temps = {t1}
    Foreign = {}
    Suffixed = {k1, k2}
    HexStem = {k1, k2}
    Inodes <- SmallInodes
    Folder = Folder
    Link = Link
    NoInode = NoInode
    Junk = Junk
    Miss = Miss
    Torn = Torn
    Layouts <- Bare
    Faults = {"damage", "reuse"}
    MaxMishaps = 0
    MaxTaken = 0
    Roles <- TwoUsers
INVARIANTS
    HitIsFaithful
PROPERTIES
    ImplementsContract
SYMMETRY Interchangeable
