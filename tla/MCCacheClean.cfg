SPECIFICATION Spec
CONSTANTS
    p1 = p1
    p2 = p2
    Procs = {p1}
    Keys = {k1, k2}
    Summaries = {s1}
    Temps = {t1, t2}
    Foreign = {notes}
    Suffixed = {k1, k2}
    HexStem = {k1, k2}
    Inodes <- SmallInodes
    Folder = Folder
    Link = Link
    NoInode = NoInode
    Junk = Junk
    Miss = Miss
    Torn = Torn
    Layouts <- Bare
    Faults = {"io"}
    MaxMishaps = 1
    MaxTaken = 0
    Roles <- Cleaning
INVARIANTS
    CleanRemovesArtifacts
