SPECIFICATION Spec
CONSTANTS
    p1 = p1
    p2 = p2
    Procs = {p1, p2}
    Keys = {k1, k2}
    Summaries = {s1}
    Temps = {t1, t2}
    Foreign = {notes_json, hex_bare}
    Suffixed = {k1, k2, notes_json}
    HexStem = {k1, k2, hex_bare}
    Inodes <- SmallInodes
    Folder = Folder
    Link = Link
    NoInode = NoInode
    Junk = Junk
    Miss = Miss
    Torn = Torn
    Layouts <- Inhabited
    Faults = {"io", "user"}
    MaxMishaps = 1
    MaxTaken = 1
    Roles <- Mixed
INVARIANTS
    NoLitter
    PublishedWhole
PROPERTIES
    UserEntriesKept
SYMMETRY NamesInterchangeable
