SPECIFICATION ProvenanceSpec
CONSTANTS
    f = f
    g = g
    e = e
    pf = pf
    pg = pg
    rf = rf
    rg = rg
    re = re
    local1 = local1
    Functions = {f, g, e}
    External = {e}
    Slots = {pf, pg, rf, rg, re, local1}
    ParameterOf <- Signatures
    ReturnOf <- Results
    Programs <- SomePrograms
    Budget = 50
    Checks = 2
INVARIANTS
    VerdictIsTheSame
