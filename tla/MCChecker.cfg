SPECIFICATION CheckerSpec
CONSTANTS
    ma = ma
    mb = mb
    mc = mc
    md = md
    Modules = {ma, mb, mc, md}
    Order <- Sorted
    Graphs <- AllGraphs
    x = x
    Vars = {x}
    Bodies <- AllBodies
    f = f
    g = g
    e = e
    pf = pf
    pg = pg
    rf = rf
    rg = rg
    re = re
    local1 = local1
    Functions = {f, g, e}
    External = {e}
    Slots = {pf, pg, rf, rg, re, local1}
    ParameterOf <- Signatures
    ReturnOf <- Results
    Programs <- SomePrograms
    Budget = 60
    Checks = 2
    one = one
    inner = inner
    two = two
    plain = plain
    Named = {one, inner, two, plain}
    ParentOf <- Nesting
    Arity <- Parameters
    CallLists <- ThreeCalls
    GenericBudget = 4
INVARIANTS
    CycleIsReal
    AcceptedIsAcyclic
    EveryKnotReported
    ConstantsAfterImports
    NoUnboundRead
    NoneNeverEscapes
    NoFallThrough
    TypeIsFunctionWide
    ResolvedIsLeast
    NothingHidden
    InstancesAreBounded
