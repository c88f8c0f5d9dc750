SPECIFICATION FairSpec
CHECK_DEADLOCK FALSE
CONSTANTS
    t1 = t1
    t2 = t2
    a = a
    b = b
    c = c
    Tab = {t1, t2}
    Call = {a, b, c}
    TabOf <- tabOf
    MaxCalls = 2
INVARIANTS
    Inv
    CalmCallsResolve
PROPERTIES
    EverySettles
    PagesRender
