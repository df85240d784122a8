SPECIFICATION Spec
CONSTANTS
    r1 = r1
    r2 = r2
    r3 = r3
    t1 = t1
    t2 = t2
    Requests    = {r1, r2}
    Tenants     = {t1}
    TenantOf   <- MCTenantOf
    Deciders    = {d1, d2}
    Listers     = {g1}
    Passes      = {p1}
    Broken      = {}
    NoActor     = NoActor
    MaxFailures = 1
SYMMETRY Symmetry
INVARIANTS IInv AcceptedStands NothingOverdueListed
PROPERTY ImplementsRecord
CHECK_DEADLOCK FALSE
