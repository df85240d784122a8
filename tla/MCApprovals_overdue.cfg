SPECIFICATION Spec
CONSTANTS
    r1 = r1
    r2 = r2
    r3 = r3
    t1 = t1
    t2 = t2
    Requests    = {r1}
    Tenants     = {t1}
    TenantOf   <- MCTenantOf
    Deciders    = {d1}
    Listers     = {}
    Passes      = {p1}
    Broken      = {}
    NoActor     = NoActor
    MaxFailures = 0
PROPERTY OverdueNotApproved
CHECK_DEADLOCK FALSE
