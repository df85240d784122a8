SPECIFICATION FairSpec
CONSTANTS
    r1 = r1
    r3 = r3
    t1 = t1
    t2 = t2
    Requests    = {r1, r3}
    Tenants     = {t1, t2}
    TenantOf   <- MCTenantOf
    Deciders    = {}
    Listers     = {}
    Passes      = {p1, p2}
    Broken      = {t2}
    Entries     = {e1}
    OwnerOf    <- MCOwnerOf
    NoActor     = NoActor
    NoTenant    = NoTenant
    MaxFailures = 0
PROPERTIES OverdueSettled PurgeOnlyExpired ExpiredPurged
CHECK_DEADLOCK FALSE
