SPECIFICATION FairSpec
CONSTANTS
    c1 = c1
    r1 = r1
    s1 = s1
    Calls       = {c1}
    Runs        = {r1, s1}
    Suites      = {s1}
    Clients    <- MCClients
    Decisions   = {"ALLOW", "REQUIRE_APPROVAL"}
    maxAttempts = 2
    PoolSize    = 2
INVARIANTS IInv OutcomesAudited TrailMatchesCalls RunsOnRecord
PROPERTY CallsEnd
CHECK_DEADLOCK FALSE
