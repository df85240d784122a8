SPECIFICATION Spec
CONSTANTS
    a1 = a1
    a2 = a2
    a3 = a3
    k1 = k1
    k2 = k2
    kr = kr
    ks = ks
    q1 = q1
    v1 = v1
    v2 = v2
    None = None
    Attempts           = {a1, a2, a3}
    Creates            = {k1, k2}
    Rollbacks          = {kr, ks}
    ReleaseOf         <- MCReleaseOf
    EnvironmentOf     <- MCEnvironmentOf
    ApprovalOf        <- MCApprovalOf
    HasUrl            <- MCHasUrl
    DeploymentOf      <- MCDeploymentOf
    Releases           = {v1, v2}
    Environments       = {"staging", "production"}
    Requests           = {q1}
    ProductionRequests = {q1}
    Checked            = {k2}
    MaxCrashes         = 2
INVARIANTS IInv ProductionApproved RolledBackReplaced OneVerdict OutcomeAudited
SYMMETRY Symmetry
CHECK_DEADLOCK FALSE
