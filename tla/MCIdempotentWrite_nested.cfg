SPECIFICATION RowSpec
CONSTANTS
    p1 = p1
    p2 = p2
    u1 = u1
    u2 = u2
    f1 = f1
    f2 = f2
    v1 = v1
    rot = rot
    art = art
    wf = wf
    msg = msg
    nested = nested
    task = task
    project = project
    flag = flag
    version = version
    agent = agent
    secret = secret
    Nobody = Nobody
    NoKey = NoKey
    Attempts  = {a1, a2}
    Keys      = {nested}
    Nested    = {nested}
    Tasks     = {}
    Projects  = {}
    Versions  = {}
    Flags     = {}
    Patches   = {}
    Rotations = {}
    Artifacts = {}
    Workflows = {}
    Messages  = {}
    Resources = {project, flag, version, agent, secret}
    Columns   = {"name", "state"}
    Override  = {"state"}
    Seeded    = {agent, secret}
    Named    <- MCNamed
    Parent   <- MCParent
    Given    <- MCGiven
INVARIANT NeverReexecuted
CHECK_DEADLOCK FALSE
