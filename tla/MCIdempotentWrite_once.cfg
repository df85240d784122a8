SPECIFICATION FairRowSpec
CONSTANTS
    p1 = p1
    p2 = p2
    u1 = u1
    u2 = u2
    f1 = f1
    f2 = f2
    v1 = v1
    rot = rot
    art = art
    wf = wf
    msg = msg
    nested = nested
    task = task
    project = project
    flag = flag
    version = version
    agent = agent
    secret = secret
    Nobody = Nobody
    NoKey = NoKey
    Attempts  = {a1, a2, a3}
    Keys      = {p1, p2, u1, u2, f1, f2, v1, rot, art, wf, msg, nested, task}
    Nested    = {nested}
    Tasks     = {task}
    Projects  = {p1, p2}
    Versions  = {v1}
    Flags     = {f1, f2}
    Patches   = {u1, u2}
    Rotations = {rot}
    Artifacts = {art}
    Workflows = {wf}
    Messages  = {msg}
    Resources = {project, flag, version, agent, secret}
    Columns   = {"name", "state"}
    Override  = {"state"}
    Seeded    = {agent, secret}
    Named    <- MCNamed
    Parent   <- MCParent
    Given    <- MCGiven
INVARIANTS RowInv ExecutedOnce NameTakenOnce
PROPERTIES ImplementsOnce RequestsEnd NoLostUpdate
CHECK_DEADLOCK FALSE
