SPECIFICATION Spec
CONSTANTS
    g1 = g1
    q1 = q1
    v1 = v1
    v2 = v2
    p1 = p1
    p2 = p2
    None = None
    ActionTypes    = {"AGENT_SANDBOX", "AGENT_ACTIVATE"}
    Agents         = {g1}
    Versions       = {v1, v2}
    Tools          = {tool}
    Specifications <- MCSpecifications
    AgentOf       <- MCAgentOf
    Requests       = {q1}
    ActivationOf  <- MCActivationOf
    Policies      <- MCPolicies
    minScore       = 60
    Policy        <- Cautious
    Runs           = {p1, p2}
    Activations    = {x1}
SYMMETRY Symmetry
INVARIANTS IInv ActiveApproved VettedStates VerdictsRecorded PolicyByPrecedence
PROPERTY MovesForward
CHECK_DEADLOCK FALSE
