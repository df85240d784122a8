SPECIFICATION Spec
CONSTANTS
    g1 = g1
    q1 = q1
    v1 = v1
    v2 = v2
    p1 = p1
    p2 = p2
    None = None
    ActionTypes    = {"AGENT_SANDBOX", "AGENT_ACTIVATE"}
    Agents         = {g1}
    Versions       = {}
    Tools          = {tool}
    Specifications <- MCSpecifications
    AgentOf       <- MCAgentOf
    Requests       = {q1}
    ActivationOf  <- MCActivationOf
    Policies      <- MCPolicies
    minScore       = 60
    Policy        <- Forbidding
    Runs           = {p1}
    Activations    = {}
INVARIANT TenantRulesPrecede
CHECK_DEADLOCK FALSE
