-------------------------- MODULE MCAgentLifecycle --------------------------
(***************************************************************************)
(* Instances of AgentLifecycle for TLC: an agent that is complete,     *)
(* sparse or has a malformed schema.                                       *)
(***************************************************************************)
EXTENDS AgentLifecycle, TLC

CONSTANTS g1, q1, v1, v2, p1, p2,
    Policy   \* what the tenant may set besides nothing

Complete == [capabilities |-> 1, purpose |-> TRUE, security |-> "GREEN", input_schema |-> "valid",
             output_schema |-> "valid", allowed_tools |-> Tools]
Sparse   == [capabilities |-> 4, purpose |-> TRUE, security |-> None, input_schema |-> "none",
             output_schema |-> "none", allowed_tools |-> {}]
Broken   == [Complete EXCEPT !.output_schema = "invalid"]
MCSpecifications == {Complete, Sparse, Broken}
MCAgentOf == [v \in Versions |-> g1]
MCActivationOf == [r \in Requests |-> g1]

\* A tenant that asks for approval of green actions and lets yellow agents into
\* the sandbox, and one that forbids everything.
Cautious == <<Rule("*", "GREEN", "REQUIRE_APPROVAL"), Rule("AGENT_SANDBOX", "YELLOW", "ALLOW"),
              Rule("AGENT_SANDBOX", "YELLOW", "DENY")>>
Forbidding == <<Rule("*", "*", "DENY")>>
MCPolicies == {<<>>, Policy}

Symmetry == Permutations(Runs) \cup Permutations(Versions) \cup Permutations(Activations)
=============================================================================
