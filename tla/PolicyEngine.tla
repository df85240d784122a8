---------------------------- MODULE PolicyEngine ----------------------------
(***************************************************************************)
(* The policy engine (packages/policy-engine): which decision the rules of *)
(* a tenant and the built-in defaults give for an action at a risk level.  *)
(* It keeps no state; the agent factory and the tool gateway ask it.       *)
(***************************************************************************)
EXTENDS Naturals, Sequences

CONSTANT ActionTypes

ASSUME ActionsAssumption == "AGENT_ACTIVATE" \in ActionTypes /\ "*" \notin ActionTypes

RiskLevels == {"GREEN", "YELLOW", "RED"}
PolicyDecisions == {"ALLOW", "DENY", "REQUIRE_APPROVAL", "REQUIRE_ESCALATION"}

\* What parsePolicyRules lets through.
PolicyRule == [actionType : ActionTypes \cup {"*"}, riskLevel : RiskLevels \cup {"*"},
               decision : PolicyDecisions]
PolicyInput == [actionType : ActionTypes, riskLevel : RiskLevels]

Rule(action, risk, decision) == [actionType |-> action, riskLevel |-> risk, decision |-> decision]

DEFAULT_RULES == <<
    Rule("AGENT_ACTIVATE", "*", "REQUIRE_APPROVAL"),
    Rule("*", "RED", "REQUIRE_ESCALATION"),
    Rule("*", "YELLOW", "REQUIRE_APPROVAL"),
    Rule("*", "GREEN", "ALLOW")>>

\* A level the engine does not know counts as YELLOW.
toRiskLevel(level) == IF level \in RiskLevels THEN level ELSE "YELLOW"

Applies(rule, input) ==
    /\ rule.actionType \in {"*", input.actionType}
    /\ rule.riskLevel \in {"*", input.riskLevel}

specificity(rule) ==
    (IF rule.actionType = "*" THEN 0 ELSE 2) + (IF rule.riskLevel = "*" THEN 0 ELSE 1)

\* The loop over the candidates: the index of the best rule so far, 0 for none.
FaultBeats(rule, best) == specificity(rule) >= specificity(best)
Beats(rule, best) == specificity(rule) > specificity(best)

BestSoFar(candidates, input) ==
    LET best[i \in 0..Len(candidates)] ==
            IF i = 0 THEN 0
            ELSE IF /\ Applies(candidates[i], input)
                    /\ best[i - 1] = 0 \/ Beats(candidates[i], candidates[best[i - 1]])
                 THEN i
            ELSE best[i - 1]
    IN best

BestOf(candidates, input) == BestSoFar(candidates, input)[Len(candidates)]

\* No rule at all fails closed.
evaluatePolicy(input, tenantRules) ==
    LET candidates == tenantRules \o DEFAULT_RULES
        best == BestOf(candidates, input)
    IN IF best = 0 THEN "REQUIRE_ESCALATION" ELSE candidates[best].decision

-----------------------------------------------------------------------------
(* What the result means, without the loop. *)

\* One rule is preferred to another that also applies.
Preferred(candidates, i, j) ==
    \/ specificity(candidates[i]) > specificity(candidates[j])
    \/ specificity(candidates[i]) = specificity(candidates[j]) /\ i <= j

\* The decision is that of the applicable rule preferred to all others; among
\* equally specific ones a tenant's comes before a default.
MostSpecificWins(input, tenantRules) ==
    LET candidates == tenantRules \o DEFAULT_RULES
        applicable == {i \in DOMAIN candidates : Applies(candidates[i], input)}
    IN \A i \in applicable :
          (\A j \in applicable : Preferred(candidates, i, j)) =>
              evaluatePolicy(input, tenantRules) = candidates[i].decision
=============================================================================
