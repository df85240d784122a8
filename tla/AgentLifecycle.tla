--------------------------- MODULE AgentLifecycle ---------------------------
(***************************************************************************)
(* The life of an agent: the routes that create agents and versions and    *)
(* activate a version (control-plane-api, routes/agents.ts), and the       *)
(* factory's pipeline DRAFT -> SANDBOX -> TESTED -> EVALUATED -> APPROVED  *)
(* (services/agent-factory), gated by the policy engine.                   *)
(*                                                                         *)
(* No statement locks a row or tests it again: a pipeline step reads the   *)
(* agent, checks it and updates it, and an activation reads the approval   *)
(* and updates version and agent, with anything in between.                *)
(***************************************************************************)
EXTENDS PolicyEngine, FiniteSets

CONSTANTS
    Agents, Versions, Tools,
    Specifications,  \* what agents are created with, see AgentSpec
    AgentOf,         \* the agent of each version
    Requests,        \* approval requests
    ActivationOf,    \* the agent a request with action AGENT_ACTIVATE is for
    Policies,        \* the rule sequences a tenant may put in policy_registry
    minScore,
    Runs,            \* pipeline runs in flight
    Activations,     \* POST .../activate in flight
    None

\* security None stands for a level that is none of the three.
AgentSpec == [capabilities : Nat, purpose : BOOLEAN, security : RiskLevels \cup {None},
              input_schema : {"none", "valid", "invalid"},
              output_schema : {"none", "valid", "invalid"}, allowed_tools : SUBSET Tools]

ASSUME SpecificationAssumption ==
    /\ \A s \in Specifications : s \in AgentSpec
    /\ AgentOf \in [Versions -> Agents] /\ ActivationOf \in [Requests -> Agents \cup {None}]
    /\ \A rules \in Policies : rules \in Seq(PolicyRule)
ASSUME NumbersAssumption == minScore \in Nat
ASSUME NoneAssumption == None \notin Agents \cup Versions \cup Nat \cup Specifications \cup PolicyDecisions

VARIABLES
    decision, overdue,  \* approval_requests, see ApprovalRecord
    specification,      \* agent_registry: what the agent was created with
    lifecycle,          \* agent_registry.lifecycle_state
    score,              \* agent_registry.evaluation_score
    active,             \* agent_registry.active_agent_version_id
    versionState,       \* agent_versions.lifecycle_state
    rules,              \* the tenant's ACTIVE policy_registry row
    enabled,            \* tool_registry.enabled
    recorded,           \* policy_decision_records: <<agent, decision>>
    run,                \* what each pipeline run is doing, see Run
    activating          \* the version whose approval an activation has read

vars == <<decision, overdue, specification, lifecycle, score, active, versionState, rules, enabled,
          recorded, run, activating>>
approvals == <<decision, overdue>>
registry  == <<specification, lifecycle, score, active, versionState>>

Approval == INSTANCE ApprovalRecord

\* The states in the order of the pipeline, and the step that leaves each.
Rank == [DRAFT |-> 1, SANDBOX |-> 2, TESTED |-> 3, EVALUATED |-> 4, APPROVED |-> 5, ACTIVE |-> 6]
Previous == [SANDBOX |-> "DRAFT", TESTED |-> "SANDBOX", EVALUATED |-> "TESTED", APPROVED |-> "EVALUATED"]
Following == [SANDBOX |-> "TESTED", TESTED |-> "EVALUATED", EVALUATED |-> "APPROVED"]
LifecycleStates == {"DRAFT", "SANDBOX", "TESTED", "EVALUATED", "APPROVED", "ACTIVE"}
StepsTo == {"TESTED", "EVALUATED", "APPROVED"}

\* pc "vet": before the policy transaction of advanceToSandbox; "sandbox": before
\* its second one; "read" and "write": inside the transaction of the step that
\* leads to to.  seen is the state the step read.
Run == [pc : {"idle", "vet", "sandbox", "read", "write", "blocked"},
        agent : Agents \cup {None}, to : {"SANDBOX"} \cup StepsTo,
        verdict : PolicyDecisions \cup {None}, seen : LifecycleStates \cup {None}]

IdleRun == [pc |-> "idle", agent |-> None, to |-> "SANDBOX", verdict |-> None, seen |-> None]

TypeOK ==
    /\ Approval!TypeOK
    /\ specification \in [Agents -> Specifications \cup {None}]
    /\ lifecycle \in [Agents -> LifecycleStates \cup {"absent"}]
    /\ score \in [Agents -> Nat \cup {None}]
    /\ active \in [Agents -> Versions \cup {None}]
    /\ versionState \in [Versions -> LifecycleStates \cup {"absent"}]
    /\ rules \in Policies \cup {<<>>}
    /\ enabled \subseteq Tools
    /\ recorded \subseteq Agents \X PolicyDecisions
    /\ run \in [Runs -> Run]
    /\ activating \in [Activations -> Versions \cup {None}]

Init ==
    /\ Approval!Init
    /\ specification = [a \in Agents |-> None]
    /\ lifecycle = [a \in Agents |-> "absent"]
    /\ score = [a \in Agents |-> None]
    /\ active = [a \in Agents |-> None]
    /\ versionState = [v \in Versions |-> "absent"]
    /\ rules = <<>>
    /\ enabled = Tools
    /\ recorded = {}
    /\ run = [p \in Runs |-> IdleRun]
    /\ activating = [x \in Activations |-> None]

-----------------------------------------------------------------------------
(* Agents and versions. *)

CreateAgent(a, s) ==
    /\ lifecycle[a] = "absent"
    /\ specification' = [specification EXCEPT ![a] = s]
    /\ lifecycle' = [lifecycle EXCEPT ![a] = "DRAFT"]
    /\ UNCHANGED <<approvals, score, active, versionState, rules, enabled, recorded, run, activating>>

\* The caller may name the version's lifecycle_state.
CreateVersion(v, s) ==
    /\ lifecycle[AgentOf[v]] # "absent" /\ versionState[v] = "absent"
    /\ versionState' = [versionState EXCEPT ![v] = s]
    /\ UNCHANGED <<approvals, specification, lifecycle, score, active, rules, enabled, recorded, run, activating>>

\* Any APPROVED AGENT_ACTIVATE request of the agent will do, again and again.
FaultAnyDecision(a) == \E r \in Requests : ActivationOf[r] = a /\ decision[r] \notin {"absent", "NULL"}
ActivationApproved(a) == \E r \in Requests : ActivationOf[r] = a /\ decision[r] = "APPROVED"

ReadApproval(x, v) ==
    /\ activating[x] = None /\ versionState[v] # "absent"
    /\ ActivationApproved(AgentOf[v])
    /\ activating' = [activating EXCEPT ![x] = v]
    /\ UNCHANGED <<approvals, registry, rules, enabled, recorded, run>>

Activate(x) ==
    LET v == activating[x]
    IN /\ v # None
       /\ versionState' = [versionState EXCEPT ![v] = "ACTIVE"]
       /\ active' = [active EXCEPT ![AgentOf[v]] = v]
       /\ lifecycle' = [lifecycle EXCEPT ![AgentOf[v]] = "ACTIVE"]
       /\ activating' = [activating EXCEPT ![x] = None]
       /\ UNCHANGED <<approvals, specification, score, rules, enabled, recorded, run>>

ActivateFails(x) ==
    /\ activating[x] # None
    /\ activating' = [activating EXCEPT ![x] = None]
    /\ UNCHANGED <<approvals, registry, rules, enabled, recorded, run>>

-----------------------------------------------------------------------------
(* The pipeline. *)

Goto(p, pc) == run' = [run EXCEPT ![p].pc = pc]

\* runFullPipeline, or a worker that retries the step leading to to.
Start(p, a, to) ==
    /\ run[p].pc \in {"idle", "blocked"} /\ lifecycle[a] # "absent"
    /\ run' = [run EXCEPT ![p] = [IdleRun EXCEPT !.agent = a, !.to = to,
                                     !.pc = IF to = "SANDBOX" THEN "vet" ELSE "read"]]
    /\ UNCHANGED <<approvals, registry, rules, enabled, recorded, activating>>

\* requireAgent: the agent is in the state the step expects.
FaultAnyState(p) == TRUE
InExpectedState(p) == lifecycle[run[p].agent] = Previous[run[p].to]

Verdict(a) == evaluatePolicy([actionType |-> "AGENT_SANDBOX",
                              riskLevel |-> toRiskLevel(specification[a].security)], rules)

\* recordPolicyDecision, whatever the verdict.
FaultOnlyAllowed(a, verdict) == recorded' = recorded \cup {d \in {<<a, verdict>>} : verdict = "ALLOW"}
RecordDecision(a, verdict) == recorded' = recorded \cup {<<a, verdict>>}

\* The first transaction of advanceToSandbox: the decision survives a block.
Vet(p) ==
    LET a == run[p].agent
    IN /\ run[p].pc = "vet" /\ InExpectedState(p)
       /\ RecordDecision(a, Verdict(a))
       /\ run' = [run EXCEPT ![p].pc = IF Verdict(a) = "ALLOW" THEN "sandbox" ELSE "blocked",
                             ![p].verdict = Verdict(a), ![p].seen = lifecycle[a]]
       /\ UNCHANGED <<approvals, registry, rules, enabled, activating>>

\* The step is done, and runFullPipeline goes on with the next.
GoOn(p) ==
    run' = [run EXCEPT ![p] =
        IF run[p].to = "APPROVED" THEN IdleRun
        ELSE [@ EXCEPT !.pc = "read", !.to = Following[run[p].to],
                        !.verdict = None, !.seen = None]]

\* The second one: the agent's tools exist, and it is in SANDBOX, wherever it was.
Sandbox(p) ==
    LET a == run[p].agent
    IN /\ run[p].pc = "sandbox" /\ specification[a].allowed_tools \subseteq enabled
       /\ lifecycle' = [lifecycle EXCEPT ![a] = "SANDBOX"]
       /\ GoOn(p)
       /\ UNCHANGED <<approvals, specification, score, active, versionState, rules, enabled, recorded,
                      activating>>

\* computeEvaluationScore.
EvaluationScore(s) ==
    (IF s.capabilities >= 3 THEN 30 ELSE 10 * s.capabilities)
    + (IF s.purpose THEN 20 ELSE 0)
    + (IF s.input_schema # "none" THEN 20 ELSE 0) + (IF s.output_schema # "none" THEN 20 ELSE 0)
    + (IF s.security \in RiskLevels THEN 10 ELSE 0)

\* validateJsonSchemaShape of both schemas.
SchemasValid(s) == s.input_schema # "invalid" /\ s.output_schema # "invalid"

\* What each step asks of the agent it read.
FaultNoGate(p) == run[p].to = "TESTED" => SchemasValid(specification[run[p].agent])
PassesGate(p) ==
    LET a == run[p].agent
    IN /\ run[p].to = "TESTED" => SchemasValid(specification[a])
       /\ run[p].to = "APPROVED" => score[a] # None /\ score[a] >= minScore

\* advanceToTested, advanceToEvaluated, advanceToApproved: SELECT and check ...
ReadAgent(p) ==
    /\ run[p].pc = "read" /\ InExpectedState(p) /\ PassesGate(p)
    /\ run' = [run EXCEPT ![p].pc = "write", ![p].seen = lifecycle[run[p].agent]]
    /\ UNCHANGED <<approvals, registry, rules, enabled, recorded, activating>>

\* ... and UPDATE.
WriteAgent(p) ==
    LET a == run[p].agent
    IN /\ run[p].pc = "write"
       /\ lifecycle' = [lifecycle EXCEPT ![a] = run[p].to]
       /\ score' = IF run[p].to = "EVALUATED"
                   THEN [score EXCEPT ![a] = EvaluationScore(specification[a])] ELSE score
       /\ GoOn(p)
       /\ UNCHANGED <<approvals, specification, active, versionState, rules, enabled, recorded, activating>>

\* A check fails, a transaction fails, or the worker dies: the run stops and
\* what earlier steps committed stays.
StopRun(p) ==
    /\ run[p].pc \notin {"idle", "blocked"}
    /\ run' = [run EXCEPT ![p] = IdleRun]
    /\ UNCHANGED <<approvals, registry, rules, enabled, recorded, activating>>

-----------------------------------------------------------------------------
(* The rest of the system. *)

\* upsertPolicy validates a policy before it writes it.
UpsertPolicy(new) ==
    /\ rules # new
    /\ rules' = new
    /\ UNCHANGED <<approvals, registry, enabled, recorded, run, activating>>

ToggleTool(t) ==
    /\ enabled' = IF t \in enabled THEN enabled \ {t} ELSE enabled \cup {t}
    /\ UNCHANGED <<approvals, registry, rules, recorded, run, activating>>

\* Approvals go their own way; one for an agent refers to an existing one.
Approving ==
    /\ Approval!Next
    /\ \A r \in Requests : decision'[r] # "absent" /\ ActivationOf[r] # None =>
                              lifecycle[ActivationOf[r]] # "absent"
    /\ UNCHANGED <<registry, rules, enabled, recorded, run, activating>>

Pipeline(p) ==
    \/ Vet(p) \/ Sandbox(p) \/ ReadAgent(p) \/ WriteAgent(p) \/ StopRun(p)
    \/ \E a \in Agents, to \in {"SANDBOX"} \cup StepsTo : Start(p, a, to)

Next ==
    \/ \E a \in Agents, s \in Specifications : CreateAgent(a, s)
    \/ \E v \in Versions, s \in {"DRAFT", "ACTIVE"} : CreateVersion(v, s)
    \/ \E x \in Activations, v \in Versions : ReadApproval(x, v)
    \/ \E x \in Activations : Activate(x) \/ ActivateFails(x)
    \/ \E p \in Runs : Pipeline(p)
    \/ \E new \in Policies : UpsertPolicy(new)
    \/ \E t \in Tools : ToggleTool(t)
    \/ Approving

Spec == Init /\ [][Next]_vars

-----------------------------------------------------------------------------
(* Safety. *)

\* Blueprint clause 45, contract rule 9: whatever pipelines, activations and
\* decisions interleave, the active version is one of the agent's own, and an
\* AGENT_ACTIVATE request for that agent is APPROVED.
ActiveApproved ==
    \A a \in Agents : active[a] # None =>
        /\ AgentOf[active[a]] = a /\ versionState[active[a]] = "ACTIVE"
        /\ \E r \in Requests : ActivationOf[r] = a /\ decision[r] = "APPROVED"

\* What an agent has passed when it is in state s.
Vetted(a, s) ==
    /\ Rank[s] >= 2 => <<a, "ALLOW">> \in recorded
    /\ Rank[s] >= 3 => SchemasValid(specification[a])
    /\ Rank[s] >= 4 => score[a] = EvaluationScore(specification[a])
    /\ Rank[s] >= 5 => score[a] >= minScore

\* Overlapping pipelines may move an agent back, but never into a state whose
\* checks it has not passed: SANDBOX needs a recorded ALLOW, TESTED valid
\* schemas, EVALUATED a score, APPROVED a score of at least minScore.
VettedStates ==
    \A a \in Agents : lifecycle[a] \notin {"absent", "ACTIVE"} => Vetted(a, lifecycle[a])

\* pipeline.ts: "the policy decision is an audit record and must survive even
\* when it blocks the transition".
VerdictsRecorded ==
    \A p \in Runs : run[p].verdict # None => <<run[p].agent, run[p].verdict>> \in recorded

\* evaluator.ts: the most specific applicable rule wins, the first of equals.
PolicyByPrecedence == \A input \in PolicyInput : MostSpecificWins(input, rules)

\* evaluator.ts: "tenant-specific rules ... take precedence over DEFAULT_RULES":
\* where a rule of the tenant applies, the decision is that of one of its rules.
TenantRulesPrecede ==
    \A input \in PolicyInput :
        LET own == {i \in DOMAIN rules : Applies(rules[i], input)}
        IN own # {} => \E i \in own : evaluatePolicy(input, rules) = rules[i].decision

-----------------------------------------------------------------------------
(* The inductive invariant. *)

\* An activation under way has an approval, and approvals are final.
ActivationsApproved ==
    \A x \in Activations : activating[x] # None =>
        /\ versionState[activating[x]] # "absent" /\ lifecycle[AgentOf[activating[x]]] # "absent"
        /\ \E r \in Requests : ActivationOf[r] = AgentOf[activating[x]] /\ decision[r] = "APPROVED"

\* A run between its read and its write knows what it read, and that stays so.
RunVetted(p) ==
    /\ run[p].pc # "idle" => run[p].agent # None /\ lifecycle[run[p].agent] # "absent"
    /\ run[p].pc = "vet" => run[p].to = "SANDBOX"
    /\ run[p].pc = "sandbox" => run[p].to = "SANDBOX" /\ run[p].verdict = "ALLOW" /\ run[p].seen = "DRAFT"
    /\ run[p].pc \in {"read", "write"} => run[p].to \in StepsTo
    /\ run[p].pc = "write" =>
          /\ run[p].seen = Previous[run[p].to]
          /\ Vetted(run[p].agent, run[p].seen) /\ PassesGate(p)

RunsVetted == \A p \in Runs : RunVetted(p)

ScoresComputed ==
    \A a \in Agents : score[a] # None => score[a] = EvaluationScore(specification[a])

\* Only existing agents have versions and specifications.
RowsExist ==
    /\ \A a \in Agents : lifecycle[a] = "absent" <=> specification[a] = None
    /\ \A a \in Agents : lifecycle[a] = "absent" => score[a] = None
    /\ \A v \in Versions : versionState[v] # "absent" => lifecycle[AgentOf[v]] # "absent"

IInv ==
    /\ TypeOK /\ ActivationsApproved /\ RunsVetted /\ ScoresComputed /\ RowsExist
    /\ ActiveApproved /\ VettedStates /\ VerdictsRecorded

(* Action properties. *)

\* Only a run that another one or an activation overtook between its read and
\* its write moves an agent back.
MovesForward ==
    [][\A a \in Agents :
          lifecycle[a] # "absent" /\ Rank[lifecycle'[a]] < Rank[lifecycle[a]] =>
              \E p \in Runs : run[p].agent = a /\ run[p].pc \in {"sandbox", "write"}
                              /\ run[p].seen # lifecycle[a]]_vars
=============================================================================
